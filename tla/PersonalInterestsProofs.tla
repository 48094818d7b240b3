---------------------- MODULE PersonalInterestsProofs ----------------------
(***************************************************************************)
(* Theorems about PersonalInterests, for any interests, removals, rows     *)
(* from before script hashes were kept, and number of calls and failures.  *)
(***************************************************************************)
EXTENDS PersonalInterests, FiniteSetTheorems, SequenceTheorems, TLAPS

\* An output is spent once.
ChainApart == \A r, s \in chain : Inputs[r] \cap Inputs[s] # {} => r = s

RemovedAreHashed == \A i \in DOMAIN rows : rows[i].removal_location # None => rows[i].hashed

\* The only interest of the transaction a row is located in.
Single(i) == Len(Detected[TxOf[rows[i].location]]) = 1

\* A row whose script is known stays where it is: a fiber that is removing it asked
\* for that place, and a script that read it before can only write it again.
FiberKnows(f) ==
  /\ pc[f] \in {"history", "transactions", "save", "publish"} =>
       rows[row[f]].hashed /\ rows[row[f]].location = asked[f]
  /\ pc[f] = "save" => \A r \in hist[f] : At[asked[f]] \in Inputs[r]
  /\ pc[f] = "publish" => rows[row[f]].removal_location # None
  /\ pc[f] \in {"fixFetch", "fixSave"} =>
       \A i \in todo[f] : rows[i].hashed => Single(i) /\ rows[i].location = Correct(i)
  /\ pc[f] = "fixSave" => Single(row[f])

\* What the types say of one fiber.
FiberTyped(f) ==
  /\ pc[f] \in Step /\ asked[f] \in Location \cup {None} /\ row[f] \in {0} \cup DOMAIN rows
  /\ hist[f] \in SUBSET chain /\ left[f] \in Seq(Output) /\ todo[f] \in SUBSET DOMAIN rows
  /\ pc[f] \in {"findAll", "fetch", "create", "findOne", "history", "transactions", "save", "publish"}
       => asked[f] \in Location
  /\ pc[f] \in {"history", "transactions", "save", "publish"} => row[f] \in DOMAIN rows
  /\ pc[f] = "fixSave" => row[f] \in todo[f]
  /\ pc[f] = "create" => left[f] # <<>>
  /\ pc[f] \in {"fetchAgain", "fixFetch", "fixSave"} => todo[f] # {}

IInv ==
  /\ TypeOK
  /\ ChainApart
  /\ RemovedAreHashed
  /\ RemovalsAreOnChain
  /\ \A f \in Fiber : FiberKnows(f)

\* What every step does to the table and the chain.
TableKeeps ==
  /\ rows' \in Seq(Interest) /\ DOMAIN rows \subseteq DOMAIN rows'
  /\ removals' \in [DOMAIN rows' -> Nat] /\ failures' \in Nat
  /\ chain \subseteq chain' /\ chain' \subseteq Removal
  /\ \A i \in DOMAIN rows :
       /\ TxOf[rows'[i].location] = TxOf[rows[i].location]
       /\ rows'[i].out = rows[i].out /\ rows'[i].origin = rows[i].origin
       /\ rows[i].hashed => rows'[i].hashed /\ rows'[i].location = rows[i].location
       /\ ~rows[i].hashed /\ rows'[i].hashed => Single(i) /\ rows'[i].location = Correct(i)
       /\ rows[i].removal_location # None =>
            rows'[i].removal_location = rows[i].removal_location /\ ~rows'[i].active

\* A step of one fiber.
OneMoves(f) ==
  /\ pc' = [pc EXCEPT ![f] = pc'[f]] /\ asked' = [asked EXCEPT ![f] = asked'[f]]
  /\ row' = [row EXCEPT ![f] = row'[f]] /\ hist' = [hist EXCEPT ![f] = hist'[f]]
  /\ left' = [left EXCEPT ![f] = left'[f]] /\ todo' = [todo EXCEPT ![f] = todo'[f]]

LEMMA ConstantFacts ==
  /\ Detected \in [Tx -> Seq(Output)] /\ TxOf \in [Location -> Tx]
  /\ Place \in [Output -> Location] /\ At \in [Location -> Output \cup {None}]
  /\ Asked \subseteq Location /\ None \notin Output /\ None \notin Removal
  /\ \A r \in Removal : Inputs[r] \subseteq Output
  /\ \A t \in Tx : \A i \in DOMAIN Detected[t] : TxOf[Place[Detected[t][i]]] = t
  BY InterestAssumption

LEMMA TypedFibers ==
  ASSUME TypeOK, NEW f \in Fiber
  PROVE  FiberTyped(f)
  BY DEF TypeOK, FiberTyped

LEMMA InitIInv == Init => IInv
<1> SUFFICES ASSUME Init PROVE IInv
  OBVIOUS
<1> USE DEF Init
<1>1. /\ rows \in Seq(Interest)
      /\ \A i \in DOMAIN rows : rows[i].active /\ rows[i].removal_location = None
  BY InterestAssumption
<1>2. TypeOK
  <2>1. removals \in [DOMAIN rows -> Nat]
    OBVIOUS
  <2>2. QED
    BY <1>1, <2>1 DEF TypeOK, Step
<1>3. RemovedAreHashed /\ RemovalsAreOnChain /\ ChainApart
  BY <1>1 DEF RemovedAreHashed, RemovalsAreOnChain, ChainApart
<1>4. \A f \in Fiber : FiberKnows(f)
  BY DEF FiberKnows
<1>5. QED
  BY <1>2, <1>3, <1>4 DEF IInv

-----------------------------------------------------------------------------
(* The fibers that do not move.                                            *)

\* The place of the single interest of a transaction is in that transaction.
LEMMA CorrectStays ==
  ASSUME TypeOK, NEW i \in DOMAIN rows, Single(i)
  PROVE  /\ Correct(i) \in Location
         /\ TxOf[Correct(i)] = TxOf[rows[i].location]
<1>1. rows[i].location \in Location
  <2>1. rows \in Seq(Interest)
    BY DEF TypeOK
  <2>2. rows[i] \in Interest
    BY <2>1
  <2>3. QED
    BY <2>2 DEF Interest
<1>2. PICK t \in Tx : t = TxOf[rows[i].location]
  BY <1>1, ConstantFacts
<1>3. 1 \in DOMAIN Detected[t] /\ Detected[t][1] \in Output
  <2>1. Detected[t] \in Seq(Output) /\ Len(Detected[t]) = 1
    BY <1>2, ConstantFacts DEF Single
  <2>2. QED
    BY <2>1
<1>4. QED
  BY <1>2, <1>3, ConstantFacts DEF Correct

LEMMA OthersKeep ==
  ASSUME IInv, TableKeeps, NEW g \in Fiber,
         pc'[g] = pc[g], asked'[g] = asked[g], row'[g] = row[g], hist'[g] = hist[g],
         left'[g] = left[g], todo'[g] = todo[g]
  PROVE  FiberTyped(g)' /\ FiberKnows(g)'
<1>1. FiberTyped(g) /\ FiberKnows(g)
  BY TypedFibers DEF IInv
<1>2. FiberTyped(g)'
  BY <1>1 DEF FiberTyped, TableKeeps
<1>3. \A i \in DOMAIN rows : (Single(i))' <=> Single(i)
  BY DEF TableKeeps, Single
<1>4. \A i \in DOMAIN rows : (Correct(i))' = Correct(i)
  BY DEF TableKeeps, Correct
<1>5. ASSUME pc[g] \in {"fixFetch", "fixSave"}, NEW i \in todo[g], rows'[i].hashed
      PROVE  Single(i) /\ rows'[i].location = Correct(i)
  <2>1. i \in DOMAIN rows
    BY <1>1 DEF FiberTyped
  <2>2. CASE rows[i].hashed
    BY <1>1, <1>5, <2>1, <2>2 DEF FiberKnows, TableKeeps
  <2>3. CASE ~rows[i].hashed
    BY <1>5, <2>1, <2>3 DEF TableKeeps
  <2>4. QED
    BY <2>2, <2>3
<1>6. ASSUME pc[g] \in {"history", "transactions", "save", "publish"}
      PROVE  rows'[row[g]].hashed /\ rows'[row[g]].location = asked[g]
  BY <1>1, <1>6 DEF FiberTyped, FiberKnows, TableKeeps
<1>7. ASSUME pc[g] = "fixSave" PROVE (Single(row[g]))'
  <2>1. row[g] \in DOMAIN rows /\ Single(row[g])
    BY <1>1, <1>7 DEF FiberTyped, FiberKnows
  <2>2. QED
    BY <1>7, <2>1 DEF TableKeeps, Single
<1>8. ASSUME pc[g] \in {"fixFetch", "fixSave"}, NEW i \in todo[g], rows'[i].hashed
      PROVE  (Single(i))' /\ rows'[i].location = (Correct(i))'
  <2>1. i \in DOMAIN rows
    BY <1>1 DEF FiberTyped
  <2>2. QED
    BY <1>3, <1>4, <1>5, <1>8, <2>1
<1>a. ASSUME pc[g] = "publish" PROVE rows'[row[g]].removal_location # None
  BY <1>1, <1>a DEF FiberTyped, FiberKnows, TableKeeps
<1>9. FiberKnows(g)'
  BY <1>1, <1>6, <1>7, <1>8, <1>a DEF FiberKnows
<1>10. QED
  BY <1>2, <1>9

LEMMA FiberSteps ==
  ASSUME IInv, TableKeeps, NEW f \in Fiber, OneMoves(f), FiberTyped(f)', FiberKnows(f)',
         ChainApart', RemovedAreHashed', RemovalsAreOnChain'
  PROVE  IInv'
<1>1. /\ pc \in [Fiber -> Step] /\ asked \in [Fiber -> Location \cup {None}]
      /\ row \in [Fiber -> {0} \cup DOMAIN rows] /\ hist \in [Fiber -> SUBSET chain]
      /\ left \in [Fiber -> Seq(Output)] /\ todo \in [Fiber -> SUBSET DOMAIN rows]
  BY DEF IInv, TypeOK
<1>2. ASSUME NEW g \in Fiber PROVE FiberTyped(g)' /\ FiberKnows(g)'
  <2>1. CASE g = f
    BY <2>1
  <2>2. CASE g # f
    <3>1. /\ pc'[g] = pc[g] /\ asked'[g] = asked[g] /\ row'[g] = row[g]
          /\ hist'[g] = hist[g] /\ left'[g] = left[g] /\ todo'[g] = todo[g]
      BY <1>1, <2>2 DEF OneMoves
    <3>2. QED
      BY <3>1, OthersKeep
  <2>3. QED
    BY <2>1, <2>2
<1>3. /\ pc' \in [Fiber -> Step] /\ asked' \in [Fiber -> Location \cup {None}]
      /\ row' \in [Fiber -> {0} \cup DOMAIN rows'] /\ hist' \in [Fiber -> SUBSET chain']
      /\ left' \in [Fiber -> Seq(Output)] /\ todo' \in [Fiber -> SUBSET DOMAIN rows']
  <2>1. \A g \in Fiber : /\ pc'[g] \in Step /\ asked'[g] \in Location \cup {None}
                         /\ row'[g] \in {0} \cup DOMAIN rows' /\ hist'[g] \in SUBSET chain'
                         /\ left'[g] \in Seq(Output) /\ todo'[g] \in SUBSET DOMAIN rows'
    BY <1>2 DEF FiberTyped
  <2>2. /\ pc' \in [Fiber -> Step] /\ asked' \in [Fiber -> Location \cup {None}]
    BY <1>1, <2>1 DEF OneMoves
  <2>3. /\ row' \in [Fiber -> {0} \cup DOMAIN rows'] /\ hist' \in [Fiber -> SUBSET chain']
    BY <1>1, <2>1 DEF OneMoves
  <2>4. /\ left' \in [Fiber -> Seq(Output)] /\ todo' \in [Fiber -> SUBSET DOMAIN rows']
    BY <1>1, <2>1 DEF OneMoves
  <2>5. QED
    BY <2>2, <2>3, <2>4
<1>4. TypeOK'
  BY <1>2, <1>3 DEF TypeOK, TableKeeps, FiberTyped
<1>5. QED
  BY <1>2, <1>4 DEF IInv

\* A step that leaves the table and the chain alone.
LEMMA QuietSteps ==
  ASSUME IInv, UNCHANGED <<chain, rows, removals>>, failures' \in Nat,
         NEW f \in Fiber, OneMoves(f), FiberTyped(f)', FiberKnows(f)'
  PROVE  IInv' /\ TableKeeps
<1>1. TableKeeps
  BY DEF IInv, TypeOK, RemovalsAreOnChain, TableKeeps
<1>2. ChainApart' /\ RemovedAreHashed' /\ RemovalsAreOnChain'
  BY DEF IInv, ChainApart, RemovedAreHashed, RemovalsAreOnChain
<1>3. QED
  BY <1>1, <1>2, FiberSteps

LEMMA Shapes ==
  ASSUME TypeOK
  PROVE  /\ pc \in [Fiber -> Step] /\ asked \in [Fiber -> Location \cup {None}]
         /\ row \in [Fiber -> {0} \cup DOMAIN rows] /\ hist \in [Fiber -> SUBSET chain]
         /\ left \in [Fiber -> Seq(Output)] /\ todo \in [Fiber -> SUBSET DOMAIN rows]
  BY DEF TypeOK

\* A call that is answered keeps nothing.
LEMMA DoneSteps ==
  ASSUME TypeOK, NEW f \in Fiber, Done(f)
  PROVE  OneMoves(f) /\ FiberTyped(f)' /\ FiberKnows(f)'
<1>1. /\ OneMoves(f)
      /\ pc'[f] = "idle" /\ asked'[f] = None /\ row'[f] = 0
      /\ hist'[f] = {} /\ left'[f] = <<>> /\ todo'[f] = {}
  BY Shapes DEF Done, Goto, OneMoves
<1>2. FiberTyped(f)'
  BY <1>1 DEF FiberTyped, Step
<1>3. FiberKnows(f)'
  BY <1>1 DEF FiberKnows
<1>4. QED
  BY <1>1, <1>2, <1>3

-----------------------------------------------------------------------------
(* Imports, and the script up to its save.                                 *)

LEMMA BeginSteps ==
  ASSUME IInv, NEW f \in Fiber, NEW l \in Asked, Import(f, l) \/ Remove(f, l)
  PROVE  IInv' /\ TableKeeps
<1> USE DEF Import, Remove, Begin, Goto, world, table
<1>1. FiberTyped(f) /\ FiberKnows(f) /\ TypeOK
  BY TypedFibers DEF IInv
<1>2. PICK p \in {"findAll", "findOne"} : Begin(f, p, l)
  OBVIOUS
<1>3. /\ OneMoves(f) /\ pc'[f] = p /\ asked'[f] = l /\ row'[f] = row[f]
      /\ hist'[f] = hist[f] /\ left'[f] = left[f] /\ todo'[f] = todo[f]
  BY <1>1, <1>2, Shapes DEF OneMoves
<1>4. FiberTyped(f)' /\ FiberKnows(f)'
  BY <1>1, <1>2, <1>3, ConstantFacts DEF FiberTyped, FiberKnows, Step
<1>5. QED
  BY <1>1, <1>2, <1>3, <1>4, QuietSteps DEF TypeOK

LEMMA FindAllSteps ==
  ASSUME IInv, NEW f \in Fiber, FindAll(f)
  PROVE  IInv' /\ TableKeeps
<1> USE DEF FindAll, Goto, world, table, local
<1>1. FiberTyped(f) /\ FiberKnows(f) /\ TypeOK /\ failures' \in Nat
  BY TypedFibers DEF IInv, TypeOK
<1>2. OneMoves(f) /\ FiberTyped(f)' /\ FiberKnows(f)'
  <2>1. CASE pc' = [pc EXCEPT ![f] = "fetch"] /\ UNCHANGED local
    <3>1. /\ OneMoves(f) /\ pc'[f] = "fetch" /\ asked'[f] = asked[f] /\ row'[f] = row[f]
          /\ hist'[f] = hist[f] /\ left'[f] = left[f] /\ todo'[f] = todo[f]
      BY <1>1, <2>1, Shapes DEF OneMoves
    <3>2. QED
      BY <1>1, <3>1 DEF FiberTyped, FiberKnows, Step
  <2>2. CASE /\ RowsAt(asked[f]) \cap Unhashed # {}
             /\ pc' = [pc EXCEPT ![f] = "fetchAgain"]
             /\ todo' = [todo EXCEPT ![f] = RowsAt(asked[f]) \cap Unhashed]
             /\ UNCHANGED <<asked, row, hist, left>>
    <3>1. PICK t : t = RowsAt(asked[f]) \cap Unhashed
      OBVIOUS
    <3>2. /\ OneMoves(f) /\ pc'[f] = "fetchAgain" /\ asked'[f] = asked[f]
          /\ row'[f] = row[f] /\ hist'[f] = hist[f] /\ left'[f] = left[f] /\ todo'[f] = t
      BY <1>1, <2>2, <3>1, Shapes DEF OneMoves
    <3>3. t # {} /\ t \subseteq DOMAIN rows
      BY <2>2, <3>1 DEF RowsAt, Unhashed
    <3>4. QED
      BY <1>1, <3>2, <3>3 DEF FiberTyped, FiberKnows, Step
  <2>3. CASE Done(f)
    BY <1>1, <2>3, DoneSteps
  <2>4. QED
    BY <2>1, <2>2, <2>3
<1>3. QED
  BY <1>1, <1>2, QuietSteps

LEMMA FetchSteps ==
  ASSUME IInv, NEW f \in Fiber, FetchAgain(f) \/ Fetch(f)
  PROVE  IInv' /\ TableKeeps
<1> USE DEF FetchAgain, Fetch, Goto, world, table
<1>1. FiberTyped(f) /\ FiberKnows(f) /\ TypeOK /\ failures' \in Nat
  BY TypedFibers DEF IInv, TypeOK
<1>2. OneMoves(f) /\ FiberTyped(f)' /\ FiberKnows(f)'
  <2>1. CASE Done(f)
    BY <1>1, <2>1, DoneSteps
  <2>2. CASE FetchAgain(f) /\ ~Done(f)
    <3>1. PICK i \in todo[f] :
            /\ todo[f] # {i} /\ todo' = [todo EXCEPT ![f] = @ \ {i}]
            /\ UNCHANGED <<pc, asked, row, hist, left>> /\ pc[f] = "fetchAgain"
      BY <2>2
    <3>2. PICK t : t = todo[f] \ {i}
      OBVIOUS
    <3>3. /\ OneMoves(f) /\ pc'[f] = "fetchAgain" /\ asked'[f] = asked[f]
          /\ row'[f] = row[f] /\ hist'[f] = hist[f] /\ left'[f] = left[f] /\ todo'[f] = t
      BY <1>1, <3>1, <3>2, Shapes DEF OneMoves
    <3>4. t # {} /\ t \subseteq DOMAIN rows
      BY <1>1, <3>1, <3>2 DEF FiberTyped
    <3>5. QED
      BY <1>1, <3>1, <3>3, <3>4 DEF FiberTyped, FiberKnows, Step
  <2>3. CASE Fetch(f) /\ ~Done(f)
    <3>1. PICK s : s = Detected[TxOf[asked[f]]]
      OBVIOUS
    <3>2. /\ s # <<>> /\ pc[f] = "fetch" /\ pc' = [pc EXCEPT ![f] = "create"]
          /\ left' = [left EXCEPT ![f] = s] /\ UNCHANGED <<asked, row, hist, todo>>
      BY <2>3, <3>1
    <3>3. s \in Seq(Output) /\ asked[f] \in Location
      BY <1>1, <3>1, <3>2, ConstantFacts DEF FiberTyped
    <3>4. /\ OneMoves(f) /\ pc'[f] = "create" /\ asked'[f] = asked[f] /\ row'[f] = row[f]
          /\ hist'[f] = hist[f] /\ left'[f] = s /\ todo'[f] = todo[f]
      BY <1>1, <3>2, Shapes DEF OneMoves
    <3>5. QED
      BY <1>1, <3>2, <3>3, <3>4 DEF FiberTyped, FiberKnows, Step
  <2>4. QED
    BY <2>1, <2>2, <2>3
<1>3. QED
  BY <1>1, <1>2, QuietSteps

\* A new row is hashed, not removed, and after all others.
LEMMA CreateSteps ==
  ASSUME IInv, NEW f \in Fiber, Create(f)
  PROVE  IInv' /\ TableKeeps
<1> USE DEF Create, Goto, world
<1>1. FiberTyped(f) /\ FiberKnows(f) /\ TypeOK /\ failures' \in Nat
  BY TypedFibers DEF IInv, TypeOK
<1>2. left[f] \in Seq(Output) /\ left[f] # <<>> /\ asked[f] \in Location
  BY <1>1 DEF FiberTyped
<1>3. PICK r : r = [out |-> Head(left[f]), origin |-> asked[f], location |-> asked[f],
                    hashed |-> TRUE, removal_location |-> None, active |-> TRUE]
  OBVIOUS
<1>4. r \in Interest
  <2>1. Head(left[f]) \in Output
    BY <1>2
  <2>2. QED
    BY <1>2, <1>3, <2>1 DEF Interest
<1>5. /\ rows \in Seq(Interest) /\ rows' = Append(rows, r)
      /\ removals \in [DOMAIN rows -> Nat] /\ removals' = Append(removals, 0)
  BY <1>1, <1>3 DEF TypeOK
<1>6. /\ rows' \in Seq(Interest) /\ DOMAIN rows' = DOMAIN rows \cup {Len(rows) + 1}
      /\ \A i \in DOMAIN rows : rows'[i] = rows[i]
      /\ rows'[Len(rows) + 1] = r
  BY <1>4, <1>5
<1>7. removals' \in [DOMAIN rows' -> Nat]
  <2>1. removals \in Seq(Nat) /\ Len(removals) = Len(rows)
    BY <1>5
  <2>2. removals' \in Seq(Nat) /\ Len(removals') = Len(rows) + 1
    BY <1>5, <2>1
  <2>3. DOMAIN rows' = 1..Len(rows) + 1
    BY <1>4, <1>5
  <2>4. removals' \in [1..Len(removals') -> Nat]
    BY <2>2, LenProperties
  <2>5. QED
    BY <2>2, <2>3, <2>4
<1>8. TableKeeps
  BY <1>1, <1>6, <1>7 DEF IInv, TypeOK, RemovalsAreOnChain, TableKeeps
<1>9. RemovalsAreOnChain' /\ RemovedAreHashed' /\ ChainApart'
  BY <1>3, <1>6 DEF IInv, RemovalsAreOnChain, RemovedAreHashed, ChainApart
<1>10. OneMoves(f) /\ FiberTyped(f)' /\ FiberKnows(f)'
  <2>1. CASE Done(f)
    BY <1>1, <2>1, DoneSteps
  <2>2. CASE Len(left[f]) > 1 /\ left' = [left EXCEPT ![f] = Tail(@)]
             /\ UNCHANGED <<pc, asked, row, hist, todo>>
    <3>1. PICK t : t = Tail(left[f])
      OBVIOUS
    <3>2. t \in Seq(Output) /\ t # <<>>
      <4>1. t \in Seq(Output) /\ Len(t) = Len(left[f]) - 1
        BY <1>2, <3>1
      <4>2. QED
        BY <1>2, <2>2, <4>1
    <3>3. /\ OneMoves(f) /\ pc'[f] = "create" /\ asked'[f] = asked[f]
          /\ row'[f] = row[f] /\ hist'[f] = hist[f] /\ left'[f] = t /\ todo'[f] = todo[f]
      BY <1>1, <2>2, <3>1, Shapes DEF OneMoves
    <3>4. QED
      BY <1>1, <1>6, <3>2, <3>3 DEF FiberTyped, FiberKnows, Step
  <2>3. QED
    BY <2>1, <2>2
<1>11. QED
  BY <1>8, <1>9, <1>10, FiberSteps

LEMMA FindOneSteps ==
  ASSUME IInv, NEW f \in Fiber, FindOne(f)
  PROVE  IInv' /\ TableKeeps
<1> USE DEF FindOne, Goto, world, table
<1>1. FiberTyped(f) /\ FiberKnows(f) /\ TypeOK /\ failures' \in Nat
  BY TypedFibers DEF IInv, TypeOK
<1>2. OneMoves(f) /\ FiberTyped(f)' /\ FiberKnows(f)'
  <2>1. CASE Done(f)
    BY <1>1, <2>1, DoneSteps
  <2>2. CASE ~Done(f)
    <3>1. PICK i \in RowsAt(asked[f]) :
            /\ rows[i].hashed /\ pc' = [pc EXCEPT ![f] = "history"]
            /\ row' = [row EXCEPT ![f] = i] /\ UNCHANGED <<asked, hist, left, todo>>
      BY <2>2
    <3>2. i \in DOMAIN rows /\ rows[i].location = asked[f]
      BY DEF RowsAt
    <3>3. /\ OneMoves(f) /\ pc'[f] = "history" /\ asked'[f] = asked[f] /\ row'[f] = i
          /\ hist'[f] = hist[f] /\ left'[f] = left[f] /\ todo'[f] = todo[f]
      BY <1>1, <3>1, Shapes DEF OneMoves
    <3>4. QED
      BY <1>1, <3>1, <3>2, <3>3 DEF FiberTyped, FiberKnows, Step
  <2>3. QED
    BY <2>1, <2>2
<1>3. QED
  BY <1>1, <1>2, QuietSteps

LEMMA SearchSteps ==
  ASSUME IInv, NEW f \in Fiber, History(f) \/ GetTransactions(f)
  PROVE  IInv' /\ TableKeeps
<1> USE DEF History, GetTransactions, Goto, world, table
<1>1. FiberTyped(f) /\ FiberKnows(f) /\ TypeOK /\ failures' \in Nat
  BY TypedFibers DEF IInv, TypeOK
<1>2. OneMoves(f) /\ FiberTyped(f)' /\ FiberKnows(f)'
  <2>1. CASE Done(f)
    BY <1>1, <2>1, DoneSteps
  <2>2. CASE History(f)
    <3>1. PICK h : h = {r \in chain : rows[row[f]].out \in Inputs[r] \cup PaysTo[r]}
      OBVIOUS
    <3>2. /\ OneMoves(f) /\ pc'[f] = "transactions" /\ asked'[f] = asked[f]
          /\ row'[f] = row[f] /\ hist'[f] = h /\ left'[f] = left[f] /\ todo'[f] = todo[f]
      BY <1>1, <2>2, <3>1, Shapes DEF OneMoves
    <3>3. h \subseteq chain
      BY <3>1
    <3>4. QED
      BY <1>1, <2>2, <3>2, <3>3 DEF FiberTyped, FiberKnows, Step
  <2>3. CASE GetTransactions(f) /\ ~Done(f)
    <3>1. PICK r \in hist[f] :
            /\ At[asked[f]] \in Inputs[r] /\ hist' = [hist EXCEPT ![f] = {r}]
            /\ pc' = [pc EXCEPT ![f] = "save"] /\ UNCHANGED <<asked, row, left, todo>>
      BY <2>3
    <3>2. /\ OneMoves(f) /\ pc'[f] = "save" /\ asked'[f] = asked[f] /\ row'[f] = row[f]
          /\ hist'[f] = {r} /\ left'[f] = left[f] /\ todo'[f] = todo[f]
      BY <1>1, <3>1, Shapes DEF OneMoves
    <3>3. pc[f] = "transactions" /\ r \in chain
      BY <1>1, <2>3, <3>1 DEF FiberTyped
    <3>4. QED
      BY <1>1, <3>1, <3>2, <3>3 DEF FiberTyped, FiberKnows, Step
  <2>4. QED
    BY <2>1, <2>2, <2>3
<1>3. QED
  BY <1>1, <1>2, QuietSteps

\* A removal saves a transaction that spends the row where it is.  Were the row
\* removed before, by one that overlaps, it was by the same transaction.
LEMMA SaveRemovalSteps ==
  ASSUME IInv, NEW f \in Fiber, SaveRemoval(f)
  PROVE  IInv' /\ TableKeeps
<1> USE DEF SaveRemoval, world
<1>1. FiberTyped(f) /\ FiberKnows(f) /\ TypeOK /\ failures' \in Nat
  BY TypedFibers DEF IInv, TypeOK
<1>2. PICK i, r : i = row[f] /\ r \in hist[f]
                  /\ rows' = [rows EXCEPT ![i].removal_location = r, ![i].active = FALSE]
  OBVIOUS
<1>3. /\ i \in DOMAIN rows /\ r \in chain /\ r \in Removal
      /\ rows[i].hashed /\ At[rows[i].location] \in Inputs[r]
  BY <1>1, <1>2 DEF FiberTyped, FiberKnows, TypeOK
<1>4. rows \in Seq(Interest) /\ rows[i] \in Interest
  BY <1>1, <1>3 DEF TypeOK
<1>5. PICK new : new = [rows[i] EXCEPT !.removal_location = r, !.active = FALSE]
  OBVIOUS
<1>6. /\ new \in Interest /\ new.hashed = rows[i].hashed /\ new.location = rows[i].location
      /\ new.removal_location = r /\ ~new.active
      /\ new.out = rows[i].out /\ new.origin = rows[i].origin
  BY <1>3, <1>4, <1>5 DEF Interest
<1>7. rows' = [rows EXCEPT ![i] = new]
  BY <1>2, <1>3, <1>4, <1>5
<1>8. /\ rows' \in Seq(Interest) /\ DOMAIN rows' = DOMAIN rows /\ rows'[i] = new
      /\ \A k \in DOMAIN rows : k # i => rows'[k] = rows[k]
  <2>1. rows \in [1..Len(rows) -> Interest] /\ i \in 1..Len(rows) /\ Len(rows) \in Nat
    BY <1>3, <1>4
  <2>2. rows' \in [1..Len(rows) -> Interest]
    BY <1>6, <1>7, <2>1
  <2>3. rows' \in Seq(Interest)
    BY <2>1, <2>2, SeqDef
  <2>4. QED
    BY <1>3, <1>7, <2>1, <2>2, <2>3
<1>9. removals' \in [DOMAIN rows' -> Nat]
  BY <1>1, <1>8 DEF TypeOK
<1>10. rows[i].removal_location # None => rows[i].removal_location = r
  BY <1>3 DEF IInv, RemovalsAreOnChain, ChainApart
<1>11. TableKeeps
  BY <1>1, <1>6, <1>8, <1>9, <1>10 DEF IInv, TypeOK, RemovalsAreOnChain, TableKeeps
<1>12. RemovalsAreOnChain' /\ RemovedAreHashed' /\ ChainApart'
  <2>1. r # None
    BY <1>3, ConstantFacts
  <2>2. RemovedAreHashed' /\ ChainApart'
    BY <1>3, <1>6, <1>8 DEF IInv, RemovedAreHashed, ChainApart
  <2>3. ASSUME NEW k \in DOMAIN rows
        PROVE  /\ rows'[k].active <=> rows'[k].removal_location = None
               /\ rows'[k].removal_location # None =>
                    /\ rows'[k].removal_location \in chain
                    /\ At[rows'[k].location] \in Inputs[rows'[k].removal_location]
    <3>1. CASE k = i
      BY <1>3, <1>6, <1>8, <2>1, <3>1
    <3>2. CASE k # i
      BY <1>8, <3>2 DEF IInv, RemovalsAreOnChain
    <3>3. QED
      BY <3>1, <3>2
  <2>4. RemovalsAreOnChain'
    BY <1>8, <2>3 DEF RemovalsAreOnChain
  <2>5. QED
    BY <2>2, <2>4
<1>13. OneMoves(f) /\ FiberTyped(f)' /\ FiberKnows(f)'
  <2>1. /\ OneMoves(f) /\ pc'[f] = "publish" /\ asked'[f] = asked[f] /\ row'[f] = i
        /\ hist'[f] = hist[f] /\ left'[f] = left[f] /\ todo'[f] = todo[f]
    BY <1>1, <1>2, Shapes DEF OneMoves, Goto, local
  <2>2. rows'[i].hashed /\ rows'[i].location = asked[f] /\ rows'[i].removal_location # None
    <3>1. rows[i].location = asked[f] /\ r # None
      BY <1>1, <1>2, <1>3, ConstantFacts DEF FiberKnows
    <3>2. QED
      BY <1>3, <1>6, <1>8, <3>1
  <2>3. FiberTyped(f)'
    BY <1>1, <1>3, <1>8, <2>1 DEF FiberTyped, Step
  <2>4. QED
    BY <2>1, <2>2, <2>3 DEF FiberKnows
<1>14. QED
  BY <1>11, <1>12, <1>13, FiberSteps

LEMMA PublishRemovalSteps ==
  ASSUME IInv, NEW f \in Fiber, PublishRemoval(f)
  PROVE  IInv' /\ TableKeeps
<1> USE DEF PublishRemoval, world
<1>1. FiberTyped(f) /\ TypeOK /\ failures' \in Nat
  BY TypedFibers DEF IInv, TypeOK
<1>2. removals' \in [DOMAIN rows' -> Nat]
  BY <1>1 DEF FiberTyped, TypeOK
<1>3. TableKeeps
  BY <1>1, <1>2 DEF IInv, TypeOK, RemovalsAreOnChain, TableKeeps
<1>4. ChainApart' /\ RemovedAreHashed' /\ RemovalsAreOnChain'
  BY DEF IInv, ChainApart, RemovedAreHashed, RemovalsAreOnChain
<1>5. OneMoves(f) /\ FiberTyped(f)' /\ FiberKnows(f)'
  BY <1>1, DoneSteps
<1>6. QED
  BY <1>3, <1>4, <1>5, FiberSteps

-----------------------------------------------------------------------------
(* The script get_script_hashes.                                           *)

LEMMA FindUnhashedSteps ==
  ASSUME IInv, NEW f \in Fiber, FixHashes(f) \/ FindUnhashed(f)
  PROVE  IInv' /\ TableKeeps
<1> USE DEF FixHashes, FindUnhashed, Goto, world, table, local
<1>1. FiberTyped(f) /\ FiberKnows(f) /\ TypeOK /\ failures' \in Nat
  BY TypedFibers DEF IInv, TypeOK
<1>2. OneMoves(f) /\ FiberTyped(f)' /\ FiberKnows(f)'
  <2>1. CASE Done(f)
    BY <1>1, <2>1, DoneSteps
  <2>2. CASE FixHashes(f)
    <3>1. /\ OneMoves(f) /\ pc'[f] = "findUnhashed" /\ asked'[f] = asked[f]
          /\ row'[f] = row[f] /\ hist'[f] = hist[f] /\ left'[f] = left[f] /\ todo'[f] = todo[f]
      BY <1>1, <2>2, Shapes DEF OneMoves
    <3>2. QED
      BY <1>1, <2>2, <3>1 DEF FiberTyped, FiberKnows, Step
  <2>3. CASE FindUnhashed(f) /\ ~Done(f)
    <3>1. PICK t : t = Unhashed
      OBVIOUS
    <3>2. /\ OneMoves(f) /\ pc'[f] = "fixFetch" /\ asked'[f] = asked[f] /\ row'[f] = row[f]
          /\ hist'[f] = hist[f] /\ left'[f] = left[f] /\ todo'[f] = t
      BY <1>1, <2>3, <3>1, Shapes DEF OneMoves
    <3>3. /\ t # {} /\ t \subseteq DOMAIN rows /\ \A i \in t : ~rows[i].hashed
      BY <2>3, <3>1 DEF Unhashed
    <3>4. QED
      BY <1>1, <3>2, <3>3 DEF FiberTyped, FiberKnows, Step
  <2>4. QED
    BY <2>1, <2>2, <2>3
<1>3. QED
  BY <1>1, <1>2, QuietSteps

\* The script takes the next of its rows, or ends.
LEMMA NextRowSteps ==
  ASSUME IInv, TableKeeps, UNCHANGED chain, NEW f \in Fiber, NEW i \in todo[f],
         pc[f] \in {"fixFetch", "fixSave"}, NextRow(f, i)
  PROVE  OneMoves(f) /\ FiberTyped(f)' /\ FiberKnows(f)'
<1> USE DEF NextRow, Goto
<1>1. FiberTyped(f) /\ FiberKnows(f) /\ TypeOK
  BY TypedFibers DEF IInv
<1>2. CASE Done(f)
  BY <1>1, <1>2, DoneSteps
<1>3. CASE ~Done(f)
  <2>1. PICK t : t = todo[f] \ {i}
    OBVIOUS
  <2>2. /\ OneMoves(f) /\ pc'[f] = "fixFetch" /\ asked'[f] = asked[f] /\ row'[f] = 0
        /\ hist'[f] = hist[f] /\ left'[f] = left[f] /\ todo'[f] = t
    BY <1>1, <1>3, <2>1, Shapes DEF OneMoves
  <2>3. t # {} /\ t \subseteq DOMAIN rows
    BY <1>1, <1>3, <2>1 DEF FiberTyped
  <2>4. FiberTyped(f)'
    BY <1>1, <2>2, <2>3 DEF FiberTyped, TableKeeps, Step
  <2>5. ASSUME NEW k \in t, rows'[k].hashed
        PROVE  (Single(k))' /\ rows'[k].location = (Correct(k))'
    <3>1. k \in DOMAIN rows /\ k \in todo[f]
      BY <2>1, <2>3
    <3>2. Single(k) /\ rows'[k].location = Correct(k)
      BY <1>1, <2>5, <3>1 DEF FiberKnows, TableKeeps
    <3>3. (Single(k))' /\ (Correct(k))' = Correct(k)
      BY <3>1, <3>2 DEF TableKeeps, Single, Correct
    <3>4. QED
      BY <3>2, <3>3
  <2>6. FiberKnows(f)'
    BY <2>2, <2>5 DEF FiberKnows
  <2>7. QED
    BY <2>2, <2>4, <2>6
<1>4. QED
  BY <1>2, <1>3

LEMMA FixFetchSteps ==
  ASSUME IInv, NEW f \in Fiber, FixFetch(f)
  PROVE  IInv' /\ TableKeeps
<1> USE DEF FixFetch, Goto, world, table
<1>1. FiberTyped(f) /\ FiberKnows(f) /\ TypeOK /\ failures' \in Nat
  BY TypedFibers DEF IInv, TypeOK
<1>2. TableKeeps
  BY <1>1 DEF IInv, TypeOK, RemovalsAreOnChain, TableKeeps
<1>3. OneMoves(f) /\ FiberTyped(f)' /\ FiberKnows(f)'
  <2>1. ASSUME NEW i \in todo[f], NextRow(f, i) PROVE OneMoves(f) /\ FiberTyped(f)' /\ FiberKnows(f)'
    BY <1>2, <2>1, NextRowSteps
  <2>2. ASSUME NEW i \in todo[f], Single(i),
               pc' = [pc EXCEPT ![f] = "fixSave"], row' = [row EXCEPT ![f] = i],
               UNCHANGED <<asked, hist, left, todo>>
        PROVE  OneMoves(f) /\ FiberTyped(f)' /\ FiberKnows(f)'
    <3>1. /\ OneMoves(f) /\ pc'[f] = "fixSave" /\ asked'[f] = asked[f] /\ row'[f] = i
          /\ hist'[f] = hist[f] /\ left'[f] = left[f] /\ todo'[f] = todo[f]
      BY <1>1, <2>2, Shapes DEF OneMoves
    <3>2. FiberTyped(f)'
      BY <1>1, <3>1 DEF FiberTyped, Step
    <3>3. (Single(i))' /\ \A k \in todo[f] : (Single(k))' = Single(k) /\ (Correct(k))' = Correct(k)
      BY <2>2 DEF Single, Correct
    <3>4. FiberKnows(f)'
      BY <1>1, <3>1, <3>3 DEF FiberKnows
    <3>5. QED
      BY <3>1, <3>2, <3>4
  <2>3. QED
    BY <2>1, <2>2 DEF Single
<1>4. QED
  BY <1>1, <1>3, QuietSteps

\* The save gives a row its script hash and its place: the place it has, if another
\* run of the script was first.
LEMMA FixSaveSteps ==
  ASSUME IInv, NEW f \in Fiber, FixSave(f)
  PROVE  IInv' /\ TableKeeps
<1> USE DEF FixSave, world
<1>1. FiberTyped(f) /\ FiberKnows(f) /\ TypeOK /\ failures' \in Nat
  BY TypedFibers DEF IInv, TypeOK
<1>2. PICK i, l : i = row[f] /\ l = Correct(i)
                  /\ rows' = [rows EXCEPT ![i].hashed = TRUE, ![i].location = l]
  OBVIOUS
<1>3. /\ i \in DOMAIN rows /\ i \in todo[f] /\ Single(i)
      /\ rows[i].hashed => rows[i].location = l
  BY <1>1, <1>2 DEF FiberTyped, FiberKnows
<1>4. l \in Location /\ TxOf[l] = TxOf[rows[i].location]
  BY <1>1, <1>2, <1>3, CorrectStays
<1>5. rows \in Seq(Interest) /\ rows[i] \in Interest
  BY <1>1, <1>3 DEF TypeOK
<1>6. PICK new : new = [rows[i] EXCEPT !.hashed = TRUE, !.location = l]
  OBVIOUS
<1>7. /\ new \in Interest /\ new.hashed /\ new.location = l /\ new.active = rows[i].active
      /\ new.removal_location = rows[i].removal_location
      /\ new.out = rows[i].out /\ new.origin = rows[i].origin
  BY <1>4, <1>5, <1>6 DEF Interest
<1>8. rows' = [rows EXCEPT ![i] = new]
  BY <1>2, <1>3, <1>5, <1>6
<1>9. /\ rows' \in Seq(Interest) /\ DOMAIN rows' = DOMAIN rows /\ rows'[i] = new
      /\ \A k \in DOMAIN rows : k # i => rows'[k] = rows[k]
  <2>1. rows \in [1..Len(rows) -> Interest] /\ i \in 1..Len(rows) /\ Len(rows) \in Nat
    BY <1>3, <1>5
  <2>2. rows' \in [1..Len(rows) -> Interest]
    BY <1>7, <1>8, <2>1
  <2>3. rows' \in Seq(Interest)
    BY <2>1, <2>2, SeqDef
  <2>4. QED
    BY <1>3, <1>8, <2>1, <2>2, <2>3
<1>10. rows[i].removal_location # None =>
         rows[i].hashed /\ rows[i].location = l /\ ~rows[i].active
  BY <1>3 DEF IInv, RemovedAreHashed, RemovalsAreOnChain
<1>11. TableKeeps
  <2>1. /\ DOMAIN rows \subseteq DOMAIN rows' /\ removals' \in [DOMAIN rows' -> Nat]
        /\ chain' = chain /\ chain \subseteq Removal
    BY <1>1, <1>9 DEF TypeOK
  <2>2. \A k \in DOMAIN rows : rows[k].removal_location # None => ~rows[k].active
    BY DEF IInv, RemovalsAreOnChain
  <2>3. QED
    BY <1>1, <1>2, <1>3, <1>4, <1>7, <1>9, <1>10, <2>1, <2>2 DEF TableKeeps
<1>12. RemovedAreHashed' /\ ChainApart'
  BY <1>7, <1>9 DEF IInv, RemovedAreHashed, ChainApart
<1>13. RemovalsAreOnChain'
  <2>1. ASSUME NEW k \in DOMAIN rows
        PROVE  /\ rows'[k].active <=> rows'[k].removal_location = None
               /\ rows'[k].removal_location # None =>
                    /\ rows'[k].removal_location \in chain
                    /\ At[rows'[k].location] \in Inputs[rows'[k].removal_location]
    <3>1. /\ rows[k].active <=> rows[k].removal_location = None
          /\ rows[k].removal_location # None =>
               /\ rows[k].removal_location \in chain
               /\ At[rows[k].location] \in Inputs[rows[k].removal_location]
      BY DEF IInv, RemovalsAreOnChain
    <3>2. CASE k = i
      BY <1>7, <1>9, <1>10, <3>1, <3>2
    <3>3. CASE k # i
      BY <1>9, <3>1, <3>3
    <3>4. QED
      BY <3>2, <3>3
  <2>2. QED
    BY <1>9, <2>1 DEF RemovalsAreOnChain
<1>14. OneMoves(f) /\ FiberTyped(f)' /\ FiberKnows(f)'
  <2>1. PICK k : k = row[f]
    OBVIOUS
  <2>2. k \in todo[f] /\ NextRow(f, k)
    BY <1>2, <1>3, <2>1
  <2>3. QED
    BY <1>11, <2>2, NextRowSteps
<1>15. QED
  BY <1>11, <1>12, <1>13, <1>14, FiberSteps

-----------------------------------------------------------------------------
(* The environment, and all steps together.                                *)

LEMMA SpendSteps ==
  ASSUME IInv, NEW r \in Removal, Spend(r)
  PROVE  IInv' /\ TableKeeps
<1> USE DEF Spend, table, local
<1>1. TypeOK
  BY DEF IInv
<1>2. TableKeeps
  BY <1>1 DEF IInv, TypeOK, RemovalsAreOnChain, TableKeeps
<1>3. ChainApart' /\ RemovedAreHashed'
  BY DEF IInv, ChainApart, RemovedAreHashed
<1>4. RemovalsAreOnChain'
  BY DEF IInv, RemovalsAreOnChain
<1>5. \A g \in Fiber : FiberTyped(g)' /\ FiberKnows(g)'
  BY <1>2, OthersKeep
<1>6. TypeOK'
  BY <1>1, <1>2, <1>5 DEF TypeOK, TableKeeps
<1>7. QED
  BY <1>2, <1>3, <1>4, <1>5, <1>6 DEF IInv

LEMMA FailSteps ==
  ASSUME IInv, NEW f \in Fiber, Fail(f)
  PROVE  IInv' /\ TableKeeps
<1>1. TypeOK /\ failures' \in Nat
  BY DEF IInv, TypeOK, Fail
<1>2. OneMoves(f) /\ FiberTyped(f)' /\ FiberKnows(f)'
  BY <1>1, DoneSteps DEF Fail
<1>3. UNCHANGED <<chain, rows, removals>>
  BY DEF Fail, table
<1>4. QED
  BY <1>1, <1>2, <1>3, QuietSteps

LEMMA StutterSteps ==
  ASSUME IInv, UNCHANGED vars
  PROVE  IInv' /\ TableKeeps
<1> USE DEF vars, world, table, local
<1>1. TableKeeps
  BY DEF IInv, TypeOK, RemovalsAreOnChain, TableKeeps
<1>2. \A g \in Fiber : FiberTyped(g)' /\ FiberKnows(g)'
  BY <1>1, OthersKeep
<1>3. TypeOK' /\ ChainApart' /\ RemovedAreHashed' /\ RemovalsAreOnChain'
  BY DEF IInv, TypeOK, ChainApart, RemovedAreHashed, RemovalsAreOnChain
<1>4. QED
  BY <1>1, <1>2, <1>3 DEF IInv

LEMMA EveryStep == IInv /\ [Next]_vars => IInv' /\ TableKeeps
<1> SUFFICES ASSUME IInv, [Next]_vars PROVE IInv' /\ TableKeeps
  OBVIOUS
<1>1. ASSUME NEW r \in Removal, Spend(r) PROVE IInv' /\ TableKeeps
  BY <1>1, SpendSteps
<1>2. ASSUME NEW f \in Fiber, NEW l \in Asked, Import(f, l) \/ Remove(f, l)
      PROVE  IInv' /\ TableKeeps
  BY <1>2, BeginSteps
<1>3. ASSUME NEW f \in Fiber, FixHashes(f) \/ Fail(f) PROVE IInv' /\ TableKeeps
  BY <1>3, FindUnhashedSteps, FailSteps
<1>4. ASSUME NEW f \in Fiber, Advance(f) PROVE IInv' /\ TableKeeps
  <2>1. CASE FindAll(f) \/ FetchAgain(f) \/ Fetch(f) \/ Create(f)
    BY <2>1, FindAllSteps, FetchSteps, CreateSteps
  <2>2. CASE FindOne(f) \/ History(f) \/ GetTransactions(f) \/ SaveRemoval(f) \/ PublishRemoval(f)
    BY <2>2, FindOneSteps, SearchSteps, SaveRemovalSteps, PublishRemovalSteps
  <2>3. CASE FindUnhashed(f) \/ FixFetch(f) \/ FixSave(f)
    BY <2>3, FindUnhashedSteps, FixFetchSteps, FixSaveSteps
  <2>4. QED
    BY <1>4, <2>1, <2>2, <2>3 DEF Advance
<1>5. CASE UNCHANGED vars
  BY <1>5, StutterSteps
<1>6. QED
  BY <1>1, <1>2, <1>3, <1>4, <1>5 DEF Next

LEMMA Invariance == Spec => []IInv
  BY InitIInv, EveryStep, PTL DEF Spec

\* The table and the calls keep their shape, for any interests, calls and failures.
THEOREM InterestsTypeCorrect == Spec => []TypeOK
<1>1. IInv => TypeOK
  BY DEF IInv
<1>2. QED
  BY <1>1, Invariance, PTL

\* A row is inactive if and only if it was removed, by a transaction on chain that
\* spends the output at its location, whatever removals and scripts overlap.
THEOREM RemovalsAreReal == Spec => []RemovalsAreOnChain
<1>1. IInv => RemovalsAreOnChain
  BY DEF IInv
<1>2. QED
  BY <1>1, Invariance, PTL

\* No step takes a removal back: a second removal finds the same transaction, since
\* an output is spent once, and the script writes the columns it changed.
THEOREM RemovalsAreKept == Spec => RemovalsStick
<1>1. ASSUME IInv, [Next]_vars
      PROVE  \A i \in DOMAIN rows : rows[i].removal_location # None =>
               /\ i \in DOMAIN rows'
               /\ rows'[i].removal_location = rows[i].removal_location
               /\ ~rows'[i].active
  BY <1>1, EveryStep DEF TableKeeps
<1>2. QED
  BY <1>1, Invariance, PTL DEF Spec, RemovalsStick

-----------------------------------------------------------------------------
(* Repeats.                                                                *)

\* Fibers that found no row at a location and have yet to record an output for it,
\* and fibers that found a row without its removal and have yet to announce one.
ToRecord(f, o) ==
  \/ pc[f] = "fetch"
  \/ pc[f] = "create" /\ \E k \in DOMAIN left[f] : left[f][k] = o
Recording(o, l) == {f \in Fiber : asked[f] = l /\ ToRecord(f, o)}
Removing(i)     == {f \in Fiber : pc[f] \in {"history", "transactions", "save", "publish"} /\ row[f] = i}

Fits(n, fibers) == n + Cardinality(fibers) <= Cardinality(Fiber)
Distinct(seq)   == \A j, k \in DOMAIN seq : seq[j] = seq[k] => j = k

\* A new row stays at the location it was recorded for, so a fiber that looks there
\* later finds it: what is written, and what may yet be, is no more than the fibers.
RowsRepeat ==
  /\ DOMAIN Legacy \subseteq DOMAIN rows
  /\ \A j \in DOMAIN rows \ DOMAIN Legacy : rows[j].hashed /\ rows[j].location = rows[j].origin
  /\ \A f \in Fiber : Distinct(left[f])
  /\ \A o \in Output, l \in Location : Fits(Cardinality(Recorded(o, l)), Recording(o, l))

RemovalsRepeat ==
  \A i \in DOMAIN rows :
    /\ Fits(removals[i], Removing(i))
    /\ removals[i] > 0 => rows[i].removal_location # None

LEMMA FitsStill ==
  ASSUME NEW n \in Nat, NEW P, NEW Q, P \subseteq Fiber, Q \subseteq Fiber,
         Fits(n, P), Q \subseteq P \/ n = 0
  PROVE  Fits(n, Q)
<1>1. IsFiniteSet(Fiber)
  BY InterestAssumption
<1>2. /\ Cardinality(P) \in Nat /\ Cardinality(Q) \in Nat /\ Cardinality(Fiber) \in Nat
      /\ Cardinality(Q) <= Cardinality(Fiber)
  BY <1>1, FS_Subset, FS_CardinalityType
<1>3. Q \subseteq P => Cardinality(Q) <= Cardinality(P)
  BY <1>1, FS_Subset
<1>4. QED
  BY <1>2, <1>3 DEF Fits

LEMMA FitsTaken ==
  ASSUME NEW n \in Nat, NEW m \in Nat, m <= n + 1, NEW P, NEW Q, NEW f \in P,
         P \subseteq Fiber, Q \subseteq P \ {f}, Fits(n, P)
  PROVE  Fits(m, Q)
<1>1. IsFiniteSet(P) /\ IsFiniteSet(P \ {f}) /\ IsFiniteSet(Q) /\ IsFiniteSet(Fiber)
  BY InterestAssumption, FS_Subset
<1>2. /\ Cardinality(P) \in Nat /\ Cardinality(Q) \in Nat /\ Cardinality(Fiber) \in Nat
      /\ Cardinality(P \ {f}) \in Nat
  BY <1>1, FS_CardinalityType
<1>3. Cardinality(Q) <= Cardinality(P \ {f}) /\ Cardinality(P \ {f}) = Cardinality(P) - 1
  BY <1>1, FS_Subset, FS_RemoveElement
<1>4. QED
  BY <1>2, <1>3 DEF Fits

LEMMA RecordedIsFinite ==
  ASSUME TypeOK, NEW o, NEW l
  PROVE  IsFiniteSet(Recorded(o, l)) /\ Cardinality(Recorded(o, l)) \in Nat
<1>1. DOMAIN rows = 1..Len(rows) /\ Len(rows) \in Nat
  BY DEF TypeOK
<1>2. IsFiniteSet(DOMAIN rows)
  BY <1>1, FS_Interval
<1>3. Recorded(o, l) \subseteq DOMAIN rows
  BY DEF Recorded
<1>4. QED
  BY <1>2, <1>3, FS_Subset, FS_CardinalityType

LEMMA InitRepeats == Init => RowsRepeat /\ RemovalsRepeat
<1> SUFFICES ASSUME Init PROVE RowsRepeat /\ RemovalsRepeat
  OBVIOUS
<1>1. Cardinality(Fiber) \in Nat
  BY InterestAssumption, FS_CardinalityType
<1>2. \A o \in Output, l \in Location : Recorded(o, l) = {} /\ Recording(o, l) = {}
  BY DEF Init, Recorded, Recording, ToRecord
<1>3. \A i \in DOMAIN rows : Removing(i) = {}
  BY DEF Init, Removing
<1>4. \A f \in Fiber : Distinct(left[f])
  BY DEF Init, Distinct
<1>5. rows = Legacy /\ \A i \in DOMAIN rows : removals[i] = 0 /\ rows[i].removal_location = None
  BY InterestAssumption DEF Init
<1>6. Fits(Cardinality({}), {}) /\ Fits(0, {})
  BY <1>1, FS_EmptySet DEF Fits
<1>7. RowsRepeat
  BY <1>2, <1>4, <1>5, <1>6 DEF RowsRepeat
<1>8. RemovalsRepeat
  BY <1>3, <1>5, <1>6 DEF RemovalsRepeat
<1>9. QED
  BY <1>7, <1>8

\* What a step leaves true of one fiber: it goes on to record, or to remove, only if
\* its lookup found nothing that was recorded, or removed, before.
Sent(f) ==
  /\ Distinct(left'[f])
  /\ \A o \in Output, l \in Location :
       asked'[f] = l /\ ToRecord(f, o)' => (asked[f] = l /\ ToRecord(f, o)) \/ RowsAt(l) = {}
  /\ \A i \in DOMAIN rows :
       f \in Removing(i)' => f \in Removing(i) \/ rows[i].removal_location = None

LEMMA StillSent ==
  ASSUME NEW f \in Fiber, Distinct(left[f]), left'[f] = left[f], asked'[f] = asked[f],
         \/ pc'[f] = pc[f] /\ row'[f] = row[f]
         \/ pc'[f] \notin {"fetch", "create", "history", "transactions", "save", "publish"}
  PROVE  Sent(f)
  BY DEF Sent, ToRecord, Removing

LEMMA DoneSent ==
  ASSUME TypeOK, NEW f \in Fiber, Done(f)
  PROVE  Sent(f)
<1>1. pc'[f] = "idle" /\ left'[f] = <<>>
  BY Shapes DEF Done, Goto
<1>2. QED
  BY <1>1 DEF Sent, Distinct, ToRecord, Removing

Acts(f) ==
  \/ \E l \in Asked : Import(f, l) \/ Remove(f, l)
  \/ FixHashes(f) \/ Advance(f) \/ Fail(f)

\* A fiber moves alone.
LEMMA Alone ==
  ASSUME TypeOK, NEW f \in Fiber, Acts(f), NEW g \in Fiber, g # f
  PROVE  pc'[g] = pc[g] /\ asked'[g] = asked[g] /\ row'[g] = row[g] /\ left'[g] = left[g]
<1> USE Shapes DEF Done, Goto, local
<1>1. CASE \E l \in Asked : Import(f, l) \/ Remove(f, l)
  BY <1>1 DEF Import, Remove, Begin
<1>2. CASE FixHashes(f) \/ Fail(f)
  BY <1>2 DEF FixHashes, Fail
<1>3. CASE FindAll(f) \/ FetchAgain(f)
  BY <1>3 DEF FindAll, FetchAgain
<1>4. CASE Fetch(f) \/ Create(f)
  BY <1>4 DEF Fetch, Create
<1>5. CASE FindOne(f)
  BY <1>5 DEF FindOne
<1>6. CASE History(f) \/ GetTransactions(f) \/ SaveRemoval(f) \/ PublishRemoval(f)
  BY <1>6 DEF History, GetTransactions, SaveRemoval, PublishRemoval
<1>7. CASE FindUnhashed(f) \/ FixFetch(f) \/ FixSave(f)
  BY <1>7 DEF FindUnhashed, FixFetch, FixSave, NextRow
<1>8. QED
  BY <1>1, <1>2, <1>3, <1>4, <1>5, <1>6, <1>7 DEF Acts, Advance

LEMMA ActsSent ==
  ASSUME IInv, RowsRepeat, NEW f \in Fiber, Acts(f)
  PROVE  Sent(f)
<1> USE DEF Goto, local
<1>1. TypeOK /\ FiberTyped(f) /\ Distinct(left[f])
  BY TypedFibers DEF IInv, RowsRepeat
<1>a. CASE Done(f)
  BY <1>1, <1>a, DoneSent
<1>2. CASE \E l \in Asked : Import(f, l) \/ Remove(f, l)
  <2>1. pc'[f] \in {"findAll", "findOne"} /\ left'[f] = left[f]
    BY <1>1, <1>2, Shapes DEF Import, Remove, Begin
  <2>2. QED
    BY <1>1, <2>1 DEF Sent, ToRecord, Removing
<1>3. CASE FixHashes(f) \/ Fail(f)
  <2>1. FixHashes(f) => pc'[f] = "findUnhashed" /\ left'[f] = left[f] /\ asked'[f] = asked[f]
    BY <1>1, Shapes DEF FixHashes
  <2>2. QED
    BY <1>1, <1>3, <1>a, <2>1, StillSent DEF Fail
<1>4. CASE FindAll(f) \/ FetchAgain(f)
  <2>1. \/ Done(f)
        \/ /\ left'[f] = left[f] /\ asked'[f] = asked[f]
           /\ \/ RowsAt(asked[f]) = {} /\ pc'[f] = "fetch"
              \/ pc'[f] = "fetchAgain"
    BY <1>1, <1>4, Shapes DEF FindAll, FetchAgain
  <2>2. CASE left'[f] = left[f] /\ asked'[f] = asked[f] /\ RowsAt(asked[f]) = {} /\ pc'[f] = "fetch"
    BY <1>1, <2>2 DEF Sent, Removing
  <2>3. QED
    BY <1>1, <1>a, <2>1, <2>2, StillSent
<1>5. CASE Fetch(f)
  <2>1. pc[f] = "fetch" /\ asked[f] \in Location
    BY <1>1, <1>5 DEF Fetch, FiberTyped
  <2>2. \/ Done(f)
        \/ left'[f] = Detected[TxOf[asked[f]]] /\ asked'[f] = asked[f] /\ pc'[f] = "create"
    BY <1>1, <1>5, Shapes DEF Fetch
  <2>3. TxOf[asked[f]] \in Tx /\ Distinct(Detected[TxOf[asked[f]]])
    BY <2>1, InterestAssumption DEF Distinct
  <2>4. QED
    BY <1>a, <2>1, <2>2, <2>3 DEF Sent, ToRecord, Removing
<1>6. CASE Create(f)
  <2>1. pc[f] = "create" /\ left[f] \in Seq(Output) /\ left[f] # <<>>
    BY <1>1, <1>6 DEF Create, FiberTyped
  <2>2. \/ Done(f)
        \/ left'[f] = Tail(left[f]) /\ asked'[f] = asked[f] /\ pc'[f] = "create"
    BY <1>1, <1>6, Shapes DEF Create
  <2>3. \A k \in DOMAIN Tail(left[f]) : k + 1 \in DOMAIN left[f] /\ Tail(left[f])[k] = left[f][k + 1]
    BY <2>1
  <2>4. Distinct(Tail(left[f]))
    BY <1>1, <2>1, <2>3 DEF Distinct
  <2>5. QED
    BY <1>a, <2>1, <2>2, <2>3, <2>4 DEF Sent, ToRecord, Removing
<1>7. CASE FindOne(f)
  <2>1. \/ Done(f)
        \/ /\ pc'[f] = "history" /\ left'[f] = left[f] /\ asked'[f] = asked[f]
           /\ rows[row'[f]].removal_location = None
    BY <1>1, <1>7, Shapes DEF FindOne
  <2>2. QED
    BY <1>1, <1>a, <2>1 DEF Sent, ToRecord, Removing
<1>8. CASE History(f) \/ GetTransactions(f) \/ SaveRemoval(f) \/ PublishRemoval(f)
  <2>1. \/ Done(f)
        \/ /\ pc[f] \in {"history", "transactions", "save"}
           /\ pc'[f] \in {"transactions", "save", "publish"}
           /\ left'[f] = left[f] /\ asked'[f] = asked[f] /\ row'[f] = row[f]
    BY <1>1, <1>8, Shapes DEF History, GetTransactions, SaveRemoval, PublishRemoval
  <2>2. QED
    BY <1>1, <1>a, <2>1 DEF Sent, ToRecord, Removing
<1>9. CASE FindUnhashed(f) \/ FixFetch(f) \/ FixSave(f)
  <2>1. \/ Done(f)
        \/ /\ pc'[f] \in {"fixFetch", "fixSave"}
           /\ left'[f] = left[f] /\ asked'[f] = asked[f]
    BY <1>1, <1>9, Shapes DEF FindUnhashed, FixFetch, FixSave, NextRow
  <2>2. QED
    BY <1>1, <1>a, <2>1, StillSent
<1>10. QED
  BY <1>2, <1>3, <1>4, <1>5, <1>6, <1>7, <1>8, <1>9 DEF Acts, Advance

LEMMA AllSent ==
  ASSUME IInv, RowsRepeat, [Next]_vars, NEW f \in Fiber
  PROVE  Sent(f)
<1>1. TypeOK /\ Distinct(left[f])
  BY DEF IInv, RowsRepeat
<1>2. ASSUME NEW g \in Fiber, Acts(g) PROVE Sent(f)
  <2>1. CASE g = f
    BY <1>2, <2>1, ActsSent
  <2>2. CASE g # f
    BY <1>1, <1>2, <2>2, Alone, StillSent
  <2>3. QED
    BY <2>1, <2>2
<1>3. CASE (\E r \in Removal : Spend(r)) \/ UNCHANGED vars
  BY <1>1, <1>3, StillSent DEF Spend, vars, local
<1>4. QED
  BY <1>2, <1>3 DEF Next, Acts

\* What a step writes: nothing the counts are about, one new row, or one announcement.
Adds(f, n) ==
  /\ pc[f] = "create" /\ n \notin DOMAIN rows /\ DOMAIN rows' = DOMAIN rows \cup {n}
  /\ \A i \in DOMAIN rows : rows'[i] = rows[i] /\ removals'[i] = removals[i]
  /\ rows'[n].out = Head(left[f]) /\ rows'[n].origin = asked[f] /\ rows'[n].location = asked[f]
  /\ rows'[n].hashed /\ rows'[n].removal_location = None /\ removals'[n] = 0
Keeps(i) ==
  /\ removals'[i] = removals[i]
  /\ rows[i].removal_location # None => rows'[i].removal_location # None
Tells(f, i) ==
  /\ f \in Removing(i) /\ pc[f] = "publish" /\ pc'[f] = "idle" /\ removals'[i] = removals[i] + 1
  /\ rows'[i].removal_location # None

LEMMA CreateAdds ==
  ASSUME IInv, NEW f \in Fiber, Create(f)
  PROVE  Adds(f, Len(rows) + 1)
<1>1. TypeOK /\ FiberTyped(f)
  BY TypedFibers DEF IInv
<1>2. left[f] \in Seq(Output) /\ left[f] # <<>> /\ asked[f] \in Location /\ pc[f] = "create"
  BY <1>1 DEF FiberTyped, Create
<1>3. PICK r : r = [out |-> Head(left[f]), origin |-> asked[f], location |-> asked[f],
                    hashed |-> TRUE, removal_location |-> None, active |-> TRUE]
  OBVIOUS
<1>4. r \in Interest
  <2>1. Head(left[f]) \in Output
    BY <1>2
  <2>2. QED
    BY <1>2, <1>3, <2>1 DEF Interest
<1>5. /\ rows \in Seq(Interest) /\ rows' = Append(rows, r)
      /\ removals \in [DOMAIN rows -> Nat] /\ removals' = Append(removals, 0)
  BY <1>1, <1>3 DEF TypeOK, Create
<1>6. /\ Len(rows) + 1 \notin DOMAIN rows /\ DOMAIN rows' = DOMAIN rows \cup {Len(rows) + 1}
      /\ \A i \in DOMAIN rows : rows'[i] = rows[i]
      /\ rows'[Len(rows) + 1] = r
  BY <1>4, <1>5
<1>7. removals'[Len(rows) + 1] = 0 /\ \A i \in DOMAIN rows : removals'[i] = removals[i]
  <2>1. removals \in Seq(Nat) /\ Len(removals) = Len(rows) /\ DOMAIN rows = 1..Len(rows)
    BY <1>5
  <2>2. QED
    BY <1>5, <2>1
<1>8. QED
  BY <1>2, <1>3, <1>6, <1>7 DEF Adds

LEMMA PublishTells ==
  ASSUME IInv, NEW f \in Fiber, PublishRemoval(f)
  PROVE  /\ DOMAIN rows' = DOMAIN rows
         /\ \A i \in DOMAIN rows : Keeps(i) \/ Tells(f, i)
<1>1. TypeOK /\ FiberTyped(f) /\ FiberKnows(f) /\ pc[f] = "publish" /\ rows' = rows
  BY TypedFibers DEF IInv, PublishRemoval
<1>2. PICK k : k = row[f]
  OBVIOUS
<1>3. k \in DOMAIN rows /\ removals \in [DOMAIN rows -> Nat] /\ rows[k].removal_location # None
  BY <1>1, <1>2 DEF FiberTyped, FiberKnows, TypeOK
<1>4. removals' = [removals EXCEPT ![k] = @ + 1]
  BY <1>2 DEF PublishRemoval
<1>5. /\ removals'[k] = removals[k] + 1
      /\ \A i \in DOMAIN rows : i # k => removals'[i] = removals[i]
  BY <1>3, <1>4
<1>6. pc'[f] = "idle" /\ f \in Removing(k)
  BY <1>1, <1>2, Shapes DEF PublishRemoval, Done, Goto, Removing
<1>7. QED
  BY <1>1, <1>3, <1>5, <1>6 DEF Keeps, Tells

LEMMA FixKeeps ==
  ASSUME IInv, NEW f \in Fiber, FixSave(f), NEW i \in DOMAIN rows
  PROVE  rows'[i].removal_location = rows[i].removal_location
<1>1. TypeOK
  BY DEF IInv
<1>2. PICK k, l : rows' = [rows EXCEPT ![k].hashed = TRUE, ![k].location = l]
  BY DEF FixSave
<1>3. rows \in Seq(Interest) /\ rows[i] \in Interest
  BY <1>1 DEF TypeOK
<1>4. CASE i = k
  <2>1. PICK new : new = [rows[k] EXCEPT !.hashed = TRUE, !.location = l]
    OBVIOUS
  <2>2. new.removal_location = rows[i].removal_location
    BY <1>3, <1>4, <2>1 DEF Interest
  <2>3. rows' = [rows EXCEPT ![k] = new]
    BY <1>2, <1>3, <1>4, <2>1
  <2>4. QED
    BY <1>3, <1>4, <2>2, <2>3
<1>5. CASE i # k
  BY <1>2, <1>3, <1>5
<1>6. QED
  BY <1>4, <1>5

LEMMA Writes ==
  ASSUME IInv, [Next]_vars
  PROVE  \/ \E f \in Fiber : Create(f)
         \/ /\ DOMAIN rows' = DOMAIN rows
            /\ \A i \in DOMAIN rows : Keeps(i) \/ \E f \in Fiber : Tells(f, i)
<1>1. CASE UNCHANGED table
  BY <1>1 DEF table, Keeps
<1>2. ASSUME NEW f \in Fiber, Advance(f), ~UNCHANGED table
      PROVE  Create(f) \/ SaveRemoval(f) \/ PublishRemoval(f) \/ FixSave(f)
  BY <1>2 DEF Advance, FindAll, FetchAgain, Fetch, FindOne, History, GetTransactions,
              FindUnhashed, FixFetch, table
<1>3. ASSUME NEW f \in Fiber, Acts(f), ~UNCHANGED table PROVE Advance(f)
  BY <1>3 DEF Acts, Import, Remove, Begin, FixHashes, Fail, table
<1>4. ASSUME ~UNCHANGED table PROVE \E f \in Fiber : Acts(f)
  BY <1>4 DEF Next, Acts, Spend, vars, table
<1>5. ASSUME NEW f \in Fiber, SaveRemoval(f) \/ FixSave(f)
      PROVE  DOMAIN rows' = DOMAIN rows /\ \A i \in DOMAIN rows : Keeps(i)
  <2>1. TableKeeps
    BY EveryStep
  <2>2. removals' = removals
    BY <1>5 DEF SaveRemoval, FixSave
  <2>3. DOMAIN rows' = DOMAIN rows
    BY <1>5 DEF SaveRemoval, FixSave
  <2>4. QED
    BY <2>1, <2>2, <2>3 DEF TableKeeps, Keeps
<1>6. QED
  BY <1>1, <1>2, <1>3, <1>4, <1>5, PublishTells

\* A step that records nothing.
LEMMA RowsStill ==
  ASSUME IInv, RowsRepeat, [Next]_vars, DOMAIN rows' = DOMAIN rows
  PROVE  RowsRepeat'
<1>1. TypeOK /\ TableKeeps
  BY EveryStep DEF IInv
<1>2. /\ DOMAIN Legacy \subseteq DOMAIN rows'
      /\ \A j \in DOMAIN rows' \ DOMAIN Legacy :
           rows'[j].hashed /\ rows'[j].location = rows'[j].origin
  BY <1>1 DEF RowsRepeat, TableKeeps
<1>3. \A f \in Fiber : Distinct(left'[f])
  BY AllSent DEF Sent
<1>4. ASSUME NEW o \in Output, NEW l \in Location
      PROVE  Fits(Cardinality(Recorded(o, l)'), Recording(o, l)')
  <2>1. Recorded(o, l)' = Recorded(o, l)
    BY <1>1 DEF Recorded, TableKeeps
  <2>2. Recording(o, l)' \subseteq Recording(o, l) \/ RowsAt(l) = {}
    BY AllSent DEF Sent, Recording
  <2>3. RowsAt(l) = {} => Recorded(o, l) = {}
    BY DEF RowsRepeat, RowsAt, Recorded
  <2>4. Fits(Cardinality(Recorded(o, l)), Recording(o, l)) /\ Cardinality({}) = 0
    BY FS_EmptySet DEF RowsRepeat
  <2>5. Recording(o, l) \subseteq Fiber /\ Recording(o, l)' \subseteq Fiber
    BY DEF Recording
  <2>6. Cardinality(Recorded(o, l)) \in Nat
    BY <1>1, RecordedIsFinite
  <2>7. QED
    BY <2>1, <2>2, <2>3, <2>4, <2>5, <2>6, FitsStill
<1>5. QED
  BY <1>2, <1>3, <1>4 DEF RowsRepeat

\* A fiber that records an output has one less to record there.
LEMMA RowsGrow ==
  ASSUME IInv, RowsRepeat, [Next]_vars, NEW f \in Fiber, Create(f)
  PROVE  RowsRepeat'
<1>1. TypeOK /\ TableKeeps /\ FiberTyped(f) /\ Distinct(left[f])
  BY EveryStep, TypedFibers DEF IInv, RowsRepeat
<1>2. PICK n : Adds(f, n)
  BY CreateAdds
<1>3. pc[f] = "create" /\ left[f] \in Seq(Output) /\ left[f] # <<>> /\ asked[f] \in Location
  BY <1>1, <1>2 DEF FiberTyped, Adds
<1>4. /\ DOMAIN Legacy \subseteq DOMAIN rows' /\ n \notin DOMAIN Legacy
      /\ \A j \in DOMAIN rows' \ DOMAIN Legacy :
           rows'[j].hashed /\ rows'[j].location = rows'[j].origin
  BY <1>2 DEF RowsRepeat, Adds
<1>5. \A g \in Fiber : Distinct(left'[g])
  BY AllSent DEF Sent
<1>6. ASSUME NEW o \in Output, NEW l \in Location
      PROVE  Fits(Cardinality(Recorded(o, l)'), Recording(o, l)')
  <2>1. Fits(Cardinality(Recorded(o, l)), Recording(o, l)) /\ Cardinality({}) = 0
    BY FS_EmptySet DEF RowsRepeat
  <2>2. Recording(o, l) \subseteq Fiber /\ Recording(o, l)' \subseteq Fiber
    BY DEF Recording
  <2>3. Cardinality(Recorded(o, l)) \in Nat /\ IsFiniteSet(Recorded(o, l))
    BY <1>1, RecordedIsFinite
  <2>4. CASE o = Head(left[f]) /\ l = asked[f]
    <3>1. Recorded(o, l)' = Recorded(o, l) \cup {n} /\ n \notin Recorded(o, l)
      BY <1>2, <1>4, <2>4 DEF Adds, Recorded
    <3>2. Cardinality(Recorded(o, l)') = Cardinality(Recorded(o, l)) + 1
      BY <2>3, <3>1, FS_AddElement
    <3>3. f \in Recording(o, l)
      BY <1>3, <2>4 DEF Recording, ToRecord
    <3>4. f \notin Recording(o, l)'
      <4>1. \/ Done(f)
            \/ left'[f] = Tail(left[f]) /\ pc'[f] = "create"
        BY <1>1, <1>3, Shapes DEF Create
      <4>2. Done(f) => pc'[f] = "idle"
        BY <1>1, Shapes DEF Done, Goto
      <4>3. \A k \in DOMAIN Tail(left[f]) :
              k + 1 \in DOMAIN left[f] /\ k + 1 # 1 /\ Tail(left[f])[k] = left[f][k + 1]
        BY <1>3
      <4>4. 1 \in DOMAIN left[f] /\ left[f][1] = o
        BY <1>3, <2>4
      <4>5. \A k \in DOMAIN Tail(left[f]) : Tail(left[f])[k] # o
        BY <1>1, <4>3, <4>4 DEF Distinct
      <4>6. QED
        BY <4>1, <4>2, <4>5 DEF Recording, ToRecord
    <3>5. \A g \in Fiber \ {f} : g \in Recording(o, l)' => g \in Recording(o, l)
      BY <1>1, Alone DEF Acts, Advance, Recording, ToRecord
    <3>6. Recording(o, l)' \subseteq Recording(o, l) \ {f}
      BY <2>2, <3>4, <3>5
    <3>7. QED
      BY <2>1, <2>2, <2>3, <3>2, <3>3, <3>6, FitsTaken
  <2>5. CASE ~(o = Head(left[f]) /\ l = asked[f])
    <3>1. Recorded(o, l)' = Recorded(o, l)
      BY <1>2, <1>4, <2>5 DEF Adds, Recorded
    <3>2. Recording(o, l)' \subseteq Recording(o, l) \/ RowsAt(l) = {}
      BY AllSent DEF Sent, Recording
    <3>3. RowsAt(l) = {} => Recorded(o, l) = {}
      BY DEF RowsRepeat, RowsAt, Recorded
    <3>4. QED
      BY <2>1, <2>2, <2>3, <3>1, <3>2, <3>3, FitsStill
  <2>6. QED
    BY <2>4, <2>5
<1>7. QED
  BY <1>4, <1>5, <1>6 DEF RowsRepeat

LEMMA RemovalsStill ==
  ASSUME IInv, RowsRepeat, RemovalsRepeat, [Next]_vars
  PROVE  RemovalsRepeat'
<1>1. TypeOK /\ removals \in [DOMAIN rows -> Nat]
  BY DEF IInv, TypeOK
<1>2. ASSUME NEW i \in DOMAIN rows
      PROVE  /\ Removing(i) \subseteq Fiber /\ Removing(i)' \subseteq Fiber /\ removals[i] \in Nat
             /\ Fits(removals[i], Removing(i))
             /\ removals[i] > 0 => rows[i].removal_location # None
             /\ Removing(i)' \subseteq Removing(i) \/ removals[i] = 0
  <2>1. /\ Removing(i) \subseteq Fiber /\ Removing(i)' \subseteq Fiber /\ removals[i] \in Nat
        /\ Fits(removals[i], Removing(i))
        /\ removals[i] > 0 => rows[i].removal_location # None
    BY <1>1 DEF Removing, RemovalsRepeat
  <2>2. \A f \in Removing(i)' : f \in Removing(i) \/ rows[i].removal_location = None
    BY <2>1, AllSent DEF Sent
  <2>3. QED
    BY <2>1, <2>2
<1>3. ASSUME NEW i \in DOMAIN rows, Keeps(i)
      PROVE  Fits(removals'[i], Removing(i)') /\ (removals'[i] > 0 => rows'[i].removal_location # None)
  BY <1>2, <1>3, FitsStill DEF Keeps
<1>4. ASSUME NEW i \in DOMAIN rows, NEW f \in Fiber, Tells(f, i)
      PROVE  Fits(removals'[i], Removing(i)') /\ (removals'[i] > 0 => rows'[i].removal_location # None)
  <2>1. f \in Removing(i) /\ f \notin Removing(i)' /\ removals'[i] = removals[i] + 1
    BY <1>4 DEF Tells, Removing
  <2>2. Removing(i)' \subseteq Removing(i) \ {f} \/ removals[i] = 0
    BY <1>2, <2>1
  <2>3. Fits(removals'[i], Removing(i)')
    <3>1. CASE Removing(i)' \subseteq Removing(i) \ {f}
      BY <1>2, <2>1, <3>1, FitsTaken
    <3>2. CASE removals[i] = 0
      <4>1. Fits(0, Fiber)
        BY InterestAssumption, FS_CardinalityType DEF Fits
      <4>2. QED
        BY <1>2, <2>1, <3>2, <4>1, FitsTaken
    <3>3. QED
      BY <2>2, <3>1, <3>2
  <2>4. QED
    BY <1>2, <1>4, <2>1, <2>3 DEF Tells
<1>5. ASSUME NEW f \in Fiber, Create(f) PROVE RemovalsRepeat'
  <2>1. PICK n : Adds(f, n)
    BY <1>5, CreateAdds
  <2>2. \A i \in DOMAIN rows : Keeps(i)
    BY <2>1 DEF Adds, Keeps
  <2>3. Fits(0, Fiber) /\ Removing(n)' \subseteq Fiber
    BY InterestAssumption, FS_CardinalityType DEF Fits, Removing
  <2>4. Fits(removals'[n], Removing(n)')
    BY <2>1, <2>3, FitsStill DEF Adds
  <2>5. QED
    BY <1>3, <2>1, <2>2, <2>4 DEF Adds, RemovalsRepeat
<1>6. CASE /\ DOMAIN rows' = DOMAIN rows
           /\ \A i \in DOMAIN rows : Keeps(i) \/ \E f \in Fiber : Tells(f, i)
  BY <1>3, <1>4, <1>6 DEF RemovalsRepeat
<1>7. QED
  BY <1>5, <1>6, Writes

\* Only calls that overlap repeat each other, for any number of calls: an output is
\* recorded for a location, and a removal announced, at most once for each fiber,
\* since a fiber that looks again finds what was written.
THEOREM RepeatsAreBounded == Spec => []RepeatsNeedOverlap
<1>1. IInv /\ RowsRepeat /\ RemovalsRepeat /\ [Next]_vars => RowsRepeat' /\ RemovalsRepeat'
  BY Writes, RowsStill, RowsGrow, RemovalsStill
<1>2. ASSUME IInv, RowsRepeat, RemovalsRepeat PROVE RepeatsNeedOverlap
  <2>1. TypeOK /\ Cardinality(Fiber) \in Nat
    BY <1>2, InterestAssumption, FS_CardinalityType DEF IInv
  <2>2. ASSUME NEW n \in Nat, NEW fibers, fibers \subseteq Fiber, Fits(n, fibers)
        PROVE  n <= Cardinality(Fiber)
    <3>1. Cardinality(fibers) \in Nat
      BY <2>2, InterestAssumption, FS_Subset, FS_CardinalityType
    <3>2. QED
      BY <2>1, <2>2, <3>1 DEF Fits
  <2>3. ASSUME NEW i \in DOMAIN rows PROVE Cardinality(Twins(i) \ DOMAIN Legacy) <= Cardinality(Fiber)
    <3>1. rows[i] \in Interest
      BY <2>1 DEF TypeOK
    <3>2. PICK o \in Output, l \in Location : o = rows[i].out /\ l = rows[i].origin
      BY <3>1 DEF Interest
    <3>3. Twins(i) \ DOMAIN Legacy = Recorded(o, l)
      BY <3>2 DEF Twins, Recorded
    <3>4. Cardinality(Recorded(o, l)) \in Nat /\ Recording(o, l) \subseteq Fiber
      BY <2>1, RecordedIsFinite DEF Recording
    <3>5. Fits(Cardinality(Recorded(o, l)), Recording(o, l))
      BY <1>2 DEF RowsRepeat
    <3>6. QED
      BY <2>2, <3>3, <3>4, <3>5
  <2>4. ASSUME NEW i \in DOMAIN rows
        PROVE  removals[i] <= Cardinality(Fiber) /\ (removals[i] > 0 => rows[i].removal_location # None)
    <3>1. removals[i] \in Nat /\ Removing(i) \subseteq Fiber
      BY <2>1 DEF TypeOK, Removing
    <3>2. Fits(removals[i], Removing(i)) /\ (removals[i] > 0 => rows[i].removal_location # None)
      BY <1>2 DEF RemovalsRepeat
    <3>3. removals[i] <= Cardinality(Fiber)
      BY <2>2, <3>1, <3>2
    <3>4. QED
      BY <3>2, <3>3
  <2>5. QED
    BY <2>3, <2>4 DEF RepeatsNeedOverlap
<1>3. Spec => [](RowsRepeat /\ RemovalsRepeat)
  BY <1>1, InitRepeats, Invariance, PTL DEF Spec
<1>4. QED
  BY <1>2, <1>3, Invariance, PTL
-----------------------------------------------------------------------------
(* Losses.                                                                 *)

\* Whoever records the interests of a transaction has recorded or carries all of them.
CarriesAll ==
  \A f \in Fiber : pc[f] = "create" =>
    \A k \in DOMAIN Detected[TxOf[asked[f]]] :
      \/ Recorded(Detected[TxOf[asked[f]]][k], asked[f]) # {}
      \/ Carries(f, Detected[TxOf[asked[f]]][k], asked[f])

LossInv == CarriesAll /\ FailuresLoseOneEach

LEMMA InitLosses == Init => LossInv
<1> SUFFICES ASSUME Init PROVE LossInv
  OBVIOUS
<1>1. rows = Legacy /\ \A i \in DOMAIN rows : rows[i].removal_location = None
  BY InterestAssumption DEF Init
<1>2. Silent = {} /\ Partial = {}
  BY <1>1 DEF Silent, Partial
<1>3. FailuresLoseOneEach
  BY <1>2, FS_EmptySet DEF Init, FailuresLoseOneEach
<1>4. CarriesAll
  BY DEF Init, CarriesAll
<1>5. QED
  BY <1>3, <1>4 DEF LossInv

LEMMA LossesAreFinite ==
  ASSUME TypeOK
  PROVE  /\ IsFiniteSet(Silent) /\ IsFiniteSet(Partial)
         /\ Cardinality(Silent) \in Nat /\ Cardinality(Partial) \in Nat
<1>1. DOMAIN rows = 1..Len(rows) /\ Len(rows) \in Nat
  BY DEF TypeOK
<1>2. IsFiniteSet(DOMAIN rows)
  BY <1>1, FS_Interval
<1>3. IsFiniteSet(DOMAIN rows \ DOMAIN Legacy)
  BY <1>2, FS_Subset
<1>4. IsFiniteSet({rows[i].origin : i \in DOMAIN rows \ DOMAIN Legacy})
  <2>1. PICK new : new = DOMAIN rows \ DOMAIN Legacy
    OBVIOUS
  <2>2. PICK origins : origins = {rows[i].origin : i \in new}
    OBVIOUS
  <2>3. [i \in new |-> rows[i].origin] \in Surjection(new, origins)
    BY <2>2 DEF Surjection
  <2>4. QED
    BY <1>3, <2>1, <2>2, <2>3, FS_Surjection
<1>5. IsFiniteSet(Silent) /\ IsFiniteSet(Partial)
  <2>1. Silent \subseteq DOMAIN rows
    BY DEF Silent
  <2>2. Partial \subseteq {rows[i].origin : i \in DOMAIN rows \ DOMAIN Legacy}
    BY DEF Partial
  <2>3. QED
    BY <1>2, <1>4, <2>1, <2>2, FS_Subset
<1>6. QED
  BY <1>5, FS_CardinalityType

\* Rows stay where they were recorded.
LEMMA RecordedStays ==
  ASSUME IInv, RowsRepeat, [Next]_vars, NEW o, NEW l
  PROVE  Recorded(o, l) \subseteq Recorded(o, l)'
<1>1. TableKeeps
  BY EveryStep
<1>2. QED
  BY <1>1 DEF Recorded, TableKeeps

\* What a fiber does with the interests it carries: it keeps them, records the first
\* and keeps the others, takes all of a transaction, or fails.
Kept(f)   == pc'[f] = pc[f] /\ asked'[f] = asked[f] /\ left'[f] = left[f]
Took(f)   == pc[f] # "create" /\ pc'[f] = "create" /\ left'[f] = Detected[TxOf[asked'[f]]]
Without(f) == pc[f] # "create" /\ pc'[f] # "create"

LEMMA CarrySteps ==
  ASSUME IInv, NEW f \in Fiber, Acts(f)
  PROVE  Kept(f) \/ Took(f) \/ Without(f) \/ Create(f) \/ Fail(f)
<1>1. TypeOK /\ FiberTyped(f)
  BY TypedFibers DEF IInv
<1> USE <1>1, Shapes DEF Goto, Done, local, Kept, Took, Without
<1>2. CASE \E l \in Asked : Import(f, l) \/ Remove(f, l)
  BY <1>2 DEF Import, Remove, Begin
<1>3. CASE FixHashes(f) \/ FindAll(f) \/ FetchAgain(f)
  BY <1>3 DEF FixHashes, FindAll, FetchAgain
<1>4. CASE Fetch(f)
  BY <1>4 DEF Fetch
<1>5. CASE FindOne(f) \/ History(f) \/ GetTransactions(f)
  BY <1>5 DEF FindOne, History, GetTransactions
<1>6. CASE SaveRemoval(f) \/ PublishRemoval(f)
  BY <1>6 DEF SaveRemoval, PublishRemoval
<1>7. CASE FindUnhashed(f) \/ FixFetch(f) \/ FixSave(f)
  BY <1>7 DEF FindUnhashed, FixFetch, FixSave, NextRow
<1>8. QED
  BY <1>2, <1>3, <1>4, <1>5, <1>6, <1>7 DEF Acts, Advance

\* A fiber that records the first interest it carries has it, and carries the others.
LEMMA CreateCarries ==
  ASSUME IInv, RowsRepeat, NEW f \in Fiber, Create(f), NEW o, NEW l, Carries(f, o, l)
  PROVE  \/ Recorded(o, l)' # {}
         \/ Carries(f, o, l)'
<1>1. TypeOK /\ FiberTyped(f)
  BY TypedFibers DEF IInv
<1>2. left[f] \in Seq(Output) /\ left[f] # <<>> /\ pc[f] = "create" /\ asked[f] = l
  BY <1>1 DEF FiberTyped, Create, Carries
<1>3. PICK n : Adds(f, n)
  BY CreateAdds
<1>4. CASE o = Head(left[f])
  <2>1. n \in DOMAIN rows' /\ rows'[n].out = o /\ rows'[n].origin = l /\ n \notin DOMAIN Legacy
    BY <1>2, <1>3, <1>4 DEF Adds, RowsRepeat
  <2>2. n \in {j \in DOMAIN rows' : rows'[j].out = o /\ rows'[j].origin = l} \ DOMAIN Legacy
    BY <2>1
  <2>3. Recorded(o, l)' = {j \in DOMAIN rows' : rows'[j].out = o /\ rows'[j].origin = l} \ DOMAIN Legacy
    BY DEF Recorded
  <2>4. QED
    BY <2>2, <2>3
<1>5. CASE o # Head(left[f])
  <2>1. PICK k \in DOMAIN left[f] : left[f][k] = o
    BY DEF Carries
  <2>2. k \in 2 .. Len(left[f])
    BY <1>2, <1>5, <2>1
  <2>3. Len(left[f]) > 1 /\ k - 1 \in DOMAIN Tail(left[f]) /\ Tail(left[f])[k - 1] = o
    BY <1>2, <2>1, <2>2
  <2>4. left'[f] = Tail(left[f]) /\ pc'[f] = "create" /\ asked'[f] = asked[f]
    BY <1>1, <2>3, Shapes DEF Create
  <2>5. QED
    BY <1>2, <2>3, <2>4 DEF Carries
<1>6. QED
  BY <1>4, <1>5

\* The same for any step of any fiber but one that fails.
LEMMA CarriedOn ==
  ASSUME IInv, RowsRepeat, [Next]_vars, NEW f \in Fiber, ~Fail(f), NEW o, NEW l, Carries(f, o, l)
  PROVE  Recorded(o, l)' # {} \/ Carries(f, o, l)'
<1>1. TypeOK /\ pc[f] = "create" /\ asked[f] = l
  BY DEF IInv, Carries
<1>2. CASE Kept(f)
  BY <1>1, <1>2 DEF Kept, Carries
<1>3. CASE Create(f)
  BY <1>1, <1>3, CreateCarries
<1>4. ASSUME NEW g \in Fiber, Acts(g), g # f PROVE Kept(f)
  BY <1>1, <1>4, Alone DEF Kept
<1>5. CASE (\E r \in Removal : Spend(r)) \/ UNCHANGED vars
  BY <1>5, <1>2 DEF Spend, vars, local, Kept
<1>6. CASE Acts(f)
  BY <1>1, <1>2, <1>3, <1>6, CarrySteps DEF Took, Without
<1>7. QED
  BY <1>2, <1>4, <1>5, <1>6 DEF Next, Acts

LEMMA CarriesAllStays ==
  ASSUME IInv, RowsRepeat, CarriesAll, [Next]_vars
  PROVE  CarriesAll'
<1>1. TypeOK
  BY DEF IInv
<1> SUFFICES ASSUME NEW f \in Fiber, pc'[f] = "create", NEW l, asked'[f] = l,
                    NEW k \in DOMAIN Detected[TxOf[l]], NEW o, o = Detected[TxOf[l]][k]
             PROVE  Recorded(o, l)' # {} \/ Carries(f, o, l)'
  BY DEF CarriesAll
<1>2. CASE pc[f] = "create" /\ asked'[f] = asked[f] /\ ~Fail(f)
  <2>1. Recorded(o, l) # {} \/ Carries(f, o, l)
    BY <1>2 DEF CarriesAll
  <2>2. QED
    BY <1>2, <2>1, RecordedStays, CarriedOn
<1>3. CASE Took(f)
  BY <1>3 DEF Took, Carries
<1>4. ~Fail(f)
  BY <1>1, Shapes DEF Fail, Done, Goto
<1>5. Kept(f) => pc[f] = "create" /\ asked'[f] = asked[f]
  BY DEF Kept
<1>6. Create(f) => pc[f] = "create" /\ asked'[f] = asked[f]
  BY <1>1, Shapes DEF Create, Done, Goto
<1>7. ~Without(f)
  BY DEF Without
<1>8. Acts(f) => Kept(f) \/ Took(f) \/ Create(f)
  BY <1>4, <1>7, CarrySteps
<1>9. ASSUME NEW g \in Fiber, Acts(g), g # f PROVE Kept(f)
  BY <1>1, <1>9, Alone DEF Kept
<1>10. (\E r \in Removal : Spend(r)) \/ UNCHANGED vars => Kept(f)
  BY DEF Spend, vars, local, Kept
<1>11. Kept(f) \/ Took(f) \/ Create(f)
  BY <1>8, <1>9, <1>10 DEF Next, Acts
<1>12. QED
  BY <1>2, <1>3, <1>4, <1>5, <1>6, <1>11

\* A removal that nobody will announce was one before, but for the fiber that failed.
LEMMA SilentStays ==
  ASSUME IInv, [Next]_vars, NEW i \in Silent', i \notin Silent
  PROVE  \E f \in Fiber : Fail(f) /\ pc[f] = "publish" /\ row[f] = i
<1>1. TypeOK /\ TableKeeps /\ removals \in [DOMAIN rows -> Nat]
  BY EveryStep DEF IInv, TypeOK
<1>2. /\ i \in DOMAIN rows' /\ rows'[i].removal_location # None /\ removals'[i] = 0
      /\ \A f \in Fiber : ~(pc'[f] = "publish" /\ row'[f] = i)
  BY DEF Silent
<1>3. ASSUME NEW f \in Fiber, Create(f) PROVE i \in DOMAIN rows /\ rows'[i] = rows[i]
  BY <1>2, <1>3, CreateAdds DEF Adds
<1>4. i \in DOMAIN rows /\ Keeps(i)
  <2>1. \A f \in Fiber : Tells(f, i) /\ i \in DOMAIN rows => removals'[i] # 0
    BY <1>1 DEF Tells
  <2>2. ASSUME NEW f \in Fiber, Create(f) PROVE i \in DOMAIN rows /\ Keeps(i)
    BY <1>2, <1>3, <2>2, CreateAdds DEF Adds, Keeps
  <2>3. QED
    BY <1>2, <2>1, <2>2, Writes
<1>5. removals[i] = 0
  BY <1>2, <1>4 DEF Keeps
<1>6. rows[i].removal_location # None
  <2>1. ASSUME rows[i].removal_location = None PROVE FALSE
    <3>1. PICK f \in Fiber : SaveRemoval(f) /\ row[f] = i
      <4>1. ASSUME NEW f \in Fiber, SaveRemoval(f), row[f] # i
            PROVE  rows'[i] = rows[i]
        BY <1>1, <1>4, <4>1 DEF SaveRemoval, TypeOK
      <4>2. ASSUME NEW f \in Fiber, FixSave(f) PROVE rows'[i].removal_location = rows[i].removal_location
        BY <1>4, <4>2, FixKeeps
      <4>3. ~UNCHANGED rows
        BY <1>2, <2>1
      <4>4. ASSUME NEW f \in Fiber, Acts(f) PROVE Create(f) \/ SaveRemoval(f) \/ FixSave(f)
        BY <4>3, <4>4 DEF Acts, Import, Remove, Begin, FixHashes, Fail, table, Advance, FindAll, FetchAgain,
           Fetch, FindOne, History, GetTransactions, PublishRemoval, FindUnhashed, FixFetch
      <4>5. \E f \in Fiber : Acts(f)
        BY <4>3 DEF Next, Acts, Spend, vars, table
      <4>6. QED
        BY <1>2, <1>3, <2>1, <4>1, <4>2, <4>4, <4>5
    <3>2. pc'[f] = "publish" /\ row'[f] = i
      BY <1>1, <3>1, Shapes DEF SaveRemoval, Goto, local
    <3>3. QED
      BY <1>2, <3>2
  <2>2. QED
    BY <2>1
<1>7. PICK f \in Fiber : pc[f] = "publish" /\ row[f] = i
  BY <1>4, <1>5, <1>6 DEF Silent
<1>8. ~(pc'[f] = pc[f] /\ row'[f] = row[f])
  BY <1>2, <1>7
<1>9. Acts(f)
  <2>1. \A g \in Fiber : Acts(g) /\ g # f => pc'[f] = pc[f] /\ row'[f] = row[f]
    BY <1>1, Alone
  <2>2. (\E r \in Removal : Spend(r)) \/ UNCHANGED vars => pc'[f] = pc[f] /\ row'[f] = row[f]
    BY DEF Spend, vars, local
  <2>3. QED
    BY <1>8, <2>1, <2>2 DEF Next, Acts
<1>10. PublishRemoval(f) \/ Fail(f)
  BY <1>7, <1>9 DEF Acts, Import, Remove, Begin, FixHashes, Advance, FindAll, FetchAgain,
     Fetch, Create, FindOne, History, GetTransactions, SaveRemoval, FindUnhashed, FixFetch, FixSave
<1>11. ~PublishRemoval(f)
  BY <1>1, <1>2, <1>4, <1>5, <1>7 DEF PublishRemoval
<1>12. QED
  BY <1>7, <1>10, <1>11

\* The same of a location: a fiber that failed carried an interest that is missing.
LEMMA PartialStays ==
  ASSUME IInv, RowsRepeat, CarriesAll, [Next]_vars, NEW l \in Partial', l \notin Partial
  PROVE  \E f \in Fiber : Fail(f) /\ pc[f] = "create" /\ asked[f] = l
<1>1. TypeOK /\ TableKeeps
  BY EveryStep DEF IInv
<1>2. PICK i \in DOMAIN rows' \ DOMAIN Legacy : rows'[i].origin = l
  BY DEF Partial
<1>3. PICK o : /\ \E k \in DOMAIN Detected[TxOf[l]] : o = Detected[TxOf[l]][k]
               /\ Recorded(o, l)' = {} /\ \A f \in Fiber : ~Carries(f, o, l)'
  <2>1. \E k \in DOMAIN Detected[TxOf[l]] :
          Recorded(Detected[TxOf[l]][k], l)' = {} /\ \A f \in Fiber : ~Carries(f, Detected[TxOf[l]][k], l)'
    BY DEF Partial
  <2>2. QED
    BY <2>1
<1>4. Recorded(o, l) = {}
  BY <1>3, RecordedStays
<1>5. \E f \in Fiber : Carries(f, o, l)
  <2>1. CASE i \in DOMAIN rows
    <3>1. rows[i].origin = l
      BY <1>1, <1>2, <2>1 DEF TableKeeps
    <3>2. l \in {rows[j].origin : j \in DOMAIN rows \ DOMAIN Legacy}
      BY <1>2, <2>1, <3>1
    <3>3. QED
      BY <1>3, <1>4, <3>2 DEF Partial
  <2>2. CASE i \notin DOMAIN rows
    <3>1. PICK f \in Fiber : Create(f)
      BY <1>2, <2>2, Writes
    <3>2. PICK n : Adds(f, n)
      BY <3>1, CreateAdds
    <3>3. pc[f] = "create" /\ asked[f] = l
      BY <1>2, <2>2, <3>2 DEF Adds
    <3>4. QED
      BY <1>3, <1>4, <3>3 DEF CarriesAll
  <2>3. QED
    BY <2>1, <2>2
<1>6. PICK f \in Fiber : Carries(f, o, l)
  BY <1>5
<1>7. Fail(f)
  BY <1>3, <1>6, CarriedOn
<1>8. QED
  BY <1>6, <1>7 DEF Carries

\* A step that fails is of one fiber, and adds one element to one of the sets at most.
LEMMA FailLosesOne ==
  ASSUME IInv, RowsRepeat, CarriesAll, [Next]_vars, NEW f \in Fiber, Fail(f)
  PROVE  \/ Silent' \subseteq Silent /\ Partial' \subseteq Partial \cup {asked[f]}
         \/ Silent' \subseteq Silent \cup {row[f]} /\ Partial' \subseteq Partial
<1>1. TypeOK /\ pc[f] # "idle" /\ pc'[f] = "idle"
  BY Shapes DEF IInv, Fail, Done, Goto
<1>2. \A g \in Fiber : Fail(g) => g = f
  <2>1. ASSUME NEW g \in Fiber, Fail(g), g # f PROVE pc'[f] = pc[f]
    BY <1>1, <2>1, Alone DEF Acts
  <2>2. QED
    BY <1>1, <2>1
<1>3. \A i \in Silent' : i \in Silent \/ (pc[f] = "publish" /\ i = row[f])
  BY <1>2, SilentStays
<1>4. \A l \in Partial' : l \in Partial \/ (pc[f] = "create" /\ l = asked[f])
  BY <1>2, PartialStays
<1>5. CASE pc[f] = "publish"
  BY <1>3, <1>4, <1>5
<1>6. CASE pc[f] # "publish"
  BY <1>3, <1>4, <1>6
<1>7. QED
  BY <1>5, <1>6

LEMMA LossesStay ==
  ASSUME IInv, RowsRepeat, LossInv, [Next]_vars
  PROVE  LossInv'
<1>1. TypeOK /\ TypeOK' /\ CarriesAll /\ CarriesAll' /\ failures \in Nat
  BY EveryStep, CarriesAllStays DEF IInv, LossInv, TypeOK
<1>2. /\ IsFiniteSet(Silent) /\ IsFiniteSet(Partial)
      /\ Cardinality(Silent) \in Nat /\ Cardinality(Partial) \in Nat
  BY <1>1, LossesAreFinite
<1>4. Cardinality(Silent) + Cardinality(Partial) <= failures
  BY DEF LossInv, FailuresLoseOneEach
<1>5. \A S, T, x : IsFiniteSet(T) /\ S \subseteq T \cup {x}
                     => Cardinality(S) \in Nat /\ Cardinality(S) <= Cardinality(T) + 1
  <2> SUFFICES ASSUME NEW S, NEW T, NEW x, IsFiniteSet(T), S \subseteq T \cup {x}
               PROVE  Cardinality(S) \in Nat /\ Cardinality(S) <= Cardinality(T) + 1
    OBVIOUS
  <2>1. Cardinality(T) \in Nat
    BY FS_CardinalityType
  <2>2. /\ IsFiniteSet(T \cup {x})
        /\ Cardinality(T \cup {x}) = IF x \in T THEN Cardinality(T) ELSE Cardinality(T) + 1
    BY FS_AddElement
  <2>3. Cardinality(T \cup {x}) \in Nat /\ Cardinality(T \cup {x}) <= Cardinality(T) + 1
    BY <2>1, <2>2
  <2>4. Cardinality(S) <= Cardinality(T \cup {x}) /\ IsFiniteSet(S)
    BY <2>2, FS_Subset
  <2>5. Cardinality(S) \in Nat
    BY <2>4, FS_CardinalityType
  <2>6. QED
    BY <2>1, <2>3, <2>4, <2>5
<1>6. \A S, T : IsFiniteSet(T) /\ S \subseteq T => Cardinality(S) \in Nat /\ Cardinality(S) <= Cardinality(T)
  BY FS_Subset, FS_CardinalityType
<1> HIDE DEF Silent, Partial
<1>7. ASSUME NEW f \in Fiber, Fail(f) PROVE FailuresLoseOneEach'
  <2>1. failures' = failures + 1
    BY <1>7 DEF Fail
  <2>2. CASE Silent' \subseteq Silent /\ Partial' \subseteq Partial \cup {asked[f]}
    <3>1. /\ Cardinality(Silent') \in Nat /\ Cardinality(Partial') \in Nat
          /\ Cardinality(Silent') <= Cardinality(Silent) /\ Cardinality(Partial') <= Cardinality(Partial) + 1
      BY <1>2, <1>5, <1>6, <2>2
    <3>2. QED
      BY <1>1, <1>2, <1>4, <2>1, <3>1 DEF FailuresLoseOneEach
  <2>3. CASE Silent' \subseteq Silent \cup {row[f]} /\ Partial' \subseteq Partial
    <3>1. /\ Cardinality(Silent') \in Nat /\ Cardinality(Partial') \in Nat
          /\ Cardinality(Silent') <= Cardinality(Silent) + 1 /\ Cardinality(Partial') <= Cardinality(Partial)
      BY <1>2, <1>5, <1>6, <2>3
    <3>2. QED
      BY <1>1, <1>2, <1>4, <2>1, <3>1 DEF FailuresLoseOneEach
  <2>4. QED
    BY <1>1, <1>7, <2>2, <2>3, FailLosesOne
<1>8. CASE \A f \in Fiber : ~Fail(f)
  <2>1. failures' = failures
    BY <1>8 DEF Next, Spend, Import, Remove, Begin, FixHashes, Advance, FindAll, FetchAgain, Fetch, Create, FindOne,
       History, GetTransactions, SaveRemoval, PublishRemoval, FindUnhashed, FixFetch, FixSave, vars, world
  <2>2. Silent' \subseteq Silent /\ Partial' \subseteq Partial
    BY <1>1, <1>8, SilentStays, PartialStays
  <2>3. /\ Cardinality(Silent') \in Nat /\ Cardinality(Partial') \in Nat
        /\ Cardinality(Silent') <= Cardinality(Silent) /\ Cardinality(Partial') <= Cardinality(Partial)
    BY <1>2, <1>6, <2>2
  <2>4. /\ Cardinality(Silent) \in Nat /\ Cardinality(Partial) \in Nat
        /\ Cardinality(Silent) + Cardinality(Partial) <= failures
    BY <1>2, <1>4, FS_CardinalityType
  <2>5. Cardinality(Silent') + Cardinality(Partial') <= Cardinality(Silent) + Cardinality(Partial)
    BY <2>3, <2>4
  <2>6. Cardinality(Silent') + Cardinality(Partial') <= failures
    BY <1>1, <2>3, <2>4, <2>5
  <2>7. Cardinality(Silent') + Cardinality(Partial') <= failures'
    BY ONLY <2>1, <2>6
  <2>8. QED
    BY <1>1, <2>7 DEF LossInv, FailuresLoseOneEach
<1>9. QED
  BY <1>1, <1>7, <1>8 DEF LossInv

\* A removal that is never announced and a location whose interests are recorded in
\* part each need a failure of their own, a rejection or a stop between two steps of one
\* call: neither overlapping calls nor the script that corrects locations lose any.
THEOREM LossesNeedFailures == Spec => []FailuresLoseOneEach
<1>1. Spec => []RowsRepeat
  <2>1. IInv /\ RowsRepeat /\ RemovalsRepeat /\ [Next]_vars => RowsRepeat' /\ RemovalsRepeat'
    BY Writes, RowsStill, RowsGrow, RemovalsStill
  <2>2. QED
    BY <2>1, InitRepeats, Invariance, PTL DEF Spec
<1>2. IInv /\ RowsRepeat /\ LossInv /\ [Next]_vars => LossInv'
  BY LossesStay
<1>3. LossInv => FailuresLoseOneEach
  BY DEF LossInv
<1>4. QED
  BY <1>1, <1>2, <1>3, InitLosses, Invariance, PTL DEF Spec
=============================================================================
