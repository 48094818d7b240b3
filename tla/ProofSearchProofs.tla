------------------------- MODULE ProofSearchProofs -------------------------
(***************************************************************************)
(* Theorems about ProofSearch, for any jobs, spends and number of failures *)
(***************************************************************************)
EXTENDS ProofSearch, TLAPS

\* The processes have the fields the code gives them, and know only jobs and spends.
Shapes ==
  /\ chain \in [seen: SUBSET Spend, mined: Seq(Spend)]
  /\ watch \in [pc: {"off", "loaded", "polling", "on"}, map: SUBSET Job]
  /\ sweep \in [pc: {"off", "look", "import", "hung"}, jobs: SUBSET Job, todo: SUBSET Job,
                spend: SUBSET Spend, from: Nat]
  /\ script \in [pc: {"next", "proof", "close", "spend", "create"}, out: SUBSET Job,
                 job: SUBSET Job, spend: SUBSET Spend]
  /\ posting \subseteq Spend \X Job
  /\ proofs \in [Job -> SUBSET Spend]

SpendsOf(s, j) == \E o \in Inputs[s] : Tx[o] = Tx[j]

\* The repair script works on one row at a time, of the transaction it was asked about,
\* and what it is about to write spends an output of that transaction.
FoundSpends ==
  /\ \A j, k \in script.job : j = k
  /\ \A j \in script.out, k \in script.job : Tx[k] = Tx[j]
  /\ script.pc = "close" => \A k \in script.job : proofs[k] # {}
  /\ script.pc = "create" =>
       script.spend # {} /\ \A k \in script.job, s \in script.spend : SpendsOf(s, k)

\* The transaction at place i proves j, and is the first the query for j selects.
First(i, j) ==
  /\ chain.mined[i] \in Proof /\ Proves[chain.mined[i]] = j
  /\ \A n \in 1..(i - 1) : ~Matches(j, chain.mined[n])

\* A job the sweep has passed is closed, or its proof is the one it is about to import.
Passed ==
  \A i \in 1..sweep.from, j \in sweep.jobs \ sweep.todo :
    First(i, j) =>
      \/ row[j] = "spent"
      \/ sweep.pc = "import" /\ sweep.spend = {chain.mined[i]}
      \/ sweep.pc \notin {"look", "import"}

IInv == TypeOK /\ Shapes /\ FoundSpends /\ ProofsRedeemTheirJobs /\ Passed

LEMMA ConstantFacts ==
  /\ Job \subseteq Output /\ Proof \subseteq Spend
  /\ \A s \in Proof : Proves[s] \in Job /\ Proves[s] \in Inputs[s]
  /\ MaxFails \in Nat
  BY SearchAssumption

LEMMA InitIInv == Init => IInv
<1> SUFFICES ASSUME Init PROVE IInv
  OBVIOUS
<1> USE DEF Init, Idle, SweepOff, NextRedemption
<1>1. Shapes
  BY DEF Shapes
<1>2. TypeOK
  BY ConstantFacts DEF TypeOK, OnChain
<1>3. FoundSpends /\ ProofsRedeemTheirJobs
  BY DEF FoundSpends, ProofsRedeemTheirJobs
<1>4. Passed
  BY DEF Passed
<1>5. QED
  BY <1>1, <1>2, <1>3, <1>4 DEF IInv

-----------------------------------------------------------------------------
(* What a step may do to the chain and to the rows.                        *)

\* The chain grows at its end, rows and proofs only gain, and a proof that is added is a
\* spend the chain has, of the job itself unless the script wrote it.
RowsGain ==
  /\ row' \in [Job -> {"none", "open", "spent"}] /\ proofs' \in [Job -> SUBSET Spend]
  /\ chain' \in [seen: SUBSET Spend, mined: Seq(Spend)]
  /\ OnChain \subseteq OnChain' /\ Len(chain.mined) <= Len(chain'.mined)
  /\ \A i \in 1..Len(chain.mined) : chain'.mined[i] = chain.mined[i]
  /\ repaired \subseteq repaired' /\ repaired' \subseteq {j \in Job : proofs'[j] # {}}
  /\ \A j \in Job :
       /\ row[j] # "none" => row'[j] # "none"
       /\ row[j] = "spent" => row'[j] = "spent"
       /\ row'[j] = "spent" => row[j] = "spent" \/ proofs'[j] # {}
       /\ proofs[j] # {} => proofs'[j] # {}
       /\ proofs'[j] # {} => row'[j] # "none"
       /\ \A s \in proofs'[j] :
            \/ s \in proofs[j]
            \/ /\ s \in OnChain' /\ SpendsOf(s, j)
               /\ j \notin repaired' => s \in Proof /\ Proves[s] = j

LEMMA ProofsKeep == IInv /\ RowsGain => ProofsRedeemTheirJobs'
  BY DEF IInv, RowsGain, ProofsRedeemTheirJobs, SpendsOf

LEMMA SameRows == TypeOK /\ Shapes /\ UNCHANGED <<chain, rows>> => RowsGain
  BY DEF RowsGain, TypeOK, Shapes, OnChain, Mined, rows

LEMMA OpenRows == TypeOK => \A j \in Open : j \in Job /\ row[j] # "none"
  BY DEF TypeOK, Open

\* A step that takes in rows that exist and spends that are on the chain keeps the type.
LEMMA TypeKeeps ==
  ASSUME IInv, RowsGain, Shapes', fails' \in 0..MaxFails,
         watch'.map \subseteq watch.map \cup Open,
         sweep'.jobs \subseteq sweep.jobs \cup Open, sweep'.todo \subseteq sweep'.jobs,
         sweep'.from <= Len(chain'.mined),
         script'.job \subseteq script.job \cup Open,
         sweep'.spend \cup script'.spend \subseteq sweep.spend \cup script.spend \cup OnChain,
         \A p \in posting' : p \in posting \/ (p[1] \in OnChain' /\ p[2] \in Inputs[p[1]])
  PROVE  TypeOK'
<1>1. TypeOK /\ Shapes
  BY DEF IInv
<1>2. \A j \in watch'.map \cup sweep'.jobs \cup script'.job : row'[j] # "none"
  <2>1. \A j \in watch.map \cup sweep.jobs \cup script.job \cup Open : j \in Job /\ row[j] # "none"
    BY <1>1, OpenRows DEF TypeOK, Shapes
  <2>2. QED
    BY <2>1 DEF RowsGain
<1>3. /\ sweep'.spend \cup script'.spend \subseteq OnChain'
      /\ \A p \in posting' : p[1] \in OnChain' /\ p[2] \in Inputs[p[1]]
  BY <1>1 DEF TypeOK, RowsGain
<1>4. chain'.seen \subseteq Spend /\ chain'.mined \in Seq(Spend)
  BY DEF RowsGain
<1>5. sweep'.from \in 0..Len(chain'.mined)
  BY <1>4 DEF Shapes
<1>6. /\ watch'.pc \in {"off", "loaded", "polling", "on"}
      /\ sweep'.pc \in {"off", "look", "import", "hung"}
      /\ script'.pc \in {"next", "proof", "close", "spend", "create"}
  BY DEF Shapes
<1>7. /\ row' \in [Job -> {"none", "open", "spent"}]
      /\ \A j \in Job : proofs'[j] \subseteq Spend /\ (proofs'[j] # {} => row'[j] # "none")
      /\ repaired' \subseteq {j \in Job : proofs'[j] # {}}
  BY DEF RowsGain
<1>8. QED
  BY <1>2, <1>3, <1>4, <1>5, <1>6, <1>7 DEF TypeOK

\* What the script and the sweep know when they do not move.
LEMMA OthersKeep ==
  ASSUME IInv, RowsGain
  PROVE  /\ UNCHANGED script => FoundSpends'
         /\ UNCHANGED sweep => Passed' /\ sweep'.from <= Len(chain'.mined)
<1>1. TypeOK /\ Shapes /\ FoundSpends /\ Passed
  BY DEF IInv
<1>2. UNCHANGED script => FoundSpends'
  BY <1>1 DEF FoundSpends, SpendsOf, RowsGain, Shapes
<1>3. UNCHANGED sweep => sweep'.from <= Len(chain'.mined)
  BY <1>1 DEF RowsGain, TypeOK, Shapes
<1>4. ASSUME UNCHANGED sweep PROVE Passed'
  <2> SUFFICES ASSUME NEW i \in 1..sweep.from, NEW j \in sweep.jobs \ sweep.todo, First(i, j)'
               PROVE  \/ row'[j] = "spent"
                      \/ sweep.pc = "import" /\ sweep.spend = {chain'.mined[i]}
                      \/ sweep.pc \notin {"look", "import"}
    BY <1>4 DEF Passed
  <2>1. i \in 1..Len(chain.mined) /\ sweep.from \in Nat /\ j \in Job
    BY <1>1 DEF TypeOK, Shapes
  <2>2. \A n \in 1..i : chain'.mined[n] = chain.mined[n]
    BY <2>1 DEF RowsGain
  <2>3. First(i, j)
    BY <2>1, <2>2 DEF First, Matches
  <2>4. QED
    BY <1>1, <2>1, <2>2, <2>3 DEF Passed, RowsGain
<1>5. QED
  BY <1>2, <1>3, <1>4

\* An import of a spend that the chain has.
LEMMA ImportGains ==
  ASSUME IInv, NEW s \in Spend, s \in OnChain, UNCHANGED chain, Imports(s) \/ ImportNothing(s)
  PROVE  /\ RowsGain /\ fails' \in 0..MaxFails
         /\ fails' # fails \/ (s \in Proof /\ row[Proves[s]] # "none" => row'[Proves[s]] = "spent")
<1>a. TypeOK /\ Shapes /\ fails \in 0..MaxFails
  BY DEF IInv, TypeOK
<1>1. fails' \in 0..MaxFails
  BY <1>a, ConstantFacts DEF Imports, WritesProof, WritesBoth, ImportNothing, Fail
<1>2. CASE ImportNothing(s)
  <2>1. fails' # fails \/ s \notin Proof
    BY <1>a, <1>2 DEF ImportNothing, Fail
  <2>2. QED
    BY <1>a, <1>1, <1>2, <2>1, SameRows DEF ImportNothing
<1>3. CASE Imports(s)
  <2>1. PICK j \in Job : j = Proves[s]
    BY <1>3, ConstantFacts DEF Imports
  <2>2. s \in Proof /\ SpendsOf(s, j) /\ repaired' = repaired
    BY <1>3, <2>1, ConstantFacts DEF Imports, SpendsOf
  <2>3. /\ OnChain' = OnChain /\ chain' = chain
        /\ chain \in [seen: SUBSET Spend, mined: Seq(Spend)]
    BY <1>a DEF OnChain, Mined, Shapes
  <2>4. Len(chain.mined) \in Nat
    BY <2>3
  <2>5. /\ row \in [Job -> {"none", "open", "spent"}] /\ proofs \in [Job -> SUBSET Spend]
        /\ repaired \subseteq {k \in Job : proofs[k] # {}}
        /\ \A k \in Job : proofs[k] # {} => row[k] # "none"
    BY <1>a DEF TypeOK, Shapes
  <2>6. CASE row[j] # "none"
    <3>1. /\ proofs' = [proofs EXCEPT ![j] = IF @ = {} THEN {s} ELSE @]
          /\ \/ row' = [row EXCEPT ![j] = "spent"] /\ fails' = fails
             \/ Fail /\ row' = row
      BY <1>3, <2>1, <2>6 DEF Imports, WritesProof, Closed
    <3>2. fails' # fails \/ row' = [row EXCEPT ![j] = "spent"]
      BY <1>a, <3>1 DEF Fail
    <3>3. RowsGain
      BY <2>1, <2>2, <2>3, <2>4, <2>5, <2>6, <3>1 DEF RowsGain
    <3>4. QED
      BY <1>1, <2>1, <2>5, <3>2, <3>3
  <2>7. CASE row[j] = "none"
    <3>1. PICK found \in SUBSET Siblings(j) :
            /\ found # {} <=> \A k \in Siblings(j) : row[k] = "none"
            /\ IF j \in found
               THEN proofs' = [proofs EXCEPT ![j] = {s}] /\ UNCHANGED fails
               ELSE UNCHANGED <<proofs, fails>>
            /\ row' = [k \in Job |-> IF k \notin found THEN row[k]
                                      ELSE IF k = j THEN "spent" ELSE "open"]
      BY <1>3, <2>1, <2>7 DEF Imports, WritesBoth
    <3>2. \A k \in found : k \in Job /\ row[k] = "none" /\ proofs[k] = {}
      BY <2>5, <3>1 DEF Siblings
    <3>3. /\ row' \in [Job -> {"none", "open", "spent"}]
          /\ \A k \in Job : k \notin found => row'[k] = row[k]
          /\ \A k \in found : row'[k] # "none" /\ (k # j => row'[k] = "open")
      <4>1. row' = [k \in Job |-> IF k \notin found THEN row[k] ELSE IF k = j THEN "spent" ELSE "open"]
        BY <3>1
      <4>2. \A k \in Job : row[k] \in {"none", "open", "spent"}
        BY <2>5
      <4>3. QED
        BY ONLY <3>2, <4>1, <4>2
    <3>4. CASE j \in found
      <4>1. /\ proofs' \in [Job -> SUBSET Spend] /\ proofs'[j] = {s} /\ proofs[j] = {}
            /\ \A k \in Job : k # j => proofs'[k] = proofs[k]
        BY <2>5, <3>1, <3>2, <3>4
      <4>2. RowsGain
        BY <2>1, <2>2, <2>3, <2>4, <2>5, <3>2, <3>3, <3>4, <4>1 DEF RowsGain
      <4>3. QED
        BY <1>1, <2>1, <2>7, <4>2
    <3>5. CASE j \notin found
      <4>1. proofs' = proofs
        BY <3>1, <3>5
      <4>2. RowsGain
        BY <2>1, <2>2, <2>3, <2>4, <2>5, <3>2, <3>3, <3>5, <4>1 DEF RowsGain
      <4>3. QED
        BY <1>1, <2>1, <2>7, <4>2
    <3>6. QED
      BY <3>4, <3>5
  <2>8. QED
    BY <2>6, <2>7
<1>4. QED
  BY <1>2, <1>3

-----------------------------------------------------------------------------
(* The steps.                                                              *)

LEMMA ChainKeeps ==
  ASSUME IInv, \/ \E j \in Job : JobImported(j)
               \/ \E s \in Spend : Broadcast(s) \/ Mine(s)
               \/ \E s \in Spend, j \in Job : Posted(s, j)
  PROVE  IInv'
<1>a. TypeOK /\ Shapes /\ fails \in 0..MaxFails
  BY DEF IInv, TypeOK
<1>b. /\ chain \in [seen: SUBSET Spend, mined: Seq(Spend)]
      /\ row \in [Job -> {"none", "open", "spent"}] /\ proofs \in [Job -> SUBSET Spend]
      /\ repaired \subseteq {k \in Job : proofs[k] # {}}
      /\ \A k \in Job : proofs[k] # {} => row[k] # "none"
      /\ Len(chain.mined) \in Nat
  BY <1>a DEF TypeOK, Shapes
<1>c. ASSUME RowsGain, UNCHANGED <<watch, sweep, script>>, fails' \in 0..MaxFails,
             posting' \subseteq Spend \X Job,
             \A p \in posting' : p \in posting \/ (p[1] \in OnChain' /\ p[2] \in Inputs[p[1]])
      PROVE  IInv'
  <2>1. Shapes'
    BY <1>a, <1>c DEF Shapes, RowsGain
  <2>2. TypeOK'
    BY <1>a, <1>c, <2>1, TypeKeeps, OthersKeep DEF TypeOK
  <2>3. QED
    BY <1>c, <2>1, <2>2, OthersKeep, ProofsKeep DEF IInv
<1>1. ASSUME NEW j \in Job, JobImported(j) PROVE IInv'
  <2>1. /\ UNCHANGED <<chain, proofs, repaired, watch, posting, sweep, script, fails>>
        /\ row' = [row EXCEPT ![j] = "open"] /\ row[j] = "none"
    BY <1>1 DEF JobImported
  <2>2. OnChain' = OnChain
    BY <2>1 DEF OnChain, Mined
  <2>3. RowsGain
    BY <1>b, <2>1, <2>2 DEF RowsGain
  <2>4. QED
    BY <1>a, <1>c, <2>1, <2>3 DEF Shapes
<1>2. ASSUME NEW s \in Spend, Mine(s) PROVE IInv'
  <2>1. /\ UNCHANGED <<row, proofs, repaired, watch, posting, sweep, script, fails>>
        /\ s \in chain.seen
        /\ chain' = [seen |-> chain.seen \ {s}, mined |-> Append(chain.mined, s)]
    BY <1>2 DEF Mine, rows
  <2>2. /\ chain' \in [seen: SUBSET Spend, mined: Seq(Spend)]
        /\ Len(chain'.mined) = Len(chain.mined) + 1 /\ chain'.mined[Len(chain.mined) + 1] = s
        /\ \A i \in 1..Len(chain.mined) : chain'.mined[i] = chain.mined[i]
        /\ chain'.seen = chain.seen \ {s}
    BY <1>b, <2>1
  <2>3. Mined \subseteq Mined' /\ s \in Mined'
    BY <1>b, <2>2 DEF Mined
  <2>4. OnChain \subseteq OnChain'
    BY <2>2, <2>3 DEF OnChain
  <2>5. RowsGain
    BY <1>b, <2>1, <2>2, <2>4 DEF RowsGain
  <2>6. QED
    BY <1>a, <1>c, <2>1, <2>5 DEF Shapes
<1>3. ASSUME NEW s \in Spend, Broadcast(s) PROVE IInv'
  <2>1. /\ UNCHANGED <<row, proofs, repaired, watch, sweep, script, fails>>
        /\ chain' = [chain EXCEPT !.seen = @ \union {s}]
        /\ posting' = posting \cup (IF watch.pc = "on" THEN {s} \X (Inputs[s] \cap watch.map) ELSE {})
    BY <1>3 DEF Broadcast, rows
  <2>2. /\ chain' \in [seen: SUBSET Spend, mined: Seq(Spend)]
        /\ chain'.mined = chain.mined /\ chain'.seen = chain.seen \cup {s}
    BY <1>b, <2>1
  <2>3. OnChain \subseteq OnChain' /\ s \in OnChain'
    BY <2>2 DEF OnChain, Mined
  <2>4. RowsGain
    BY <1>b, <2>1, <2>2, <2>3 DEF RowsGain
  <2>5. /\ posting' \subseteq Spend \X Job
        /\ \A p \in posting' : p \in posting \/ (p[1] \in OnChain' /\ p[2] \in Inputs[p[1]])
    <3>1. watch.map \subseteq Job /\ posting \subseteq Spend \X Job
      BY <1>a DEF Shapes
    <3>2. \A p \in posting' : p \in posting \/ p \in {s} \X (Inputs[s] \cap watch.map)
      BY <2>1
    <3>3. QED
      BY <2>3, <3>1, <3>2
  <2>6. QED
    BY <1>a, <1>c, <2>1, <2>4, <2>5
<1>4. ASSUME NEW s \in Spend, NEW j \in Job, Posted(s, j) PROVE IInv'
  <2>1. /\ <<s, j>> \in posting /\ posting' \subseteq posting
        /\ Imports(s) \/ ImportNothing(s)
        /\ UNCHANGED <<chain, watch, sweep, script>>
    BY <1>4 DEF Posted
  <2>2. s \in OnChain
    BY <1>a, <2>1 DEF TypeOK
  <2>3. RowsGain /\ fails' \in 0..MaxFails
    BY <2>1, <2>2, ImportGains
  <2>4. QED
    BY <1>a, <1>c, <2>1, <2>3 DEF Shapes
<1>5. QED
  BY <1>1, <1>2, <1>3, <1>4

LEMMA WatchKeeps ==
  ASSUME IInv, Load \/ LoadFails \/ Subscribe \/ StopWatch
  PROVE  IInv'
<1>a. TypeOK /\ Shapes
  BY DEF IInv
<1>1. /\ UNCHANGED <<chain, rows, sweep, script>>
      /\ posting' \subseteq posting
      /\ watch' \in [pc: {"off", "loaded", "polling", "on"}, map: SUBSET Job]
      /\ watch'.map \subseteq watch.map \cup Open
      /\ fails' \in 0..MaxFails
  <2>1. CASE Load
    BY <1>a, <2>1, OpenRows DEF Load, TypeOK, Shapes
  <2>2. CASE LoadFails
    BY <1>a, <2>2, ConstantFacts DEF LoadFails, Fail, Idle, TypeOK, Shapes
  <2>3. CASE Subscribe
    BY <1>a, <2>3 DEF Subscribe, TypeOK, Shapes
  <2>4. CASE StopWatch
    BY <1>a, <2>4, ConstantFacts DEF StopWatch, Fail, Idle, TypeOK, Shapes
  <2>5. QED
    BY <2>1, <2>2, <2>3, <2>4
<1>2. RowsGain
  BY <1>a, <1>1, SameRows
<1>3. Shapes'
  BY <1>a, <1>1, <1>2 DEF Shapes, RowsGain
<1>4. TypeOK'
  BY <1>a, <1>1, <1>2, <1>3, TypeKeeps, OthersKeep DEF TypeOK
<1>5. QED
  BY <1>1, <1>2, <1>3, <1>4, OthersKeep, ProofsKeep DEF IInv

\* The first result for a job whose proof is the first match is that proof.
LEMMA FirstIsFound ==
  ASSUME IInv, NEW j \in Job, NEW i \in 1..Len(chain.mined), First(i, j)
  PROVE  FirstResult(j) = {chain.mined[i]} /\ j \in Inputs[chain.mined[i]]
<1>1. chain.mined \in Seq(Spend) /\ Len(chain.mined) \in Nat /\ DOMAIN chain.mined = 1..Len(chain.mined)
  BY DEF IInv, Shapes
<1>2. j \in Inputs[chain.mined[i]]
  BY ConstantFacts DEF First
<1>3. Matches(j, chain.mined[i])
  BY <1>2 DEF Matches
<1> DEFINE found == {n \in DOMAIN chain.mined : Matches(j, chain.mined[n])}
<1>4. i \in found /\ \A n \in found : n \in Nat /\ i <= n
  BY <1>1, <1>3 DEF First
<1>5. {m \in found : \A n \in found : m <= n} = {i}
  BY <1>1, <1>4
<1>6. FirstResult(j) = {chain.mined[m] : m \in {m \in found : \A n \in found : m <= n}}
  BY DEF FirstResult
<1> HIDE DEF found
<1>7. QED
  BY <1>2, <1>5, <1>6

\* An element of the first result is a mined transaction.
LEMMA ResultsAreMined ==
  ASSUME IInv, NEW j \in Job
  PROVE  FirstResult(j) \subseteq OnChain /\ FirstResult(j) \subseteq Spend
<1>1. chain.mined \in Seq(Spend)
  BY DEF IInv, Shapes
<1>2. QED
  BY <1>1 DEF FirstResult, OnChain, Mined

LEMMA SweepKeeps ==
  ASSUME IInv, Sweeping
  PROVE  IInv'
<1>a. TypeOK /\ Shapes /\ FoundSpends /\ Passed /\ fails \in 0..MaxFails
  BY DEF IInv, TypeOK
<1> DEFINE Sweeps == [pc: {"off", "look", "import", "hung"}, jobs: SUBSET Job, todo: SUBSET Job,
                      spend: SUBSET Spend, from: Nat]
<1>b. sweep \in Sweeps /\ Len(chain.mined) \in Nat /\ sweep.from <= Len(chain.mined)
      /\ sweep.todo \subseteq sweep.jobs
  BY <1>a DEF TypeOK, Shapes
<1>c. ASSUME UNCHANGED <<chain, watch, posting, script>>, RowsGain, fails' \in 0..MaxFails,
             sweep' \in Sweeps, sweep'.jobs \subseteq sweep.jobs \cup Open,
             sweep'.todo \subseteq sweep'.jobs, sweep'.from <= Len(chain.mined),
             sweep'.spend \subseteq sweep.spend \cup OnChain, Passed'
      PROVE  IInv'
  <2>1. Shapes'
    BY <1>a, <1>c DEF Shapes, RowsGain
  <2>2. TypeOK'
    BY <1>a, <1>c, <2>1, TypeKeeps
  <2>3. QED
    BY <1>c, <2>1, <2>2, OthersKeep, ProofsKeep DEF IInv
<1>1. CASE StartSweep
  <2>1. /\ UNCHANGED <<chain, rows, watch, posting, script, fails>>
        /\ sweep' = [pc |-> "look", jobs |-> Open, todo |-> Open, spend |-> {}, from |-> Len(chain.mined)]
    BY <1>1 DEF StartSweep
  <2>2. Passed'
    BY <2>1 DEF Passed
  <2>3. sweep' \in Sweeps
    BY <1>a, <1>b, <2>1, OpenRows
  <2>4. QED
    BY <1>a, <1>b, <1>c, <2>1, <2>2, <2>3, SameRows
<1>2. CASE EndSweep \/ KillSweep
  <2>1. UNCHANGED <<chain, rows, watch, posting, script, fails>> /\ sweep' = SweepOff
    BY <1>2 DEF EndSweep, KillSweep
  <2>2. Passed'
    BY <2>1 DEF Passed, SweepOff
  <2>3. sweep' \in Sweeps
    BY <2>1 DEF SweepOff
  <2>4. QED
    BY <1>a, <1>b, <1>c, <2>1, <2>2, <2>3, SameRows DEF SweepOff
<1>3. CASE GetSpendingHangs
  <2>1. /\ UNCHANGED <<chain, rows, watch, posting, script>> /\ fails' \in 0..MaxFails
        /\ sweep' = [sweep EXCEPT !.pc = "hung"]
    BY <1>a, <1>3, ConstantFacts DEF GetSpendingHangs, Fail
  <2>2. /\ sweep' \in Sweeps /\ sweep'.pc = "hung" /\ sweep'.jobs = sweep.jobs
        /\ sweep'.todo = sweep.todo /\ sweep'.from = sweep.from /\ sweep'.spend = sweep.spend
    BY <1>b, <2>1
  <2>3. Passed'
    BY <2>2 DEF Passed
  <2>4. QED
    BY <1>a, <1>b, <1>c, <2>1, <2>2, <2>3, SameRows
<1>4. ASSUME NEW j \in Job, GetSpendingTransaction(j) PROVE IInv'
  <2> DEFINE result == {s \in FirstResult(j) : j \in Inputs[s]}
  <2>1. /\ UNCHANGED <<chain, rows, watch, posting, script, fails>>
        /\ sweep.pc = "look" /\ j \in sweep.todo
        /\ sweep' = [sweep EXCEPT !.pc = IF result = {} THEN "look" ELSE "import",
                                  !.todo = @ \ {j}, !.spend = result]
    BY <1>4 DEF GetSpendingTransaction
  <2>2. result \subseteq OnChain /\ result \subseteq Spend
    BY ResultsAreMined
  <2>3. \A i \in 1..Len(chain.mined) : First(i, j) => result = {chain.mined[i]}
    BY FirstIsFound
  <2> HIDE DEF result
  <2>4. /\ sweep' \in Sweeps /\ sweep'.jobs = sweep.jobs /\ sweep'.todo = sweep.todo \ {j}
        /\ sweep'.from = sweep.from /\ sweep'.spend = result
        /\ sweep'.pc = IF result = {} THEN "look" ELSE "import"
    BY <1>b, <2>1, <2>2
  <2>5. Passed'
    <3> SUFFICES ASSUME NEW i \in 1..sweep.from, NEW k \in sweep.jobs \ (sweep.todo \ {j}), First(i, k)'
                 PROVE  row'[k] = "spent" \/ (sweep'.pc = "import" /\ sweep'.spend = {chain.mined[i]})
      BY <2>1, <2>4 DEF Passed
    <3>1. First(i, k) /\ i \in 1..Len(chain.mined)
      BY <1>b, <2>1 DEF First
    <3>2. CASE k = j
      BY <2>3, <2>4, <3>1, <3>2
    <3>3. CASE k # j
      <4>1. row[k] = "spent"
        BY <1>a, <2>1, <3>1, <3>3 DEF Passed
      <4>2. QED
        BY <2>1, <4>1 DEF rows
    <3>4. QED
      BY <3>2, <3>3
  <2>6. QED
    BY <1>a, <1>b, <1>c, <2>1, <2>2, <2>4, <2>5, SameRows
<1>5. ASSUME NEW s \in Spend, ImportFound(s) PROVE IInv'
  <2>1. /\ sweep.pc = "import" /\ s \in sweep.spend /\ UNCHANGED <<chain, watch, posting, script>>
        /\ Imports(s) \/ ImportNothing(s)
        /\ sweep' = IF fails' # fails THEN SweepOff ELSE [sweep EXCEPT !.pc = "look", !.spend = {}]
    BY <1>5 DEF ImportFound
  <2>2. s \in OnChain
    BY <1>a, <2>1 DEF TypeOK
  <2>3. /\ RowsGain /\ fails' \in 0..MaxFails
        /\ fails' # fails \/ (s \in Proof /\ row[Proves[s]] # "none" => row'[Proves[s]] = "spent")
    BY <2>1, <2>2, ImportGains
  <2>4. CASE fails' # fails
    <3>1. sweep' = SweepOff
      BY <2>1, <2>4
    <3>2. Passed' /\ sweep' \in Sweeps
      BY <3>1 DEF Passed, SweepOff
    <3>3. QED
      BY <1>b, <1>c, <2>1, <2>3, <3>1, <3>2 DEF SweepOff
  <2>5. CASE fails' = fails
    <3>1. /\ sweep' \in Sweeps /\ sweep'.jobs = sweep.jobs /\ sweep'.todo = sweep.todo
          /\ sweep'.from = sweep.from /\ sweep'.spend = {} /\ sweep'.pc = "look"
      BY <1>b, <2>1, <2>5
    <3>2. Passed'
      <4> SUFFICES ASSUME NEW i \in 1..sweep.from, NEW k \in sweep.jobs \ sweep.todo, First(i, k)'
                   PROVE  row'[k] = "spent"
        BY <3>1 DEF Passed
      <4>1. First(i, k)
        BY <2>1 DEF First
      <4>2. k \in Job /\ row[k] # "none"
        BY <1>a, <1>b DEF TypeOK
      <4>3. CASE row[k] = "spent"
        BY <2>3, <4>2, <4>3 DEF RowsGain
      <4>4. CASE sweep.spend = {chain.mined[i]}
        BY <2>1, <2>3, <2>5, <4>1, <4>2, <4>4 DEF First
      <4>5. QED
        BY <1>a, <2>1, <4>1, <4>3, <4>4 DEF Passed
    <3>3. QED
      BY <1>b, <1>c, <2>1, <2>3, <3>1, <3>2
  <2>6. QED
    BY <2>4, <2>5
<1>6. QED
  BY <1>1, <1>2, <1>3, <1>4, <1>5 DEF Sweeping

LEMMA ScriptKeeps ==
  ASSUME IInv, Repairing
  PROVE  IInv'
<1>a. TypeOK /\ Shapes /\ FoundSpends /\ fails \in 0..MaxFails
  BY DEF IInv, TypeOK
<1> DEFINE Scripts == [pc: {"next", "proof", "close", "spend", "create"}, out: SUBSET Job,
                       job: SUBSET Job, spend: SUBSET Spend]
<1>b. /\ script \in Scripts
      /\ chain \in [seen: SUBSET Spend, mined: Seq(Spend)] /\ Len(chain.mined) \in Nat
      /\ row \in [Job -> {"none", "open", "spent"}] /\ proofs \in [Job -> SUBSET Spend]
      /\ repaired \subseteq {k \in Job : proofs[k] # {}}
      /\ \A k \in Job : proofs[k] # {} => row[k] # "none"
  BY <1>a DEF TypeOK, Shapes
<1>c. ASSUME UNCHANGED <<chain, watch, posting, sweep, fails>>, RowsGain,
             script' \in Scripts, script'.job \subseteq script.job \cup Open,
             script'.spend \subseteq script.spend \cup OnChain, FoundSpends'
      PROVE  IInv'
  <2>1. Shapes'
    BY <1>a, <1>c DEF Shapes, RowsGain
  <2>2. TypeOK'
    BY <1>a, <1>c, <2>1, TypeKeeps, OthersKeep DEF TypeOK
  <2>3. QED
    BY <1>c, <2>1, <2>2, OthersKeep, ProofsKeep DEF IInv
<1>d. script' = NextRedemption => script' \in Scripts /\ script'.job = {} /\ script'.spend = {} /\ FoundSpends'
  BY DEF NextRedemption, FoundSpends
<1>1. ASSUME NEW j \in Job, FindJob(j) PROVE IInv'
  <2>1. PICK k \in Siblings(j) \cap Open :
             script' = [script EXCEPT !.pc = "proof", !.out = {j}, !.job = {k}]
    BY <1>1 DEF FindJob
  <2>2. k \in Job /\ Tx[k] = Tx[j] /\ UNCHANGED <<chain, rows, watch, posting, sweep, fails>>
    BY <1>1, <2>1 DEF Siblings, FindJob
  <2>3. /\ script' \in Scripts /\ script'.pc = "proof" /\ script'.out = {j} /\ script'.job = {k}
        /\ script'.spend = script.spend
    BY <1>b, <2>1, <2>2
  <2>4. FoundSpends'
    BY <2>2, <2>3 DEF FoundSpends
  <2>5. QED
    BY <1>a, <1>c, <2>1, <2>2, <2>3, <2>4, SameRows
<1>2. ASSUME NEW k \in Job, FindProof(k) PROVE IInv'
  <2>1. /\ UNCHANGED <<chain, rows, watch, posting, sweep, fails>> /\ k \in script.job
        /\ script' = [script EXCEPT !.pc = IF proofs[k] # {} THEN "close" ELSE "spend"]
    BY <1>2 DEF FindProof
  <2>2. /\ script' \in Scripts /\ script'.pc = (IF proofs[k] # {} THEN "close" ELSE "spend")
        /\ script'.out = script.out /\ script'.job = script.job /\ script'.spend = script.spend
    BY <1>b, <2>1
  <2>3. FoundSpends'
    BY <1>a, <2>1, <2>2 DEF FoundSpends, rows
  <2>4. QED
    BY <1>a, <1>c, <2>1, <2>2, <2>3, SameRows
<1>3. ASSUME NEW k \in Job, SaveJob(k) PROVE IInv'
  <2>1. /\ UNCHANGED <<chain, proofs, repaired, watch, posting, sweep, fails>>
        /\ script' = NextRedemption
        /\ row' = [row EXCEPT ![k] = "spent"] \/ row' = row
    BY <1>3 DEF SaveJob, Closed
  <2>2. proofs[k] # {} /\ row[k] # "none"
    BY <1>a, <1>b, <1>3 DEF SaveJob, FoundSpends
  <2>3. OnChain' = OnChain
    BY <2>1 DEF OnChain, Mined
  <2>4. RowsGain
    BY <1>b, <2>1, <2>2, <2>3 DEF RowsGain
  <2>5. QED
    BY <1>c, <1>d, <2>1, <2>4
<1>4. ASSUME NEW k \in Job, FindSpend(k) PROVE IInv'
  <2>1. /\ UNCHANGED <<chain, rows, watch, posting, sweep, fails>> /\ k \in script.job
    BY <1>4 DEF FindSpend
  <2>2. CASE script' = NextRedemption
    BY <1>a, <1>c, <1>d, <2>1, <2>2, SameRows
  <2>3. ASSUME NEW j \in script.out, NEW s \in Spend, SpendsOutputOf(j, s),
               script' = [script EXCEPT !.pc = "create", !.spend = {s}]
        PROVE  IInv'
    <3>1. /\ script' \in Scripts /\ script'.pc = "create" /\ script'.out = script.out
          /\ script'.job = script.job /\ script'.spend = {s}
      BY <1>b, <2>3
    <3>2. s \in OnChain /\ \A l \in script.job : SpendsOf(s, l)
      BY <1>a, <2>3 DEF SpendsOutputOf, SpendsOf, FoundSpends
    <3>3. FoundSpends'
      BY <1>a, <3>1, <3>2 DEF FoundSpends, SpendsOf
    <3>4. QED
      BY <1>a, <1>c, <2>1, <3>1, <3>2, <3>3, SameRows
  <2>4. QED
    BY <1>4, <2>2, <2>3 DEF FindSpend
<1>5. ASSUME NEW k \in Job, CreateProof(k) PROVE IInv'
  <2>1. /\ UNCHANGED <<chain, row, watch, posting, sweep, fails>>
        /\ script.pc = "create" /\ k \in script.job /\ script' = NextRedemption
    BY <1>5 DEF CreateProof
  <2>2. CASE proofs[k] # {}
    <3>1. UNCHANGED rows
      BY <1>5, <2>1, <2>2 DEF CreateProof, rows
    <3>2. QED
      BY <1>a, <1>c, <1>d, <2>1, <3>1, SameRows
  <2>3. CASE proofs[k] = {}
    <3>1. proofs' = [proofs EXCEPT ![k] = script.spend] /\ repaired' = repaired \cup {k}
      BY <1>5, <2>3 DEF CreateProof
    <3>2. /\ row[k] # "none" /\ script.spend \subseteq OnChain /\ script.spend \subseteq Spend
          /\ script.spend # {} /\ \A s \in script.spend : SpendsOf(s, k)
      BY <1>a, <2>1 DEF TypeOK, Shapes, FoundSpends
    <3>3. /\ proofs' \in [Job -> SUBSET Spend] /\ proofs'[k] = script.spend
          /\ \A j \in Job : j # k => proofs'[j] = proofs[j]
      BY <1>b, <3>1, <3>2
    <3>4. OnChain' = OnChain
      BY <2>1 DEF OnChain, Mined
    <3>5. RowsGain
      BY <1>b, <2>1, <2>3, <3>1, <3>2, <3>3, <3>4 DEF RowsGain
    <3>6. QED
      BY <1>c, <1>d, <2>1, <3>5
  <2>4. QED
    BY <2>2, <2>3
<1>6. CASE CreateFails
  BY <1>a, <1>c, <1>d, <1>6, SameRows DEF CreateFails
<1>7. QED
  BY <1>1, <1>2, <1>3, <1>4, <1>5, <1>6 DEF Repairing

-----------------------------------------------------------------------------

LEMMA StepIInv == IInv /\ [Next]_vars => IInv'
<1> SUFFICES ASSUME IInv, [Next]_vars PROVE IInv'
  OBVIOUS
<1>1. CASE UNCHANGED vars
  <2>1. TypeOK' /\ Shapes' /\ FoundSpends'
    BY <1>1 DEF vars, IInv, TypeOK, Shapes, FoundSpends, OnChain, Mined
  <2>2. ProofsRedeemTheirJobs' /\ Passed'
    BY <1>1 DEF vars, IInv, ProofsRedeemTheirJobs, Passed, First, OnChain, Mined
  <2>3. QED
    BY <2>1, <2>2 DEF IInv
<1>2. QED
  BY <1>1, ChainKeeps, WatchKeeps, SweepKeeps, ScriptKeeps DEF Next

LEMMA Always == Spec => []IInv
  BY InitIInv, StepIInv, PTL DEF Spec

\* Type correctness, for any jobs, spends and failures.
THEOREM SearchTypeCorrect == Spec => []TypeOK
  BY Always, PTL DEF IInv

\* What the listener, the sweep or an import of importBoostProof() wrote proves the very
\* job; a proof of the script spends an output of the job's transaction at least.
THEOREM ProofsAreOfTheirJobs == Spec => []ProofsRedeemTheirJobs
  BY Always, PTL DEF IInv

\* A sweep of find_all_missing_proofs.ts that goes on has closed each job it passed whose
\* proof was mined before it began and heads the results of the query for it.
THEOREM SweepsClose == Spec => []SweepsCloseWhatTheyPass
<1>1. IInv => SweepsCloseWhatTheyPass
  <2> SUFFICES ASSUME IInv, sweep.pc = "look", NEW i \in 1..sweep.from, NEW j \in sweep.jobs \ sweep.todo,
                      First(i, j)
               PROVE  row[j] = "spent"
    BY DEF SweepsCloseWhatTheyPass, First
  <2>1. QED
    BY DEF IInv, Passed
<1>2. QED
  BY <1>1, Always, PTL
=============================================================================
