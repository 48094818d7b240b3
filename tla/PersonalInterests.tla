-------------------------- MODULE PersonalInterests --------------------------
(***************************************************************************)
(* The table of personal interests: contracts on chain that are recorded   *)
(* when somebody first asks for their location, and marked as removed when *)
(* somebody reports that their output was spent.                           *)
(*                                                                         *)
(* A Fiber is one call of findOrImportPersonalInterests, of removeInterest *)
(* or of the script get_script_hashes, in the server or on the command     *)
(* line.  There is one action for each awaited operation with the          *)
(* synchronous code after it.  The table has no unique index, so a row is  *)
(* known by its place in it.                                               *)
(***************************************************************************)
EXTENDS Integers, Sequences, FiniteSets

CONSTANTS
  Output,     \* outputs that hold an interest
  Tx,         \* the transactions they are in
  Detected,   \* [Tx -> Seq(Output)], the interests detect() finds, in order
  Location,   \* a transaction, with or without _vout
  Asked,      \* the locations that requests name
  TxOf,       \* [Location -> Tx]
  At,         \* [Location -> Output or None], the output it points at
  Place,      \* [Output -> Location], its location with the vout
  Removal,    \* transactions that spend interests
  Inputs,     \* [Removal -> SUBSET Output], what they spend
  PaysTo,     \* [Removal -> SUBSET Output], whose scripts they pay to
  Legacy,     \* rows from before the column script_hash
  Fiber,
  Failures,   \* bound of the operations that reject, or processes that stop
  None

Interest == [out: Output, origin: Location, location: Location, hashed: BOOLEAN,
             removal_location: Removal \cup {None}, active: BOOLEAN]

ASSUME InterestAssumption ==
  /\ Detected \in [Tx -> Seq(Output)]
  /\ Asked \subseteq Location
  /\ TxOf \in [Location -> Tx]
  /\ At \in [Location -> Output \cup {None}]
  /\ Place \in [Output -> Location]
  /\ \A o \in Output : At[Place[o]] = o
  /\ \A l \in Location : At[l] # None => \E i \in DOMAIN Detected[TxOf[l]] : Detected[TxOf[l]][i] = At[l]
  /\ \A t \in Tx : \A i \in DOMAIN Detected[t] : TxOf[Place[Detected[t][i]]] = t
  /\ \A t \in Tx : \A i, j \in DOMAIN Detected[t] : Detected[t][i] = Detected[t][j] => i = j
  /\ Inputs \in [Removal -> SUBSET Output]
  /\ PaysTo \in [Removal -> SUBSET Output]
  /\ Legacy \in Seq(Interest)
  /\ \A i \in DOMAIN Legacy :
       /\ ~Legacy[i].hashed /\ Legacy[i].active /\ Legacy[i].removal_location = None
  /\ IsFiniteSet(Fiber)
  /\ Failures \in Nat
  /\ None \notin Output \cup Removal

VARIABLES
  chain,      \* the removals on chain
  rows,       \* PersonalInterests, in the order of insertion
  removals,   \* how often personal-interest.removed was published, by row
  pc,         \* the operation each fiber awaits
  asked,      \* the location it was asked for
  row,        \* the row it works on
  hist,       \* the removals in the history of its script
  left,       \* outputs left to record
  todo,       \* rows left to look at
  failures    \* operations that have failed

world == <<chain, failures>>
table == <<rows, removals>>
local == <<asked, row, hist, left, todo>>
vars  == <<world, table, pc, local>>

Step == {"idle", "findAll", "fetch", "create", "fetchAgain", "findOne", "history",
         "transactions", "save", "publish", "findUnhashed", "fixFetch", "fixSave"}

Init ==
  /\ chain = {}
  /\ rows = Legacy
  /\ removals = [i \in DOMAIN Legacy |-> 0]
  /\ pc = [f \in Fiber |-> "idle"]
  /\ asked = [f \in Fiber |-> None]
  /\ row = [f \in Fiber |-> 0]
  /\ hist = [f \in Fiber |-> {}]
  /\ left = [f \in Fiber |-> <<>>]
  /\ todo = [f \in Fiber |-> {}]
  /\ failures = 0

Goto(f, step) == pc' = [pc EXCEPT ![f] = step]

\* The call is answered, with a result or an error.
Done(f) ==
  /\ Goto(f, "idle")
  /\ asked' = [asked EXCEPT ![f] = None]
  /\ row' = [row EXCEPT ![f] = 0]
  /\ hist' = [hist EXCEPT ![f] = {}]
  /\ left' = [left EXCEPT ![f] = <<>>]
  /\ todo' = [todo EXCEPT ![f] = {}]

Begin(f, step, l) ==
  /\ pc[f] = "idle"
  /\ Goto(f, step)
  /\ asked' = [asked EXCEPT ![f] = l]
  /\ UNCHANGED <<world, table, row, hist, left, todo>>

\* What a query answers.  None of them asks for an order.
RowsAt(location) == {i \in DOMAIN rows : rows[i].location = location}
Unhashed == {i \in DOMAIN rows : ~rows[i].hashed}

-----------------------------------------------------------------------------
(* findOrImportPersonalInterests.                                          *)

\* GET /personal-interests/{txid}, and the commands ingest and correct-locations,
\* which makes one such call for each row.
Import(f, l) == Begin(f, "findAll", l)

FindAll(f) ==
  /\ pc[f] = "findAll"
  /\ LET found == RowsAt(asked[f])
     IN \/ found = {} /\ Goto(f, "fetch") /\ UNCHANGED local
        \/ /\ found \cap Unhashed # {}
           /\ Goto(f, "fetchAgain")
           /\ todo' = [todo EXCEPT ![f] = found \cap Unhashed]
           /\ UNCHANGED <<asked, row, hist, left>>
        \/ found # {} /\ found \cap Unhashed = {} /\ Done(f)
  /\ UNCHANGED <<world, table>>

\* A row without a script hash is looked up again, but the vout of an output is
\* never the string in the location: nothing is saved.
FetchAgain(f) ==
  /\ pc[f] = "fetchAgain"
  /\ \E i \in todo[f] :
       \/ todo[f] = {i} /\ Done(f)
       \/ /\ todo[f] # {i}
          /\ todo' = [todo EXCEPT ![f] = @ \ {i}]
          /\ UNCHANGED <<pc, asked, row, hist, left>>
  /\ UNCHANGED <<world, table>>

Fetch(f) ==
  /\ pc[f] = "fetch"
  /\ LET found == Detected[TxOf[asked[f]]] IN
       \/ found = <<>> /\ Done(f)
       \/ /\ found # <<>>
          /\ Goto(f, "create")
          /\ left' = [left EXCEPT ![f] = found]
          /\ UNCHANGED <<asked, row, hist, todo>>
  /\ UNCHANGED <<world, table>>

\* Broken: only the first interest of the transaction is recorded.
CreateFirst(f) ==
  /\ pc[f] = "create"
  /\ rows' = Append(rows, [out |-> Head(left[f]), origin |-> asked[f], location |-> asked[f],
                           hashed |-> TRUE, removal_location |-> None, active |-> TRUE])
  /\ removals' = Append(removals, 0)
  /\ Done(f)
  /\ UNCHANGED world

\* One row per interest of the transaction, all at the location that was asked for.
\* The events that announce them are left out.
Create(f) ==
  /\ pc[f] = "create"
  /\ rows' = Append(rows, [out |-> Head(left[f]), origin |-> asked[f], location |-> asked[f],
                           hashed |-> TRUE, removal_location |-> None, active |-> TRUE])
  /\ removals' = Append(removals, 0)
  /\ \/ Len(left[f]) = 1 /\ Done(f)
     \/ /\ Len(left[f]) > 1
        /\ left' = [left EXCEPT ![f] = Tail(@)]
        /\ UNCHANGED <<pc, asked, row, hist, todo>>
  /\ UNCHANGED world

-----------------------------------------------------------------------------
(* removeInterest.                                                         *)

\* GET /personal-interests/{current_location}/removals and the command remove;
\* the command getspend does the same up to the save.
Remove(f, l) == Begin(f, "findOne", l)

\* Broken: a row that was removed is looked up like any other.
FindOneAgain(f) ==
  /\ pc[f] = "findOne"
  /\ \/ RowsAt(asked[f]) = {} /\ Done(f)
     \/ \E i \in RowsAt(asked[f]) :
          \/ ~rows[i].hashed /\ Done(f)
          \/ /\ rows[i].hashed
             /\ Goto(f, "history")
             /\ row' = [row EXCEPT ![f] = i]
             /\ UNCHANGED <<asked, hist, left, todo>>
  /\ UNCHANGED <<world, table>>

\* getRemoval: any row at the location.  No row, or one without a script hash, is
\* an error; one that was removed is the answer.
FindOne(f) ==
  /\ pc[f] = "findOne"
  /\ \/ RowsAt(asked[f]) = {} /\ Done(f)
     \/ \E i \in RowsAt(asked[f]) :
          \/ (rows[i].removal_location # None \/ ~rows[i].hashed) /\ Done(f)
          \/ /\ rows[i].removal_location = None /\ rows[i].hashed
             /\ Goto(f, "history")
             /\ row' = [row EXCEPT ![f] = i]
             /\ UNCHANGED <<asked, hist, left, todo>>
  /\ UNCHANGED <<world, table>>

\* getSpend asks for the history of the script of the row ...
History(f) ==
  /\ pc[f] = "history"
  /\ hist' = [hist EXCEPT ![f] = {r \in chain : rows[row[f]].out \in Inputs[r] \cup PaysTo[r]}]
  /\ Goto(f, "transactions")
  /\ UNCHANGED <<world, table, asked, row, left, todo>>

\* Broken: any transaction of the history counts as the spend.
GetAnyTransaction(f) ==
  /\ pc[f] = "transactions"
  /\ \/ hist[f] = {} /\ Done(f)
     \/ \E r \in hist[f] :
          /\ hist' = [hist EXCEPT ![f] = {r}]
          /\ Goto(f, "save")
          /\ UNCHANGED <<asked, row, left, todo>>
  /\ UNCHANGED <<world, table>>

\* ... and for its transactions, all at once: the one with an input at the location
\* is the spend.  A location without a vout matches no input.
GetTransactions(f) ==
  /\ pc[f] = "transactions"
  /\ LET spends == {r \in hist[f] : At[asked[f]] \in Inputs[r]} IN
       \/ spends = {} /\ Done(f)
       \/ \E r \in spends :
            /\ hist' = [hist EXCEPT ![f] = {r}]
            /\ Goto(f, "save")
            /\ UNCHANGED <<asked, row, left, todo>>
  /\ UNCHANGED <<world, table>>

\* removeInterest checks removal_location of the instance that getRemoval read ...
SaveRemoval(f) ==
  /\ pc[f] = "save"
  /\ \E r \in hist[f] :
       rows' = [rows EXCEPT ![row[f]].removal_location = r, ![row[f]].active = FALSE]
  /\ Goto(f, "publish")
  /\ UNCHANGED <<world, removals, local>>

\* ... and announces the removal once the save has resolved: nothing announces it
\* later, since the next call finds the row removed.
PublishRemoval(f) ==
  /\ pc[f] = "publish"
  /\ removals' = [removals EXCEPT ![row[f]] = @ + 1]
  /\ Done(f)
  /\ UNCHANGED <<world, rows>>

-----------------------------------------------------------------------------
(* The script get_script_hashes.                                           *)

FixHashes(f) ==
  /\ pc[f] = "idle"
  /\ Goto(f, "findUnhashed")
  /\ UNCHANGED <<world, table, local>>

FindUnhashed(f) ==
  /\ pc[f] = "findUnhashed"
  /\ \/ Unhashed = {} /\ Done(f)
     \/ /\ Unhashed # {}
        /\ Goto(f, "fixFetch")
        /\ todo' = [todo EXCEPT ![f] = Unhashed]
        /\ UNCHANGED <<asked, row, hist, left>>
  /\ UNCHANGED <<world, table>>

\* The script goes on after row i.
NextRow(f, i) ==
  \/ todo[f] = {i} /\ Done(f)
  \/ /\ todo[f] # {i}
     /\ Goto(f, "fixFetch")
     /\ row' = [row EXCEPT ![f] = 0]
     /\ todo' = [todo EXCEPT ![f] = @ \ {i}]
     /\ UNCHANGED <<asked, hist, left>>

\* A row is left as it is if its transaction holds more than one interest.
FixFetch(f) ==
  /\ pc[f] = "fixFetch"
  /\ \E i \in todo[f] :
       LET found == Detected[TxOf[rows[i].location]] IN
         \/ Len(found) # 1 /\ NextRow(f, i)
         \/ /\ Len(found) = 1
            /\ Goto(f, "fixSave")
            /\ row' = [row EXCEPT ![f] = i]
            /\ UNCHANGED <<asked, hist, left, todo>>
  /\ UNCHANGED <<world, table>>

Correct(i) == Place[Detected[TxOf[rows[i].location]][1]]

\* Broken: the save writes every column as the script has read it.
FixSaveAll(f) ==
  /\ pc[f] = "fixSave"
  /\ rows' = [rows EXCEPT ![row[f]].hashed = TRUE, ![row[f]].location = Correct(row[f]),
                          ![row[f]].removal_location = None, ![row[f]].active = TRUE]
  /\ NextRow(f, row[f])
  /\ UNCHANGED <<world, removals>>

FixSave(f) ==
  /\ pc[f] = "fixSave"
  /\ rows' = [rows EXCEPT ![row[f]].hashed = TRUE, ![row[f]].location = Correct(row[f])]
  /\ NextRow(f, row[f])
  /\ UNCHANGED <<world, removals>>

-----------------------------------------------------------------------------
(* The environment.                                                        *)

Spend(r) ==
  /\ r \notin chain
  /\ \A s \in chain : Inputs[s] \cap Inputs[r] = {}
  /\ chain' = chain \cup {r}
  /\ UNCHANGED <<failures, table, pc, local>>

\* An operation rejects, or the process stops: rows that were created stay.
Fail(f) ==
  /\ failures < Failures /\ pc[f] # "idle"
  /\ failures' = failures + 1
  /\ Done(f)
  /\ UNCHANGED <<chain, table>>

Advance(f) ==
  \/ FindAll(f) \/ FetchAgain(f) \/ Fetch(f) \/ Create(f)
  \/ FindOne(f) \/ History(f) \/ GetTransactions(f) \/ SaveRemoval(f) \/ PublishRemoval(f)
  \/ FindUnhashed(f) \/ FixFetch(f) \/ FixSave(f)

Next ==
  \/ \E r \in Removal : Spend(r)
  \/ \E f \in Fiber : \/ \E l \in Asked : Import(f, l) \/ Remove(f, l)
                      \/ FixHashes(f) \/ Advance(f) \/ Fail(f)

Spec == Init /\ [][Next]_vars

-----------------------------------------------------------------------------
(* Properties.                                                             *)

\* Every variable keeps its shape; a fiber that works on a row or walks over rows has
\* some, and they are rows of the table.
TypeOK ==
  /\ chain \subseteq Removal
  /\ rows \in Seq(Interest)
  /\ removals \in [DOMAIN rows -> Nat]
  /\ failures \in Nat
  /\ pc \in [Fiber -> Step]
  /\ asked \in [Fiber -> Location \cup {None}]
  /\ row \in [Fiber -> {0} \cup DOMAIN rows]
  /\ hist \in [Fiber -> SUBSET chain]
  /\ left \in [Fiber -> Seq(Output)]
  /\ todo \in [Fiber -> SUBSET DOMAIN rows]
  /\ \A f \in Fiber :
       /\ pc[f] \in {"findAll", "fetch", "create", "findOne", "history", "transactions", "save", "publish"}
            => asked[f] \in Location
       /\ pc[f] \in {"history", "transactions", "save", "publish"} => row[f] \in DOMAIN rows
       /\ pc[f] = "fixSave" => row[f] \in todo[f]
       /\ pc[f] = "create" => left[f] # <<>>
       /\ pc[f] \in {"fetchAgain", "fixFetch", "fixSave"} => todo[f] # {}

\* A removal is never taken back: not by the script that corrects rows it read
\* before, and not by another call that removes the same row.
RemovalsStick ==
  [][\A i \in DOMAIN rows : rows[i].removal_location # None =>
       /\ i \in DOMAIN rows'
       /\ rows'[i].removal_location = rows[i].removal_location
       /\ ~rows'[i].active]_vars

\* A row is inactive if and only if it was removed, and then a transaction on chain
\* spends the output at its location, also after the location was corrected.
RemovalsAreOnChain ==
  \A i \in DOMAIN rows :
    /\ rows[i].active <=> rows[i].removal_location = None
    /\ rows[i].removal_location # None =>
         rows[i].removal_location \in chain /\ At[rows[i].location] \in Inputs[rows[i].removal_location]

Twins(i) == {j \in DOMAIN rows : rows[j].out = rows[i].out /\ rows[j].origin = rows[i].origin}

\* Only calls that overlap repeat each other: one output is recorded for one
\* location, and one removal is announced, at most once for each call in flight,
\* however many calls follow (a legacy row whose location was corrected makes room
\* for one more).  What is announced is saved.
RepeatsNeedOverlap ==
  \A i \in DOMAIN rows :
    /\ Cardinality(Twins(i) \ DOMAIN Legacy) <= Cardinality(Fiber)
    /\ removals[i] <= Cardinality(Fiber)
    /\ removals[i] > 0 => rows[i].removal_location # None

\* The rows that were recorded for an output at a location.
Recorded(o, l) == {j \in DOMAIN rows : rows[j].out = o /\ rows[j].origin = l} \ DOMAIN Legacy

\* A fiber that has yet to record an output it found at a location.
Carries(f, o, l) == pc[f] = "create" /\ asked[f] = l /\ \E k \in DOMAIN left[f] : left[f][k] = o

\* Removals that were saved and that nobody will announce, and locations of which
\* some interests are recorded and nobody will record the others.
Silent ==
  {i \in DOMAIN rows : /\ rows[i].removal_location # None /\ removals[i] = 0
                       /\ \A f \in Fiber : ~(pc[f] = "publish" /\ row[f] = i)}
Partial ==
  {l \in {rows[i].origin : i \in DOMAIN rows \ DOMAIN Legacy} :
     \E k \in DOMAIN Detected[TxOf[l]] :
       LET o == Detected[TxOf[l]][k]
       IN Recorded(o, l) = {} /\ \A f \in Fiber : ~Carries(f, o, l)}

\* An operation that rejects, or a stop, costs one announcement or one location its
\* other interests, for good, since later calls find a record and look no further; nothing
\* else does, however many calls overlap.
FailuresLoseOneEach == Cardinality(Silent) + Cardinality(Partial) <= failures
=============================================================================
