-------------------------- MODULE ShortcodesProofs --------------------------
(***************************************************************************)
(* Theorems about Shortcodes, for any scripts, number of requests and      *)
(* failures.                                                               *)
(***************************************************************************)
EXTENDS Shortcodes, FiniteSetTheorems, SequenceTheorems, TLAPS

\* The requests that found no row of s and are about to insert one.
Inserting(s) == {c \in Call : call[c].at = "insert" /\ call[c].script = s}

CallKnows(c) ==
  /\ call[c].at # "idle" => call[c].since <= Len(rows)
  /\ call[c].at = "insert" => \A i \in RowsOf(call[c].script) : call[c].since < i
  /\ call[c].at = "answer" => call[c].uid \in RowsOf(call[c].script)

Ordered(s) == \A i, j \in RowsOf(s) : i < j => rows[j].since < i

\* No request joins those that insert once a row is there, and each inserts once.
Few(s) ==
  RowsOf(s) # {} => Cardinality(RowsOf(s)) + Cardinality(Inserting(s)) <= Cardinality(Call)

IInv ==
  /\ TypeOK /\ LinksResolve
  /\ \A c \in Call : CallKnows(c)
  /\ \A s \in Script : Ordered(s) /\ Few(s)

-----------------------------------------------------------------------------
LEMMA Counted ==
  ASSUME TypeOK, NEW s \in Script
  PROVE  /\ IsFiniteSet(RowsOf(s)) /\ Cardinality(RowsOf(s)) \in Nat
         /\ IsFiniteSet(Inserting(s)) /\ Cardinality(Inserting(s)) \in Nat
         /\ Cardinality(Inserting(s)) <= Cardinality(Call) /\ Cardinality(Call) \in Nat
<1>1. /\ RowsOf(s) \in SUBSET (1..Len(rows)) /\ Len(rows) \in Nat
  BY LenProperties DEF TypeOK, RowsOf
<1>2. IsFiniteSet(1..Len(rows))
  BY <1>1, FS_Interval
<1>3. IsFiniteSet(RowsOf(s))
  BY <1>1, <1>2, FS_Subset
<1>4. Inserting(s) \in SUBSET Call /\ IsFiniteSet(Call)
  BY ShortcodeAssumption DEF Inserting
<1>5. IsFiniteSet(Inserting(s)) /\ Cardinality(Inserting(s)) <= Cardinality(Call)
  BY <1>4, FS_Subset
<1> QED
  BY <1>3, <1>4, <1>5, FS_CardinalityType

\* What a request that is not idle holds.
LEMMA Asking ==
  ASSUME TypeOK, NEW c \in Call
  PROVE  /\ call[c] = Idle <=> call[c].at = "idle"
         /\ call[c] # Idle => call[c] \in Request
BY DEF TypeOK, Idle, Request

LEMMA Answering ==
  ASSUME NEW r \in Request, NEW n \in Nat
  PROVE  [r EXCEPT !.at = "answer", !.uid = n + 1] \in Request
<1>1. n + 1 \in Nat
  OBVIOUS
<1> QED
  BY <1>1 DEF Request

LEMMA InitHolds ==
  ASSUME Init
  PROVE  IInv
<1>1. Len(rows) = 0 /\ \A s : RowsOf(s) = {}
  BY DEF Init, RowsOf
<1>2. TypeOK /\ LinksResolve
  BY ShortcodeAssumption DEF Init, TypeOK, LinksResolve
<1> QED
  BY <1>1, <1>2 DEF Init, IInv, CallKnows, Ordered, Few, Idle

\* Every step keeps the types.
LEMMA TypesKept ==
  ASSUME TypeOK, [Next]_vars
  PROVE  TypeOK'
<1>1. CASE UNCHANGED vars
  BY <1>1 DEF vars, TypeOK
<1>2. CASE Next
  <2> PICK c \in Call : \/ \E s \in Script : Create(c, s)
                        \/ Find(c) \/ Insert(c) \/ Answer(c) \/ FailCall(c)
    BY <1>2 DEF Next
  <2>1. /\ call[c] # Idle => call[c] \in Request
        /\ Idle.at = "idle" /\ Len(rows) \in Nat
    BY Asking, LenProperties DEF Idle, TypeOK
  <2>2. ASSUME NEW s \in Script, Create(c, s) PROVE TypeOK'
    <3>1. [at |-> "find", script |-> s, uid |-> 0, since |-> Len(rows)] \in Request
      BY <2>1, <2>2 DEF Create, Request
    <3> QED
      BY <2>2, <3>1 DEF Create, TypeOK
  <2>3. CASE Find(c)
    <3>1. call[c] \in Request
      BY <2>1, <2>3 DEF Find
    <3>2. \A i \in RowsOf(call[c].script) : i \in Nat
      BY <2>1, LenProperties DEF RowsOf, TypeOK
    <3>3. call'[c] \in Request /\ call' = [call EXCEPT ![c] = call'[c]]
      BY <2>3, <3>1, <3>2 DEF Find, Request, TypeOK
    <3> QED
      BY <2>3, <3>3 DEF Find, TypeOK
  <2>4. CASE Insert(c)
    <3>1. call[c] \in Request
      BY <2>1, <2>4 DEF Insert
    <3> PICK r \in Request : r = call[c]
      BY <3>1
    <3>2. /\ call'[c] = [r EXCEPT !.at = "answer", !.uid = Len(rows) + 1]
          /\ call' = [call EXCEPT ![c] = call'[c]]
      BY <2>4, <3>1 DEF Insert, TypeOK
    <3>5. call'[c] \in Request
      <4>1. [r EXCEPT !.at = "answer", !.uid = Len(rows) + 1] \in Request
        BY <2>1, Answering
      <4> QED
        BY <3>2, <4>1, Zenon
    <3>3. [script |-> call[c].script, since |-> call[c].since]
             \in [script : Script \ Malformed, since : Nat]
      BY <3>1 DEF Request
    <3>4. rows' \in Seq([script : Script \ Malformed, since : Nat])
      BY <2>4, <3>3, AppendProperties DEF Insert, TypeOK
    <3> QED
      BY <2>4, <3>2, <3>4, <3>5 DEF Insert, TypeOK
  <2>5. CASE Answer(c)
    <3>1. call[c] \in Request
      BY <2>1, <2>5 DEF Answer
    <3>2. <<call[c].script, call[c].uid>> \in Script \X Nat
      BY <3>1 DEF Request
    <3> QED
      BY <2>5, <3>2 DEF Answer, TypeOK
  <2>6. CASE FailCall(c)
    BY <2>6, ShortcodeAssumption DEF FailCall, TypeOK
  <2> QED
    BY <2>2, <2>3, <2>4, <2>5, <2>6
<1> QED
  BY <1>1, <1>2

\* A step that commits no row and sets nobody to insert where a row is.
LEMMA TableUntouched ==
  ASSUME IInv, UNCHANGED rows, NEW c \in Call, call' = [call EXCEPT ![c] = call'[c]],
         call'[c].at = "insert" => RowsOf(call'[c].script) = {}
  PROVE  \A s \in Script : Ordered(s)' /\ Few(s)'
<1> SUFFICES ASSUME NEW s \in Script PROVE Ordered(s)' /\ Few(s)'
  OBVIOUS
<1>1. RowsOf(s)' = RowsOf(s)
  BY DEF RowsOf
<1>2. Ordered(s)'
  BY <1>1 DEF IInv, Ordered
<1>3. SUFFICES ASSUME RowsOf(s) # {}
               PROVE  Cardinality(RowsOf(s)) + Cardinality(Inserting(s)') <= Cardinality(Call)
  BY <1>1, <1>2 DEF Few
<1>4. Inserting(s)' \in SUBSET Inserting(s)
  <2> SUFFICES ASSUME NEW d \in Call, call'[d].at = "insert", call'[d].script = s
               PROVE  d \in Inserting(s)
    BY DEF Inserting
  <2>1. d # c
    BY <1>3
  <2>2. call'[d] = call[d]
    BY <2>1 DEF IInv, TypeOK
  <2> QED
    BY <2>2 DEF Inserting
<1>5. /\ IsFiniteSet(Inserting(s)) /\ Cardinality(Inserting(s)) \in Nat
      /\ Cardinality(RowsOf(s)) \in Nat /\ Cardinality(Call) \in Nat
  BY Counted DEF IInv
<1>6. /\ Cardinality(Inserting(s)') <= Cardinality(Inserting(s))
      /\ Cardinality(Inserting(s)') \in Nat
  BY <1>4, <1>5, FS_Subset, FS_CardinalityType
<1>7. Cardinality(RowsOf(s)) + Cardinality(Inserting(s)) <= Cardinality(Call)
  BY <1>3 DEF IInv, Few
<1> QED
  BY <1>5, <1>6, <1>7

\* What the commit of a row adds to the rows of each script.
LEMMA RowAdded ==
  ASSUME TypeOK, NEW c \in Call, Insert(c), NEW s \in Script
  PROVE  /\ RowsOf(s)' = IF s = call[c].script THEN RowsOf(s) \cup {Len(rows) + 1} ELSE RowsOf(s)
         /\ RowsOf(s) \subseteq 1..Len(rows) /\ Len(rows) \in Nat /\ Len(rows') = Len(rows) + 1
         /\ \A i \in 1..Len(rows) : rows'[i] = rows[i]
         /\ rows'[Len(rows) + 1].since = call[c].since
<1> DEFINE new == [script |-> call[c].script, since |-> call[c].since]
<1>1. call[c] # Idle
  BY DEF Insert, Idle
<1>2. call[c] \in Request
  BY <1>1, Asking
<1>3. new \in [script : Script \ Malformed, since : Nat]
  BY <1>2 DEF Request
<1>4. rows' = Append(rows, new)
  BY DEF Insert
<1>5. /\ Len(rows) \in Nat /\ Len(rows') = Len(rows) + 1
      /\ DOMAIN rows = 1..Len(rows) /\ DOMAIN rows' = 1..(Len(rows) + 1)
      /\ \A i \in 1..Len(rows) : rows'[i] = rows[i]
      /\ rows'[Len(rows) + 1] = new
  BY <1>3, <1>4, AppendProperties, LenProperties DEF TypeOK
<1> HIDE DEF new
<1>6. new.script = call[c].script /\ new.since = call[c].since
  BY DEF new
<1> QED
  BY <1>5, <1>6 DEF RowsOf

LEMMA InsertKeeps ==
  ASSUME IInv, NEW c \in Call, Insert(c), NEW s \in Script
  PROVE  Ordered(s)' /\ Few(s)'
<1> DEFINE n == Len(rows) + 1
<1>1. /\ RowsOf(s)' = IF s = call[c].script THEN RowsOf(s) \cup {n} ELSE RowsOf(s)
      /\ RowsOf(s) \subseteq 1..Len(rows) /\ Len(rows) \in Nat
      /\ \A i \in 1..Len(rows) : rows'[i] = rows[i]
      /\ rows'[n].since = call[c].since
  BY RowAdded DEF IInv
<1>2. call[c].at = "insert" /\ \A i \in RowsOf(call[c].script) : call[c].since < i
  BY DEF IInv, CallKnows, Insert
<1>3. \A i, j \in RowsOf(s) : i < j => rows[j].since < i
  BY DEF IInv, Ordered
<1>4. Ordered(s)'
  BY <1>1, <1>2, <1>3 DEF Ordered
<1>5. /\ call'[c].at = "answer"
      /\ \A d \in Call : d # c => call'[d] = call[d]
  BY DEF Insert, IInv, TypeOK
<1>6. Inserting(s)' = Inserting(s) \ {c}
  BY <1>5 DEF Inserting
<1>7. /\ IsFiniteSet(Inserting(s)) /\ Cardinality(Inserting(s)) \in Nat
      /\ IsFiniteSet(RowsOf(s)) /\ Cardinality(RowsOf(s)) \in Nat
      /\ Cardinality(Inserting(s)) <= Cardinality(Call) /\ Cardinality(Call) \in Nat
  BY Counted DEF IInv
<1>8. Cardinality(Inserting(s) \ {c}) =
        IF c \in Inserting(s) THEN Cardinality(Inserting(s)) - 1 ELSE Cardinality(Inserting(s))
  BY <1>7, FS_RemoveElement
<1>9. RowsOf(s) # {} => Cardinality(RowsOf(s)) + Cardinality(Inserting(s)) <= Cardinality(Call)
  BY DEF IInv, Few
<1>10. CASE s = call[c].script
  <2>1. c \in Inserting(s)
    BY <1>2, <1>10 DEF Inserting
  <2>2. n \notin RowsOf(s)
    BY <1>1
  <2>3. Cardinality(RowsOf(s) \cup {n}) = Cardinality(RowsOf(s)) + 1
    BY <2>2, <1>7, FS_AddElement
  <2>4. RowsOf(s) = {} => Cardinality(RowsOf(s)) = 0
    BY FS_EmptySet
  <2>5. Cardinality(RowsOf(s) \cup {n}) + Cardinality(Inserting(s) \ {c}) <= Cardinality(Call)
    BY <1>7, <1>8, <1>9, <2>1, <2>3, <2>4
  <2> QED
    BY <1>1, <1>4, <1>6, <1>10, <2>5 DEF Few
<1>11. CASE s # call[c].script
  <2>1. c \notin Inserting(s)
    BY <1>11 DEF Inserting
  <2>2. Inserting(s)' = Inserting(s) /\ RowsOf(s)' = RowsOf(s)
    BY <1>1, <1>6, <1>11, <2>1
  <2> QED
    BY <1>4, <1>9, <2>2 DEF Few
<1> QED
  BY <1>10, <1>11

LEMMA StepKeeps ==
  ASSUME IInv, [Next]_vars
  PROVE  IInv'
<1>1. TypeOK'
  BY TypesKept DEF IInv
<1>2. CASE UNCHANGED vars
  <2>1. rows' = rows /\ call' = call /\ answers' = answers
    BY <1>2 DEF vars
  <2>2. \A s : RowsOf(s)' = RowsOf(s) /\ Inserting(s)' = Inserting(s)
    BY <2>1 DEF RowsOf, Inserting
  <2>3. \A c \in Call : CallKnows(c)'
    BY <2>1, <2>2 DEF IInv, CallKnows
  <2>4. \A s \in Script : Ordered(s)' /\ Few(s)'
    BY <2>1, <2>2 DEF IInv, Ordered, Few
  <2>5. LinksResolve'
    BY <2>1, <2>2 DEF IInv, LinksResolve
  <2> QED
    BY <1>1, <2>3, <2>4, <2>5 DEF IInv
<1>3. CASE Next
  <2> PICK c \in Call : \/ \E s \in Script : Create(c, s)
                        \/ Find(c) \/ Insert(c) \/ Answer(c) \/ FailCall(c)
    BY <1>3 DEF Next
  <2>1. /\ TypeOK /\ LinksResolve /\ Len(rows) \in Nat
        /\ \A d \in Call : CallKnows(d)
    BY LenProperties DEF IInv, TypeOK
  <2>2. CASE UNCHANGED rows
    <3>1. \A s : RowsOf(s)' = RowsOf(s)
      BY <2>2 DEF RowsOf
    <3>2. call' = [call EXCEPT ![c] = call'[c]]
      BY <2>1 DEF Create, Find, Insert, Answer, FailCall, TypeOK
    <3>3. /\ call'[c].at = "insert" => RowsOf(call'[c].script) = {}
          /\ CallKnows(c)'
      <4>1. ASSUME NEW s \in Script, Create(c, s)
            PROVE  call'[c].at = "find" /\ call'[c].since = Len(rows)
        BY <2>1, <4>1 DEF Create, TypeOK
      <4>2. CASE \E s \in Script : Create(c, s)
        BY <2>1, <2>2, <4>1, <4>2 DEF CallKnows
      <4>3. CASE Find(c)
        <5>1. call[c] \in Request /\ call[c].since <= Len(rows)
          BY <2>1, <4>3, Asking DEF Find, CallKnows, Idle
        <5>2. CASE call' = [call EXCEPT ![c].at = "insert"] /\ RowsOf(call[c].script) = {}
          <6>1. /\ call'[c].at = "insert" /\ call'[c].script = call[c].script
                /\ call'[c].since = call[c].since
            BY <2>1, <5>1, <5>2 DEF TypeOK, Request
          <6> QED
            BY <2>2, <3>1, <5>1, <5>2, <6>1 DEF CallKnows
        <5>3. ASSUME NEW i \in RowsOf(call[c].script),
                     call' = [call EXCEPT ![c].at = "answer", ![c].uid = i]
              PROVE  /\ call'[c].at = "answer" /\ call'[c].script = call[c].script
                     /\ call'[c].since = call[c].since /\ call'[c].uid = i
          BY <2>1, <5>1, <5>3 DEF TypeOK, Request
        <5> QED
          BY <2>2, <3>1, <4>3, <5>1, <5>2, <5>3 DEF Find, CallKnows
      <4>4. CASE Answer(c) \/ FailCall(c)
        <5>1. call'[c].at = "idle"
          BY <2>1, <4>4 DEF Answer, FailCall, Idle, TypeOK
        <5> QED
          BY <5>1 DEF CallKnows
      <4>5. ~ Insert(c)
        <5>1. Len(rows) + 1 # Len(rows)
          BY <2>1
        <5>2. ASSUME Insert(c) PROVE Len(rows') = Len(rows) + 1
          BY <2>1, <5>2, AppendProperties DEF Insert, TypeOK
        <5> QED
          BY <2>2, <5>1, <5>2
      <4> QED
        BY <4>2, <4>3, <4>4, <4>5
    <3>4. \A s \in Script : Ordered(s)' /\ Few(s)'
      BY <2>2, <3>2, <3>3, TableUntouched
    <3>6. \A d \in Call : CallKnows(d)'
      BY <2>1, <2>2, <3>1, <3>2, <3>3 DEF CallKnows, TypeOK
    <3>7. LinksResolve'
      BY <2>1, <3>1 DEF Create, Find, Insert, Answer, FailCall, LinksResolve, CallKnows
    <3> QED
      BY <1>1, <3>4, <3>6, <3>7 DEF IInv
  <2>3. CASE Insert(c)
    <3>1. \A s \in Script : Ordered(s)' /\ Few(s)'
      BY <2>3, InsertKeeps
    <3>2. \A s \in Script : RowsOf(s) \subseteq RowsOf(s)' /\ RowsOf(s)' \subseteq RowsOf(s) \cup {Len(rows) + 1}
      BY <2>1, <2>3, RowAdded
    <3>3. call[c] \in Request /\ call[c].script \in Script
      BY <2>1, <2>3, Asking DEF Insert, Request, Idle
    <3> PICK s \in Script : s = call[c].script
      BY <3>3
    <3>4. Len(rows') = Len(rows) + 1 /\ Len(rows) + 1 \in RowsOf(s)'
      BY <2>1, <2>3, RowAdded
    <3>5. /\ call'[c].at = "answer" /\ call'[c].script = call[c].script
          /\ call'[c].uid = Len(rows) + 1 /\ call'[c].since = call[c].since
      BY <2>1, <2>3, <3>3 DEF Insert, TypeOK, Request
    <3>6. call[c].since <= Len(rows) /\ call[c].since \in Nat
      BY <2>1, <2>3, <3>3 DEF CallKnows, Insert, Request
    <3>7. CallKnows(c)'
      BY <2>1, <3>4, <3>5, <3>6 DEF CallKnows
    <3>8. ASSUME NEW d \in Call, d # c PROVE CallKnows(d)'
      <4>1. call'[d] = call[d] /\ CallKnows(d)
        BY <2>1, <2>3, <3>8 DEF Insert, TypeOK
      <4>2. CASE call[d].at = "idle"
        BY <4>1, <4>2 DEF CallKnows
      <4>3. CASE call[d].at # "idle"
        <5>1. call[d].script \in Script /\ call[d].since \in Nat
          BY <2>1, <4>3, Asking DEF Request
        <5> PICK w \in Script : w = call[d].script
          BY <5>1
        <5>2. RowsOf(w) \subseteq RowsOf(w)' /\ RowsOf(w)' \subseteq RowsOf(w) \cup {Len(rows) + 1}
          BY <3>2
        <5> QED
          BY <2>1, <3>4, <4>1, <4>3, <5>1, <5>2 DEF CallKnows
      <4> QED
        BY <4>2, <4>3
    <3>9. LinksResolve'
      BY <2>1, <2>3, <3>2 DEF Insert, LinksResolve, TypeOK
    <3> QED
      BY <1>1, <3>1, <3>7, <3>8, <3>9 DEF IInv
  <2> QED
    BY <2>2, <2>3 DEF Create, Find, Answer, FailCall
<1> QED
  BY <1>2, <1>3

LEMMA FewTwins ==
  ASSUME IInv
  PROVE  TwinsNeedOverlap
<1> SUFFICES ASSUME NEW s \in Script
             PROVE  Ordered(s) /\ Cardinality(RowsOf(s)) <= Cardinality(Call)
  BY DEF TwinsNeedOverlap, Ordered
<1>1. /\ Cardinality(RowsOf(s)) \in Nat /\ Cardinality(Inserting(s)) \in Nat
      /\ Cardinality(Call) \in Nat
  BY Counted DEF IInv
<1>2. RowsOf(s) = {} => Cardinality(RowsOf(s)) = 0
  BY FS_EmptySet
<1> QED
  BY <1>1, <1>2 DEF IInv, Few

-----------------------------------------------------------------------------
LEMMA Inductive == Spec => []IInv
<1>1. Init => IInv
  BY InitHolds
<1>2. IInv /\ [Next]_vars => IInv'
  BY StepKeeps
<1> QED
  BY <1>1, <1>2, PTL DEF Spec

(* Rows and requests are of scripts that parse, at any moment.             *)
THEOREM LinksTypeCorrect == Spec => []TypeOK
<1>1. IInv => TypeOK
  BY DEF IInv
<1> QED
  BY <1>1, Inductive, PTL

(* However many requests run at once and whatever fails, a uid that was    *)
(* answered leads to the script it was asked for.                          *)
THEOREM LinksAlwaysResolve == Spec => []LinksResolve
<1>1. IInv => LinksResolve
  BY DEF IInv
<1> QED
  BY <1>1, Inductive, PTL

(* A script has no more rows than there are requests at once, and only     *)
(* requests that began before its rows added to them.                      *)
THEOREM TwinsAlwaysOverlap == Spec => []TwinsNeedOverlap
<1>1. IInv => TwinsNeedOverlap
  BY FewTwins
<1> QED
  BY <1>1, Inductive, PTL
=============================================================================
