--------------------------- MODULE CrawlerProofs ---------------------------
(***************************************************************************)
(* Proofs about Crawler, for every chain of transactions and messages.     *)
(***************************************************************************)
EXTENDS Crawler, TLAPS

-----------------------------------------------------------------------------
(* The operations on the queue.                                            *)

LEMMA QueueFacts ==
  ASSUME NEW S, NEW q \in Seq(S)
  PROVE  /\ DOMAIN q = 1..Len(q) /\ Len(q) \in Nat
         /\ \A i \in DOMAIN q : q[i] \in S
  OBVIOUS

LEMMA ConcatFacts ==
  ASSUME NEW S, NEW q \in Seq(S), NEW p \in Seq(S)
  PROVE  /\ q \o p \in Seq(S) /\ DOMAIN (q \o p) = 1..(Len(q) + Len(p))
         /\ \A i \in DOMAIN q : i \in DOMAIN (q \o p) /\ (q \o p)[i] = q[i]
         /\ \A k \in DOMAIN p : /\ Len(q) + k \in DOMAIN (q \o p)
                                /\ (q \o p)[Len(q) + k] = p[k]
         /\ \A i \in DOMAIN (q \o p) : i \in DOMAIN q \/ (i > Len(q) /\ i - Len(q) \in DOMAIN p)
  OBVIOUS

LEMMA TailFacts ==
  ASSUME NEW S, NEW q \in Seq(S), q # <<>>
  PROVE  /\ Tail(q) \in Seq(S) /\ Head(q) \in S
         /\ 1 \in DOMAIN q /\ Head(q) = q[1]
         /\ DOMAIN Tail(q) = 1..(Len(q) - 1)
         /\ \A i \in DOMAIN Tail(q) : i + 1 \in DOMAIN q /\ Tail(q)[i] = q[i + 1]
  OBVIOUS

LEMMA ConstantFacts ==
  /\ Last \in Nat /\ Height \in [Item -> Nat \ {0}] /\ Item = 1..Last
  /\ \A m, n \in Item : m <= n => Height[m] <= Height[n]
  /\ \A n \in 0..Last : Upto[n] \in Nat
  /\ \A m, n \in 0..Last : m <= n => Upto[m] <= Upto[n]
  /\ Message = 1..Upto[Last]
  BY CrawlerAssumption DEF Item, Message

LEMMA RowFacts ==
  /\ NoRow \notin Row /\ Orphans \subseteq Row /\ Others \subseteq Row
  /\ \A m \in Message : Points[m] # NoRow => Points[m] \in Row /\ Of[Points[m]] = Names[m]
  /\ \A r, s \in Row : Of[r] = Of[s] => Key[r] = Key[s]
  BY RowAssumption

\* What onTransaction pushes is the next stretch of messages.
LEMMA MessagesFacts ==
  ASSUME NEW n \in Item
  PROVE  /\ n - 1 \in 0..Last /\ n \in 0..Last /\ n \in Nat
         /\ Upto[n - 1] \in Nat /\ Upto[n] \in Nat /\ Upto[n - 1] <= Upto[n]
         /\ Messages(n) \in Seq(Message)
         /\ DOMAIN Messages(n) = 1..(Upto[n] - Upto[n - 1])
         /\ \A k \in DOMAIN Messages(n) : Messages(n)[k] = Upto[n - 1] + k
<1>1. /\ n - 1 \in 0..Last /\ n \in 0..Last /\ n \in Nat /\ n - 1 <= n /\ n <= Last
      /\ Last \in 0..Last
  BY ConstantFacts
<1>2. /\ Upto[n - 1] \in Nat /\ Upto[n] \in Nat /\ Upto[Last] \in Nat
      /\ Upto[n - 1] <= Upto[n] /\ Upto[n] <= Upto[Last]
  BY <1>1, ConstantFacts
<1>3. PICK len \in Nat : len = Upto[n] - Upto[n - 1]
  BY <1>2
<1>4. /\ Messages(n) = [k \in 1..len |-> Upto[n - 1] + k]
      /\ \A k \in 1..len : Upto[n - 1] + k \in Message
  BY <1>2, <1>3, ConstantFacts DEF Messages
<1>5. Messages(n) \in Seq(Message)
  BY <1>4
<1>6. QED
  BY <1>1, <1>2, <1>3, <1>4, <1>5

\* r is q with the messages of transaction n behind it.
PushOf(q, r, n) ==
  /\ r \in Seq(Message) /\ DOMAIN r = 1..Len(r) /\ Len(q) \in Nat
  /\ \A i \in DOMAIN q : i \in Nat /\ i <= Len(q) /\ i \in DOMAIN r /\ r[i] = q[i]
  /\ \A m \in Carried(n) : \E i \in DOMAIN r : r[i] = m
  /\ \A i \in DOMAIN r : i \notin DOMAIN q =>
       /\ i \in Nat /\ Len(q) < i /\ r[i] = Upto[n - 1] + (i - Len(q))
       /\ r[i] \in Nat /\ Upto[n - 1] < r[i] /\ r[i] <= Upto[n]

LEMMA PushFacts ==
  ASSUME NEW n \in Item, NEW q \in Seq(Message)
  PROVE  PushOf(q, q \o Messages(n), n)
<1>0. PICK r : r = q \o Messages(n)
  OBVIOUS
<1>1. PICK p \in Seq(Message) : p = Messages(n)
  BY MessagesFacts
<1>2. /\ Upto[n - 1] \in Nat /\ Upto[n] \in Nat /\ Upto[n - 1] <= Upto[n]
      /\ DOMAIN p = 1..(Upto[n] - Upto[n - 1])
      /\ \A k \in DOMAIN p : p[k] = Upto[n - 1] + k
  BY <1>1, MessagesFacts
<1>3. r = q \o p
  BY <1>0, <1>1
<1>4. /\ r \in Seq(Message)
      /\ \A i \in DOMAIN q : i \in DOMAIN r /\ r[i] = q[i]
      /\ \A k \in DOMAIN p : Len(q) + k \in DOMAIN r /\ r[Len(q) + k] = p[k]
      /\ \A i \in DOMAIN r : i \in DOMAIN q \/ (i > Len(q) /\ i - Len(q) \in DOMAIN p)
  BY <1>3, ConcatFacts
<1>5. /\ DOMAIN q = 1..Len(q) /\ Len(q) \in Nat /\ DOMAIN r = 1..Len(r) /\ Len(r) \in Nat
  BY <1>4, QueueFacts
<1>6. ASSUME NEW i \in DOMAIN r, i \notin DOMAIN q
      PROVE  /\ i \in Nat /\ Len(q) < i /\ r[i] = Upto[n - 1] + (i - Len(q))
             /\ r[i] \in Nat /\ Upto[n - 1] < r[i] /\ r[i] <= Upto[n]
  <2>1. i \in Nat /\ Len(q) < i
    BY <1>4, <1>5, <1>6
  <2>2. PICK k \in DOMAIN p : k = i - Len(q)
    BY <1>4, <1>6
  <2>3. k \in Nat /\ 0 < k /\ k <= Upto[n] - Upto[n - 1] /\ i = Len(q) + k
    BY <1>2, <1>5, <2>1, <2>2
  <2>4. r[i] = Upto[n - 1] + k
    BY <1>2, <1>4, <2>3
  <2>5. QED
    <3>1. i - Len(q) = k /\ r[i] = Upto[n - 1] + (i - Len(q))
      BY <2>2, <2>4
    <3>2. r[i] \in Nat /\ Upto[n - 1] < r[i] /\ r[i] <= Upto[n]
      BY <1>2, <2>3, <2>4
    <3>3. QED
      BY <2>1, <3>1, <3>2
<1>7. ASSUME NEW m \in Carried(n) PROVE \E i \in DOMAIN r : r[i] = m
  <2>1. PICK k \in DOMAIN p : m = Upto[n - 1] + k
    <3>1. /\ m - Upto[n - 1] \in 1..(Upto[n] - Upto[n - 1])
          /\ m = Upto[n - 1] + (m - Upto[n - 1])
      BY <1>2 DEF Carried
    <3>2. QED
      BY <1>2, <3>1
  <2>2. QED
    BY <1>2, <1>4, <2>1
<1>8. PushOf(q, r, n)
  BY <1>4, <1>5, <1>6, <1>7 DEF PushOf
<1>9. QED
  BY <1>0, <1>8

-----------------------------------------------------------------------------
(* The inductive invariant.                                                *)

\* What the loop has read lies at or below latest, what it has not does not lie
\* below it, and neither a response nor the chain ends in the middle of a block.
ReadingInv ==
  /\ \A m, n \in Item : m <= mined /\ mined < n => Height[m] < Height[n]
  /\ loop = "read" =>
       /\ \A n \in Item : n < pos => Height[n] <= latest
       /\ \A m, n \in Item : m <= end /\ end < n => Height[m] < Height[n]
       /\ \A n \in Item : pos <= n => latest <= Height[n]
  /\ loop = "off" => queue = <<>> /\ busy = Nobody /\ saves = {}

\* A message of a transaction that has been read.
Pushed(m) ==
  /\ \A n \in Item : latest < Height[n] => m <= Upto[n - 1]
  /\ loop = "read" => m <= Upto[pos - 1]

\* The queue is in chain order and holds what has been read and not yet taken.
QueueInv ==
  /\ QueuedOnce
  /\ \A i \in DOMAIN queue : Pushed(queue[i])
  /\ busy # Nobody => Pushed(busy)

IInv == TypeOK /\ ReadingInv /\ QueueInv

LEMMA InitIInv == Init => IInv
<1> SUFFICES ASSUME Init PROVE IInv
  OBVIOUS
<1>1. TypeOK
  BY ConstantFacts DEF Init, TypeOK, LoopPc, StagePc, OtherPc, Nobody
<1>2. ReadingInv /\ QueueInv
  BY ConstantFacts DEF Init, ReadingInv, QueueInv, QueuedOnce, Nobody
<1>3. QED
  BY <1>1, <1>2 DEF IInv

LEMMA QueuedFacts ==
  ASSUME TypeOK
  PROVE  /\ queue \in Seq(Message) /\ DOMAIN queue = 1..Len(queue) /\ Len(queue) \in Nat
         /\ \A i \in DOMAIN queue : /\ queue[i] \in Message /\ queue[i] \in Nat
                                    /\ queue[i] > 0
         /\ busy \in Nat
<1>1. queue \in Seq(Message)
  BY DEF TypeOK
<1>2. /\ DOMAIN queue = 1..Len(queue) /\ Len(queue) \in Nat
      /\ \A i \in DOMAIN queue : queue[i] \in Message
  BY <1>1, QueueFacts
<1>3. \A m \in Message : m \in Nat /\ m > 0
  BY ConstantFacts DEF Message
<1>4. busy \in Nat
  BY <1>3 DEF TypeOK, Nobody
<1>5. QED
  BY <1>1, <1>2, <1>3, <1>4

\* An action that leaves the queue and what has been read alone, and gives the worker
\* no other message, keeps the order.
LEMMA QueueKept ==
  ASSUME IInv, UNCHANGED <<queue, latest, pos>>, busy' \in {busy, Nobody},
         loop' = "read" => loop = "read"
  PROVE  QueueInv'
<1>1. \A i \in DOMAIN queue : 0 < queue[i]
  BY QueuedFacts DEF IInv
<1>2. QED
  BY <1>1 DEF IInv, QueueInv, QueuedOnce, Pushed, Nobody

LEMMA ReadKeepsIInv == IInv /\ Read => IInv'
<1> SUFFICES ASSUME IInv, Read PROVE IInv'
  OBVIOUS
<1> USE ConstantFacts DEF IInv, Nobody, LoopPc, StagePc
<1>a. /\ loop = "read" /\ loop' = "read" /\ pos \in Item /\ pos <= end /\ end' = end
      /\ latest' = Height[pos] /\ pos' = pos + 1
      /\ saves' \subseteq saves \cup {Height[pos]}
      /\ queue' = queue \o Messages(pos)
      /\ UNCHANGED <<mined, other, cursor, imported, busy, stage, todo, making>>
  BY DEF Read, TypeOK, database, worker, world
<1>b. /\ queue \in Seq(Message)
      /\ pos - 1 \in 0..Last /\ pos \in 0..Last
      /\ Upto[pos - 1] \in Nat /\ Upto[pos] \in Nat /\ Upto[pos - 1] <= Upto[pos]
  BY <1>a, MessagesFacts DEF TypeOK
<1>c. /\ queue' \in Seq(Message) /\ Len(queue) \in Nat
      /\ \A i \in DOMAIN queue : i \in Nat /\ i <= Len(queue) /\ queue'[i] = queue[i]
      /\ \A i \in DOMAIN queue' : i \notin DOMAIN queue =>
           /\ i \in Nat /\ Len(queue) < i /\ queue'[i] = Upto[pos - 1] + (i - Len(queue))
           /\ queue'[i] \in Nat /\ Upto[pos - 1] < queue'[i] /\ queue'[i] <= Upto[pos]
  <2>1. PushOf(queue, queue \o Messages(pos), pos)
    BY <1>a, <1>b, PushFacts
  <2>2. PushOf(queue, queue', pos)
    BY <1>a, <2>1
  <2>3. QED
    BY <2>2 DEF PushOf
<1>1. TypeOK'
  <2>1. latest' \in Nat /\ saves' \in SUBSET Nat /\ pos' \in 1..(Last + 1)
    BY <1>a DEF TypeOK
  <2>2. QED
    BY <1>a, <1>c, <2>1 DEF TypeOK
<1>2. ReadingInv'
  BY <1>a DEF TypeOK, ReadingInv
<1>3. QueueInv'
  <2>a. /\ latest <= latest' /\ latest \in Nat /\ latest' \in Nat /\ pos \in Nat
        /\ \A n \in Item : latest' < Height[n] => /\ latest < Height[n]
                                                  /\ Upto[pos] <= Upto[n - 1]
    <3>1. latest <= latest' /\ latest \in Nat /\ latest' \in Nat /\ pos \in Nat
      BY <1>a DEF ReadingInv, TypeOK
    <3>2. \A n \in Item : latest' < Height[n] => pos <= n - 1 /\ n - 1 \in 0..Last
      BY <1>a, <3>1
    <3>3. QED
      BY <1>b, <3>1, <3>2
  <2>b. /\ \A i \in DOMAIN queue : /\ queue[i] \in Nat /\ busy < queue[i] /\ queue[i] <= Upto[pos - 1]
                                   /\ i \in Nat /\ i <= Len(queue)
        /\ busy \in Nat /\ Len(queue) \in Nat /\ busy <= Upto[pos - 1]
    BY <1>a, <1>b, QueuedFacts DEF QueueInv, QueuedOnce, Pushed
  <2>1. \A i, j \in DOMAIN queue' : i < j => queue'[i] < queue'[j]
    <3>1. TAKE i, j \in DOMAIN queue'
    <3>2. CASE i \in DOMAIN queue /\ j \in DOMAIN queue
      BY <1>c, <3>2 DEF QueueInv, QueuedOnce
    <3>3. CASE i \in DOMAIN queue /\ j \notin DOMAIN queue
      <4>1. queue'[i] \in Nat /\ queue'[i] <= Upto[pos - 1]
        BY <1>c, <2>b, <3>3
      <4>2. queue'[j] \in Nat /\ Upto[pos - 1] < queue'[j]
        BY <1>c, <3>3
      <4>3. QED
        BY <1>b, <4>1, <4>2
    <3>4. CASE i \notin DOMAIN queue /\ j \in DOMAIN queue
      BY <1>c, <3>4
    <3>5. CASE i \notin DOMAIN queue /\ j \notin DOMAIN queue
      <4>1. /\ i \in Nat /\ queue'[i] = Upto[pos - 1] + (i - Len(queue))
            /\ j \in Nat /\ queue'[j] = Upto[pos - 1] + (j - Len(queue))
        BY <1>c, <3>5
      <4>2. QED
        BY <1>b, <1>c, <4>1
    <3>6. QED
      BY <3>2, <3>3, <3>4, <3>5
  <2>2. \A i \in DOMAIN queue' : busy' < queue'[i] /\ queue'[i] <= Upto[pos] /\ queue'[i] \in Nat
    <3>1. TAKE i \in DOMAIN queue'
    <3>2. CASE i \in DOMAIN queue
      BY <1>a, <1>b, <1>c, <2>b, <3>2
    <3>3. CASE i \notin DOMAIN queue
      <4>1. busy <= Upto[pos - 1] /\ busy \in Nat /\ busy' = busy
        BY <1>a, <2>b
      <4>2. queue'[i] \in Nat /\ Upto[pos - 1] < queue'[i] /\ queue'[i] <= Upto[pos]
        BY <1>c, <3>3
      <4>3. QED
        BY <1>b, <4>1, <4>2
    <3>4. QED
      BY <3>2, <3>3
  <2>d. \A n \in Item : latest' < Height[n] => Upto[pos] <= Upto[n - 1] /\ Upto[n - 1] \in Nat
    BY <2>a, MessagesFacts
  <2>3. \A m \in Nat : m <= Upto[pos] => Pushed(m)'
    <3>1. TAKE m \in Nat
    <3>2. HAVE m <= Upto[pos]
    <3>3. pos' - 1 = pos
      BY <1>a
    <3>4. \A n \in Item : latest' < Height[n] => m <= Upto[n - 1]
      BY <1>b, <2>d, <3>2
    <3>5. QED
      BY <3>2, <3>3, <3>4 DEF Pushed
  <2>4. busy <= Upto[pos] /\ busy \in Nat /\ busy' = busy
    BY <1>a, <1>b, <2>b
  <2>5. QED
    BY <2>1, <2>2, <2>3, <2>4 DEF QueueInv, QueuedOnce
<1>4. QED
  BY <1>1, <1>2, <1>3

LEMMA TakeKeepsIInv == IInv /\ Take => IInv'
<1> SUFFICES ASSUME IInv, Take PROVE IInv'
  OBVIOUS
<1> USE ConstantFacts DEF IInv, Nobody, LoopPc, StagePc
<1>a. /\ queue # <<>> /\ busy = Nobody /\ busy' = Head(queue) /\ queue' = Tail(queue)
      /\ stage = "none" /\ stage' = "lookup"
      /\ UNCHANGED <<mined, other, cursor, imported, saves, latest, loop, pos, end, todo, making>>
  BY DEF Take, TypeOK, database, reading, world
<1>b. /\ queue' \in Seq(Message) /\ busy' \in Message
      /\ 1 \in DOMAIN queue /\ busy' = queue[1]
      /\ \A i \in DOMAIN queue' : i \in Nat /\ i >= 1 /\ i + 1 \in DOMAIN queue /\ queue'[i] = queue[i + 1]
  BY <1>a, TailFacts, QueueFacts DEF TypeOK
<1>1. TypeOK'
  <2>1. todo = {} /\ making = {}
    BY <1>a DEF TypeOK
  <2>2. busy' # Nobody
    BY <1>b
  <2>3. QED
    BY <1>a, <1>b, <2>1, <2>2 DEF TypeOK
<1>2. ReadingInv'
  BY <1>a DEF TypeOK, ReadingInv
<1>3. QueueInv'
  <2>1. \A i, j \in DOMAIN queue' : i < j => queue'[i] < queue'[j]
    <3>1. TAKE i, j \in DOMAIN queue'
    <3>2. i < j => i + 1 < j + 1
      BY <1>b
    <3>3. QED
      BY <1>b, <3>1, <3>2 DEF QueueInv, QueuedOnce
  <2>2. \A i \in DOMAIN queue' : busy' < queue'[i]
    <3>1. TAKE i \in DOMAIN queue'
    <3>2. 1 < i + 1 /\ i + 1 \in DOMAIN queue /\ 1 \in DOMAIN queue
      BY <1>b
    <3>3. QED
      BY <1>b, <3>1, <3>2 DEF QueueInv, QueuedOnce
  <2>3. \A m \in Message : Pushed(m) => Pushed(m)'
    BY <1>a DEF Pushed
  <2>4. \A i \in DOMAIN queue : Pushed(queue[i]) /\ queue[i] \in Message
    BY QueuedFacts DEF QueueInv
  <2>5. /\ \A i \in DOMAIN queue' : Pushed(queue'[i]) /\ queue'[i] \in Message
        /\ Pushed(busy')
    BY <1>b, <2>4
  <2>6. /\ \A i \in DOMAIN queue' : Pushed(queue[i])'
        /\ Pushed(busy)'
    BY <1>a, <1>b, <2>5 DEF Pushed
  <2>7. QED
    BY <2>1, <2>2, <2>6 DEF QueueInv, QueuedOnce
<1>4. QED
  BY <1>1, <1>2, <1>3

LEMMA AskKeepsIInv == IInv /\ Ask => IInv'
<1> SUFFICES ASSUME IInv, Ask PROVE IInv'
  OBVIOUS
<1> USE ConstantFacts DEF IInv, Nobody, LoopPc, StagePc
<1>1. TypeOK'
  BY DEF Ask, TypeOK, database, worker, world
<1>2. ReadingInv'
  BY DEF Ask, TypeOK, database, worker, world, ReadingInv
<1>3. QueueInv'
  <2>1. /\ pos' \in 1..(Last + 1)
        /\ \A n \in Item : n < pos' <=> Height[n] <= latest
        /\ UNCHANGED <<latest, queue, busy>> /\ latest \in Nat
    BY DEF Ask, worker, TypeOK
  <2>2. \A m \in Message : Pushed(m) => Pushed(m)'
    <3>1. TAKE m \in Message
    <3>2. HAVE Pushed(m)
    <3>3. CASE pos' \in Item
      BY <2>1, <3>2, <3>3 DEF Pushed
    <3>4. CASE pos' = Last + 1
      BY <2>1, <3>2, <3>4 DEF Pushed
    <3>5. QED
      BY <2>1, <3>3, <3>4
  <2>3. busy # Nobody => busy \in Message
    BY DEF TypeOK
  <2>4. QED
    BY <2>1, <2>2, <2>3, QueuedFacts DEF QueueInv, QueuedOnce
<1>4. QED
  BY <1>1, <1>2, <1>3

LEMMA StepIInv == IInv /\ [Next]_vars => IInv'
<1> SUFFICES ASSUME IInv, [Next]_vars PROVE IInv'
  OBVIOUS
<1> USE ConstantFacts DEF IInv, Nobody, LoopPc, StagePc, OtherPc
<1>1. CASE Read
  BY <1>1, ReadKeepsIInv
<1>2. CASE Take
  BY <1>2, TakeKeepsIInv
<1>3. CASE Ask
  BY <1>3, AskKeepsIInv
<1>4. CASE Finish
  <2>1. TypeOK'
    BY <1>4 DEF Finish, TypeOK, database, reading, worker, world, vars
  <2>2. ReadingInv'
    BY <1>4 DEF Finish, TypeOK, database, reading, worker, world, vars, ReadingInv
  <2>3. UNCHANGED <<queue, latest, pos>> /\ busy' \in {busy, Nobody} /\ (loop' = "read" => loop = "read")
    BY <1>4 DEF Finish, database, reading, worker, world, vars
  <2>4. QED
    BY <2>1, <2>2, <2>3, QueueKept
<1>5. CASE Delay
  <2>1. TypeOK'
    BY <1>5 DEF Delay, TypeOK, database, reading, worker, world, vars
  <2>2. ReadingInv'
    BY <1>5 DEF Delay, TypeOK, database, reading, worker, world, vars, ReadingInv
  <2>3. UNCHANGED <<queue, latest, pos>> /\ busy' \in {busy, Nobody} /\ (loop' = "read" => loop = "read")
    BY <1>5 DEF Delay, database, reading, worker, world, vars
  <2>4. QED
    BY <2>1, <2>2, <2>3, QueueKept
<1>6. CASE Hang
  <2>1. TypeOK'
    BY <1>6 DEF Hang, TypeOK, database, reading, worker, world, vars
  <2>2. ReadingInv'
    BY <1>6 DEF Hang, TypeOK, database, reading, worker, world, vars, ReadingInv
  <2>3. UNCHANGED <<queue, latest, pos>> /\ busy' \in {busy, Nobody} /\ (loop' = "read" => loop = "read")
    BY <1>6 DEF Hang, database, reading, worker, world, vars
  <2>4. QED
    BY <2>1, <2>2, <2>3, QueueKept
<1>7. CASE SaveLands
  <2>1. TypeOK'
    BY <1>7 DEF SaveLands, TypeOK, database, reading, worker, world, vars
  <2>2. ReadingInv'
    BY <1>7 DEF SaveLands, TypeOK, database, reading, worker, world, vars, ReadingInv
  <2>3. UNCHANGED <<queue, latest, pos>> /\ busy' \in {busy, Nobody} /\ (loop' = "read" => loop = "read")
    BY <1>7 DEF SaveLands, database, reading, worker, world, vars
  <2>4. QED
    BY <2>1, <2>2, <2>3, QueueKept
<1>8. CASE Lookup
  <2>1. TypeOK'
    BY <1>8 DEF Lookup, Rest, TypeOK, database, reading, worker, world, vars
  <2>2. ReadingInv'
    BY <1>8 DEF Lookup, Rest, TypeOK, database, reading, worker, world, vars, ReadingInv
  <2>3. UNCHANGED <<queue, latest, pos>> /\ busy' \in {busy, Nobody} /\ (loop' = "read" => loop = "read")
    BY <1>8 DEF Lookup, Rest, database, reading, worker, world, vars
  <2>4. QED
    BY <2>1, <2>2, <2>3, QueueKept
<1>9. CASE Done
  <2>1. TypeOK'
    BY <1>9 DEF Done, Rest, TypeOK, database, reading, worker, world, vars
  <2>2. ReadingInv'
    BY <1>9 DEF Done, Rest, TypeOK, database, reading, worker, world, vars, ReadingInv
  <2>3. UNCHANGED <<queue, latest, pos>> /\ busy' \in {busy, Nobody} /\ (loop' = "read" => loop = "read")
    BY <1>9 DEF Done, Rest, database, reading, worker, world, vars
  <2>4. QED
    BY <2>1, <2>2, <2>3, QueueKept
<1>10. CASE \E r \in Row : Check(r)
  <2>a. PICK r \in Row : Check(r)
    BY <1>10
  <2>1. TypeOK'
    BY <2>a DEF Check, TypeOK, database, reading, worker, world, vars
  <2>2. ReadingInv'
    BY <2>a DEF Check, TypeOK, database, reading, worker, world, vars, ReadingInv
  <2>3. UNCHANGED <<queue, latest, pos, busy, loop>>
    BY <2>a DEF Check, database, reading, worker, world, vars
  <2>4. QED
    BY <2>1, <2>2, <2>3, QueueKept
<1>11. CASE \E r \in Row : GiveUp(r)
  <2>a. PICK r \in Row : GiveUp(r)
    BY <1>11
  <2>1. TypeOK'
    BY <2>a DEF GiveUp, TypeOK, database, reading, worker, world, vars
  <2>2. ReadingInv'
    BY <2>a DEF GiveUp, TypeOK, database, reading, worker, world, vars, ReadingInv
  <2>3. UNCHANGED <<queue, latest, pos, busy, loop>>
    BY <2>a DEF GiveUp, database, reading, worker, world, vars
  <2>4. QED
    BY <2>1, <2>2, <2>3, QueueKept
<1>12. CASE \E r \in Row : Create(r)
  <2>a. PICK r \in Row : Create(r)
    BY <1>12
  <2>1. TypeOK'
    BY <2>a DEF Create, TypeOK, database, reading, worker, world, vars
  <2>2. ReadingInv'
    BY <2>a DEF Create, TypeOK, database, reading, worker, world, vars, ReadingInv
  <2>3. UNCHANGED <<queue, latest, pos, busy, loop>>
    BY <2>a DEF Create, database, reading, worker, world, vars
  <2>4. QED
    BY <2>1, <2>2, <2>3, QueueKept
<1>13. CASE Other
  <2>a. PICK r \in Others : OtherChecks(r) \/ OtherCreates(r)
    BY <1>13 DEF Other
  <2>b. /\ UNCHANGED <<mined, cursor, saves, latest, loop, pos, end, queue, busy, stage, todo, making>>
        /\ imported' \in [Row -> Nat] /\ other' \in [Others -> OtherPc]
    <3>1. r \in Row
      BY RowFacts
    <3>2. CASE OtherChecks(r)
      BY <3>1, <3>2 DEF OtherChecks, TypeOK, database, reading, worker, world, vars
    <3>3. CASE OtherCreates(r)
      BY <3>1, <3>3 DEF OtherCreates, TypeOK, database, reading, worker, world, vars
    <3>4. QED
      BY <2>a, <3>2, <3>3
  <2>1. TypeOK'
    BY <2>b DEF TypeOK
  <2>2. ReadingInv'
    BY <2>b DEF ReadingInv
  <2>3. UNCHANGED <<queue, latest, pos, busy, loop>>
    BY <2>b
  <2>4. QED
    BY <2>1, <2>2, <2>3, QueueKept
<1>14. CASE Mine
  <2>1. TypeOK'
    BY <1>14 DEF Mine, TypeOK, database, reading, worker, world, vars
  <2>2. ReadingInv'
    <3>1. /\ mined + 1 \in Item /\ mined' \in Item
          /\ \A k \in Item : k <= mined' <=> Height[k] <= Height[mined + 1]
          /\ UNCHANGED <<saves, latest, loop, pos, end, queue, busy>>
      BY <1>14 DEF Mine, TypeOK, reading, worker
    <3>2. \A k \in Item : Height[k] \in Nat /\ k \in Nat
      OBVIOUS
    <3>3. \A m, k \in Item : m <= mined' /\ mined' < k => Height[m] < Height[k]
      BY <3>1, <3>2
    <3>4. QED
      BY <3>1, <3>3 DEF ReadingInv
  <2>3. UNCHANGED <<queue, latest, pos, busy, loop>>
    BY <1>14 DEF Mine, database, reading, worker, world, vars
  <2>4. QED
    BY <2>1, <2>2, <2>3, QueueKept
<1>15. CASE StartCrawler
  <2>1. TypeOK'
    BY <1>15 DEF StartCrawler, TypeOK, database, reading, worker, world, vars
  <2>2. ReadingInv'
    BY <1>15 DEF StartCrawler, TypeOK, database, reading, worker, world, vars, ReadingInv
  <2>3. queue' = <<>> /\ busy' = Nobody
    BY <1>15 DEF StartCrawler, database, reading, worker, world, vars, ReadingInv
  <2>4. QED
    BY <2>1, <2>2, <2>3 DEF QueueInv, QueuedOnce
<1>16. CASE Crash
  <2>1. TypeOK'
    BY <1>16 DEF Crash, Stop, Rest, TypeOK, database, reading, worker, world, vars
  <2>2. ReadingInv'
    BY <1>16 DEF Crash, Stop, Rest, TypeOK, database, reading, worker, world, vars, ReadingInv
  <2>3. queue' = <<>> /\ busy' = Nobody
    BY <1>16 DEF Crash, Stop, Rest, database, reading, worker, world, vars, ReadingInv
  <2>4. QED
    BY <2>1, <2>2, <2>3 DEF QueueInv, QueuedOnce
<1>17. CASE Reject
  <2>1. TypeOK'
    BY <1>17 DEF Reject, Stop, Rest, TypeOK, database, reading, worker, world, vars
  <2>2. ReadingInv'
    BY <1>17 DEF Reject, Stop, Rest, TypeOK, database, reading, worker, world, vars, ReadingInv
  <2>3. queue' = <<>> /\ busy' = Nobody
    BY <1>17 DEF Reject, Stop, Rest, database, reading, worker, world, vars, ReadingInv
  <2>4. QED
    BY <2>1, <2>2, <2>3 DEF QueueInv, QueuedOnce
<1>18. CASE UNCHANGED vars
  BY <1>18 DEF database, reading, worker, world, vars, TypeOK, ReadingInv, QueueInv, QueuedOnce, Pushed
<1>19. QED
  BY <1>1, <1>2, <1>3, <1>4, <1>5, <1>6, <1>7, <1>8, <1>9, <1>10, <1>11, <1>12, <1>13, <1>14, <1>15, <1>16, <1>17, <1>18 DEF Next, Loop, Work

-----------------------------------------------------------------------------
(* The theorems.                                                           *)

LEMMA Invariant == Spec => []IInv
<1>1. Init => IInv
  BY InitIInv
<1>2. IInv /\ [Next]_vars => IInv'
  BY StepIInv
<1>3. QED
  BY <1>1, <1>2, PTL DEF Spec

\* Every variable keeps its shape (see TypeOK), whatever the chain and its messages.
THEOREM CrawlerTypeCorrect == Spec => []TypeOK
<1>1. IInv => TypeOK
  BY DEF IInv
<1>2. QED
  BY <1>1, Invariant, PTL

\* A row is recorded once by the worker, because it is created only after nothing was
\* found by its key, and once by another path that looked before.
RowInv ==
  \A r \in Row :
    LET done == IF r \in Others /\ other[r] = "done" THEN 1 ELSE 0
    IN  /\ imported[r] <= 1 + done
        /\ r \in making => imported[r] <= done

LEMMA StepRows == TypeOK /\ RowInv /\ [Next]_vars => RowInv'
<1> SUFFICES ASSUME TypeOK, RowInv, [Next]_vars PROVE RowInv'
  OBVIOUS
<1>0. /\ imported \in [Row -> Nat] /\ other \in [Others -> OtherPc] /\ Others \subseteq Row
      /\ making \subseteq Row
  BY RowFacts DEF TypeOK
<1>1. CASE \E r \in Row : Check(r)
  <2>1. PICK r \in Row : Check(r)
    BY <1>1
  <2>2. /\ imported' = imported /\ other' = other
        /\ making' = making \/ (imported[r] = 0 /\ making' = making \cup {r})
    BY <1>0, <2>1 DEF Check, Recorded, database, world
  <2>3. QED
    BY <1>0, <2>2 DEF RowInv
<1>2. CASE \E r \in Row : Create(r)
  <2>1. PICK r \in Row : Create(r)
    BY <1>2
  <2>2. /\ r \in making /\ making' = making \ {r} /\ other' = other
        /\ imported' = [imported EXCEPT ![r] = @ + 1]
    BY <2>1 DEF Create, world
  <2>3. QED
    BY <1>0, <2>2 DEF RowInv
<1>3. CASE Other
  <2>1. PICK r \in Others : OtherChecks(r) \/ OtherCreates(r)
    BY <1>3 DEF Other
  <2>2. making' = making
    BY <2>1 DEF OtherChecks, OtherCreates, worker
  <2>3. CASE OtherChecks(r)
    <3>1. imported' = imported /\ other' = [other EXCEPT ![r] = "create"] /\ other[r] = "idle"
      BY <2>3 DEF OtherChecks, database
    <3>2. QED
      BY <1>0, <2>2, <3>1 DEF RowInv
  <2>4. CASE OtherCreates(r)
    <3>1. /\ imported' = [imported EXCEPT ![r] = @ + 1] /\ other[r] = "create"
          /\ other' = [other EXCEPT ![r] = "done"]
      BY <2>4 DEF OtherCreates
    <3>2. QED
      BY <1>0, <2>2, <3>1 DEF RowInv
  <2>5. QED
    BY <2>1, <2>3, <2>4
<1>4. CASE \/ Loop \/ Hang \/ SaveLands \/ Mine \/ Crash \/ Reject \/ UNCHANGED vars
           \/ Take \/ Lookup \/ Done \/ \E r \in Row : GiveUp(r)
  <2>1. imported' = imported /\ other' = other /\ making' \subseteq making
    BY <1>4 DEF Loop, StartCrawler, Ask, Read, Finish, Delay, Hang, SaveLands, Mine, Crash, Reject,
                Stop, Rest, Take, Lookup, Done, GiveUp, vars, database, worker, world
  <2>2. QED
    BY <1>0, <2>1 DEF RowInv
<1>5. QED
  BY <1>1, <1>2, <1>3, <1>4 DEF Next, Work

\* The fastq queue of a process is in chain order and ahead of the worker, so that no
\* message is worked on twice; and no row is recorded twice but one that another path
\* creates too: whatever the messages name and point to, whatever siblings an import
\* leaves out, and whatever the order of the saves and the restarts.
THEOREM NothingWorkedTwice == Spec => []WorkedOnce
<1>1. Init => RowInv
  BY DEF Init, RowInv
<1>2. TypeOK /\ RowInv => ImportedOnce
  BY RowFacts DEF RowInv, ImportedOnce, TypeOK
<1>3. IInv => TypeOK /\ QueuedOnce
  BY DEF IInv, QueueInv
<1>4. WorkedOnce <=> QueuedOnce /\ ImportedOnce
  BY DEF WorkedOnce
<1>5. TypeOK /\ RowInv /\ [Next]_vars => RowInv'
  BY StepRows
<1>6. QED
  BY <1>1, <1>2, <1>3, <1>4, <1>5, Invariant, PTL DEF Spec

LEMMA StepCursor == IInv /\ CursorIsBehind /\ [Next]_vars => CursorIsBehind'
<1> SUFFICES ASSUME IInv, CursorIsBehind, [Next]_vars PROVE CursorIsBehind'
  OBVIOUS
<1>0. TypeOK /\ ReadingInv /\ latest \in Nat /\ cursor \in Nat /\ \A h \in saves : h \in Nat
  BY DEF IInv, TypeOK
<1>1. CASE Read
  <2>1. /\ loop = "read" /\ loop' = "read" /\ cursor' = cursor
        /\ saves' \subseteq saves \cup {latest'} /\ latest' = Height[pos]
        /\ pos <= end
    BY <1>1 DEF Read, database
  <2>2. latest <= latest' /\ latest' \in Nat
    BY <1>0, <2>1, ConstantFacts DEF ReadingInv, TypeOK
  <2>3. QED
    BY <1>0, <2>1, <2>2 DEF CursorIsBehind
<1>2. CASE StartCrawler
  <2>1. saves' = {} /\ latest' = cursor /\ cursor' = cursor
    BY <1>0, <1>2 DEF StartCrawler, ReadingInv, database
  <2>2. QED
    BY <1>0, <2>1 DEF CursorIsBehind
<1>3. CASE SaveLands
  BY <1>0, <1>3 DEF SaveLands, CursorIsBehind, reading
<1>4. CASE Crash \/ Reject
  BY <1>4 DEF Crash, Reject, Stop, CursorIsBehind
<1>5. CASE Ask \/ Finish \/ Delay \/ Hang
  <2>1. loop # "off" /\ UNCHANGED <<cursor, saves, latest>>
    BY <1>5 DEF Ask, Finish, Delay, Hang, database
  <2>2. QED
    BY <2>1 DEF CursorIsBehind
<1>6. CASE Work \/ Mine \/ Other \/ UNCHANGED vars
  <2>1. UNCHANGED <<cursor, saves, latest, loop>>
    BY <1>6 DEF Work, Take, Lookup, Check, GiveUp, Create, Done, Mine, Other, OtherChecks,
                OtherCreates, vars, database, reading
  <2>2. QED
    BY <2>1 DEF CursorIsBehind
<1>7. QED
  BY <1>1, <1>2, <1>3, <1>4, <1>5, <1>6 DEF Next, Loop

\* In whatever order the un-awaited saves land, the saved block is never above the
\* block that this process, or the one before it, has read.
THEOREM CursorNeverAhead == Spec => []CursorIsBehind
<1>1. Init => CursorIsBehind
  BY DEF Init, CursorIsBehind
<1>2. QED
  BY <1>1, StepCursor, Invariant, PTL DEF Spec

-----------------------------------------------------------------------------
(* What a step may lose.                                                   *)

\* A chunk moves the messages of its transaction from the response to the queue, and
\* the block it carries passes only transactions that were read before.
LEMMA ReadLosesNothing == IInv /\ Read => Lost' \subseteq Lost
<1> SUFFICES ASSUME IInv, Read, NEW r \in Lost' PROVE r \in Lost
  OBVIOUS
<1>0. TypeOK /\ ReadingInv
  BY DEF IInv
<1>1. /\ loop = "read" /\ loop' = "read" /\ pos \in Item /\ pos <= end /\ end \in Nat
      /\ end' = end /\ pos' = pos + 1 /\ latest' = Height[pos] /\ imported' = imported
      /\ UNCHANGED <<busy, stage, todo, making>> /\ latest \in Nat
      /\ queue' = queue \o Messages(pos)
  BY <1>0, ConstantFacts DEF Read, TypeOK, database, worker
<1>2. /\ r \in Row /\ imported[r] = 0 /\ ~Pending(r)'
  BY <1>1 DEF Lost
<1>3. PICK n \in Item : /\ Height[n] <= Height[pos]
                        /\ \E m \in Carried(n) : Names[m] = Of[r]
  BY <1>1 DEF Lost, Passed, ReadTo
<1>4. Queued \subseteq Queued' /\ Carried(pos) \subseteq Queued'
  <2>1. queue \in Seq(Message)
    BY <1>0 DEF TypeOK
  <2>2. /\ \A i \in DOMAIN queue : i \in DOMAIN queue' /\ queue'[i] = queue[i]
        /\ \A m \in Carried(pos) : \E i \in DOMAIN queue' : queue'[i] = m
    <3>1. PushOf(queue, queue \o Messages(pos), pos)
      BY <1>1, <2>1, PushFacts
    <3>2. PushOf(queue, queue', pos)
      BY <1>1, <3>1
    <3>3. QED
      BY <3>2 DEF PushOf
  <2>3. QED
    BY <2>2 DEF Queued
<1>5. Queued \cup InHand \cup Unread \subseteq (Queued \cup InHand \cup Unread)'
  <2>1. \A k \in pos..end : k = pos \/ k \in pos'..end'
    BY <1>1, ConstantFacts
  <2>2. Unread \subseteq Carried(pos) \cup Unread'
    BY <1>1, <2>1 DEF Unread, Carried
  <2>3. InHand' = InHand
    BY <1>1 DEF InHand
  <2>4. QED
    BY <1>4, <2>2, <2>3
<1>6. ~Pending(r)
  BY <1>1, <1>2, <1>5 DEF Pending
\* n is not in the response any more, nor is it the chunk that was read.
<1>7. n \notin pos..end
  BY <1>1, <1>3, <1>6 DEF Pending, Unread
<1>8. n < pos
  <2>1. n <= end
    BY <1>0, <1>1, <1>3, ConstantFacts DEF ReadingInv
  <2>2. QED
    BY <1>1, <1>7, <2>1, ConstantFacts
<1>9. Height[n] <= latest
  BY <1>0, <1>1, <1>8 DEF ReadingInv
<1>10. Passed(n)
  BY <1>1, <1>9 DEF Passed, ReadTo
<1>11. QED
  BY <1>2, <1>3, <1>6, <1>10 DEF Lost

\* The worker drops a row only if its key is recorded or its import gave up.
LEMMA WorkLosesHidden ==
  IInv /\ (Work \/ Other) => \A r \in Lost' \ Lost : Hidden(r)'
<1> SUFFICES ASSUME IInv, Work \/ Other, NEW r \in Lost', r \notin Lost
             PROVE  Hidden(r)'
  OBVIOUS
<1>0. /\ TypeOK /\ imported \in [Row -> Nat] /\ Others \subseteq Row
      /\ todo \subseteq Row /\ making \subseteq Row
  BY RowFacts DEF IInv, TypeOK
<1>1. UNCHANGED <<reading, cursor>>
  BY DEF Work, Take, Lookup, Check, GiveUp, Create, Done, Other, OtherChecks, OtherCreates, database
<1>2. ReadTo' = ReadTo /\ Unread' = Unread
  BY <1>1 DEF reading, ReadTo, Unread
<1>3. \A s \in Row : imported[s] <= imported'[s] /\ imported[s] \in Nat /\ imported'[s] \in Nat
  BY <1>0 DEF Work, Take, Lookup, Check, GiveUp, Create, Done, Other, OtherChecks, OtherCreates, database
<1>4. r \in Row /\ imported'[r] = 0 /\ imported[r] = 0 /\ ~Pending(r)'
  BY <1>3 DEF Lost
<1>5. Pending(r)
  BY <1>2, <1>4 DEF Lost, Passed
<1>6. CASE Take
  <2>1. /\ queue \in Seq(Message) /\ queue # <<>> /\ stage' = "lookup"
        /\ busy' = Head(queue) /\ queue' = Tail(queue) /\ InHand = {}
        /\ UNCHANGED <<todo, making>>
    BY <1>0, <1>6 DEF Take, TypeOK, InHand
  <2>2. \A i \in DOMAIN queue : queue[i] = busy' \/ queue[i] \in Queued'
    <3>1. TAKE i \in DOMAIN queue
    <3>2. i = 1 \/ (i - 1 \in DOMAIN Tail(queue) /\ Tail(queue)[i - 1] = queue[i])
      BY <2>1, TailFacts, QueueFacts
    <3>3. QED
      BY <2>1, <3>2, TailFacts DEF Queued
  <2>3. Queued \cup InHand \subseteq (Queued \cup InHand)'
    BY <2>1, <2>2 DEF Queued, InHand
  <2>4. QED
    BY <1>2, <1>4, <1>5, <2>1, <2>3 DEF Pending
<1>7. CASE Lookup
  <2>1. /\ UNCHANGED <<queue, making, imported>> /\ busy \in Message
        /\ todo = {} /\ making = {} /\ stage = "lookup"
    BY <1>0, <1>7 DEF Lookup, database, TypeOK, Nobody
  <2>2. Names[busy] = Of[r]
    BY <1>2, <1>4, <1>5, <2>1 DEF Pending, InHand, Queued
  <2>3. CASE Found(busy)
    <3>1. Points[busy] \in Row /\ imported[Points[busy]] > 0 /\ Key[Points[busy]] = Key[r]
      BY <1>4, <2>1, <2>2, <2>3, RowFacts DEF Found
    <3>2. QED
      BY <2>1, <3>1 DEF Hidden, Recorded
  <2>4. CASE ~Found(busy)
    <3>1. r \in todo'
      BY <1>4, <1>7, <2>2, <2>4 DEF Lookup
    <3>2. QED
      BY <1>4, <3>1 DEF Pending
  <2>5. QED
    BY <2>3, <2>4
<1>8. CASE \E s \in Row : Check(s)
  <2>1. PICK s \in Row : Check(s)
    BY <1>8
  <2>2. /\ UNCHANGED <<queue, busy, stage, imported>> /\ todo' = todo \ {s}
        /\ making' = IF Recorded(Key[s]) THEN making ELSE making \cup {s}
    BY <2>1 DEF Check, database
  <2>3. r = s /\ Recorded(Key[s])
    BY <1>2, <1>4, <1>5, <2>2 DEF Pending, Queued, InHand
  <2>4. QED
    BY <2>2, <2>3 DEF Hidden, Recorded
<1>9. CASE \E s \in Row : GiveUp(s)
  <2>1. PICK s \in Row : GiveUp(s)
    BY <1>9
  <2>2. /\ UNCHANGED <<queue, busy, stage, making>> /\ todo' = todo \ {s} /\ s \in Orphans
    BY <2>1 DEF GiveUp
  <2>3. r = s
    BY <1>2, <1>4, <1>5, <2>2 DEF Pending, Queued, InHand
  <2>4. QED
    BY <2>2, <2>3 DEF Hidden
<1>10. CASE \E s \in Row : Create(s)
  <2>1. PICK s \in Row : Create(s)
    BY <1>10
  <2>2. /\ UNCHANGED <<queue, busy, stage, todo>> /\ making' = making \ {s}
        /\ imported' = [imported EXCEPT ![s] = @ + 1]
    BY <2>1 DEF Create
  <2>3. r # s
    BY <1>0, <1>4, <2>2
  <2>4. QED
    BY <1>2, <1>4, <1>5, <2>2, <2>3 DEF Pending, Queued, InHand
<1>11. CASE Done
  <2>1. /\ UNCHANGED <<queue, todo, making>> /\ stage = "import"
    BY <1>11 DEF Done
  <2>2. QED
    BY <1>2, <1>4, <1>5, <2>1 DEF Pending, Queued, InHand
<1>12. CASE Other
  <2>1. UNCHANGED <<queue, busy, stage, todo, making>>
    BY <1>12 DEF Other, OtherChecks, OtherCreates, worker
  <2>2. QED
    BY <1>2, <1>4, <1>5, <2>1 DEF Pending, Queued, InHand
<1>13. QED
  BY <1>6, <1>7, <1>8, <1>9, <1>10, <1>11, <1>12 DEF Work

\* Whatever the chain and its messages, a step that neither stops the process nor
\* hangs the loop loses no row but one that the importer takes another row for, or
\* a proof whose job cannot be recorded: latestBlock never passes a message that is
\* not queued, in hand or still in the response.
THEOREM OnlyStopsOrSiblingsLoseRows == Spec => OnlyStopsOrSiblingsLose
<1>1. IInv /\ [Next]_vars =>
        [loop' \in {"off", "hung"} \/ \A r \in Lost' \ Lost : Hidden(r)']_vars
  <2> SUFFICES ASSUME IInv, [Next]_vars, loop' \notin {"off", "hung"}, NEW r \in Lost', r \notin Lost
               PROVE  Hidden(r)'
    OBVIOUS
  <2> USE DEF Lost, Passed, ReadTo, Pending, Unread, Queued, InHand
  <2>1. CASE Read
    BY <2>1, ReadLosesNothing
  <2>2. CASE Work \/ Other
    BY <2>2, WorkLosesHidden
  <2>3. CASE StartCrawler
    BY <2>3 DEF StartCrawler, database, worker
  <2>4. CASE Ask
    BY <2>4 DEF Ask, database, worker
  <2>5. CASE Finish
    <3>1. pos > end /\ pos \in Nat /\ end \in Nat
      BY <2>5, ConstantFacts DEF Finish, IInv, TypeOK
    <3>2. pos..end = {}
      BY <3>1
    <3>3. QED
      BY <2>5, <3>2 DEF Finish, database, worker
  <2>6. CASE Delay
    BY <2>6 DEF Delay, database, worker
  <2>7. CASE SaveLands
    <3>1. loop # "off"
      BY <2>7 DEF SaveLands, IInv, ReadingInv
    <3>2. QED
      BY <2>7, <3>1 DEF SaveLands, reading, worker
  <2>8. CASE Mine
    BY <2>8 DEF Mine, database, reading, worker
  <2>9. CASE Hang \/ Crash \/ Reject
    BY <2>9 DEF Hang, Crash, Reject, Stop
  <2>10. CASE UNCHANGED vars
    BY <2>10 DEF vars, reading, worker
  <2>11. QED
    BY <2>1, <2>2, <2>3, <2>4, <2>5, <2>6, <2>7, <2>8, <2>9, <2>10 DEF Next, Loop
<1>2. QED
  BY <1>1, Invariant, PTL DEF Spec, OnlyStopsOrSiblingsLose
=============================================================================
