--------------------------- MODULE EventBusProofs ---------------------------
(***************************************************************************)
(* Theorems about EventBus, for any processes, consumers, clients, events, *)
(* number of deliveries a consumer holds, and number of stops.             *)
(***************************************************************************)
EXTENDS EventBus, SequenceTheorems, TLAPS

-----------------------------------------------------------------------------
(* Consumers, keys and the log.                                            *)

Held == [event : Event, done : BOOLEAN]

Reaches(a, s) == Url[s] \in Consumer[a].to
KeyFor(a)     == Consumer[a].key
QueueOf(a)    == Consumer[a].queue

\* Consumers of one queue are bound by one key, and no client is reached by two of
\* them, nor by two consumers of one key.
LEMMA ConsumersApart ==
  ASSUME NEW a \in Started, NEW b \in Started
  PROVE  /\ KeyFor(a) \in {"question", "job", "proof", "bmap"}
         /\ QueueOf(a) = QueueOf(b) => KeyFor(a) = KeyFor(b)
         /\ \A s : Reaches(a, s) /\ Reaches(b, s) /\ KeyFor(a) = KeyFor(b) => a = b
         /\ \A s : Reaches(a, s) => KeyFor(a) \in {"question", "job", "proof"}
<1>1. /\ \A c \in DOMAIN Actors : Consumer[c] = Actors[c]
      /\ \A c \in DOMAIN IoActors : Consumer[c] = IoActors[c]
      /\ \A c \in DOMAIN SlackActors : Consumer[c] = SlackActors[c]
      /\ \A c \in DOMAIN IngestActors : Consumer[c] = IngestActors[c]
  BY DEF Consumer, Actors, IoActors, SlackActors, IngestActors
<1>2. /\ Consumer["wsQuestion"] = [key |-> "question", queue |-> "question_websockets", to |-> {}]
      /\ Consumer["wsJob"] = [key |-> "job", queue |-> "job_websockets", to |-> Hearing]
      /\ Consumer["wsProof"] = [key |-> "proof", queue |-> "proof_websockets", to |-> Hearing]
  BY <1>1 DEF Actors
<1>3. /\ Consumer["ioQuestion"] = [key |-> "question", queue |-> "question_websockets", to |-> {"io"}]
      /\ Consumer["ioJob"] = [key |-> "job", queue |-> "job_socketio", to |-> {"io"}]
      /\ Consumer["ioProof"] = [key |-> "proof", queue |-> "proof_socketio", to |-> {"io"}]
  BY <1>1 DEF IoActors
<1>4. /\ Consumer["slackJob"] = [key |-> "job", queue |-> "job_slack", to |-> {}]
      /\ Consumer["slackProof"] = [key |-> "proof", queue |-> "proof_slack", to |-> {}]
      /\ Consumer["ingest"] = [key |-> "bmap", queue |-> "ingest_bmap_transaction", to |-> {}]
  BY <1>1 DEF SlackActors, IngestActors
<1>5. Started \subseteq {"wsQuestion", "wsJob", "wsProof", "ioQuestion", "ioJob", "ioProof",
                        "slackJob", "slackProof", "ingest"}
  BY StartedAssumption DEF Consumer, Actors, IoActors, SlackActors, IngestActors
<1>6. ASSUME NEW c \in Started
      PROVE  \/ KeyFor(c) = "question" /\ QueueOf(c) = "question_websockets"
             \/ KeyFor(c) = "job" /\ QueueOf(c) \in {"job_websockets", "job_socketio", "job_slack"}
             \/ KeyFor(c) = "proof" /\ QueueOf(c) \in {"proof_websockets", "proof_socketio", "proof_slack"}
             \/ KeyFor(c) = "bmap" /\ QueueOf(c) = "ingest_bmap_transaction"
  <2>1. CASE c \in {"wsQuestion", "wsJob", "wsProof"}
    BY <1>2, <2>1 DEF KeyFor, QueueOf
  <2>2. CASE c \in {"ioQuestion", "ioJob", "ioProof"}
    BY <1>3, <2>2 DEF KeyFor, QueueOf
  <2>3. CASE c \in {"slackJob", "slackProof", "ingest"}
    BY <1>4, <2>3 DEF KeyFor, QueueOf
  <2>4. QED
    BY <1>5, <2>1, <2>2, <2>3
<1>7. \A c \in Started : \A s : Reaches(c, s) =>
        \/ Url[s] = "io" /\ KeyFor(c) = "question" /\ c = "ioQuestion"
        \/ Url[s] = "io" /\ KeyFor(c) = "job" /\ c = "ioJob"
        \/ Url[s] = "io" /\ KeyFor(c) = "proof" /\ c = "ioProof"
        \/ Url[s] \in Hearing /\ KeyFor(c) = "job" /\ c = "wsJob"
        \/ Url[s] \in Hearing /\ KeyFor(c) = "proof" /\ c = "wsProof"
  BY <1>2, <1>3, <1>4, <1>5 DEF KeyFor, Reaches
<1>8. "io" \notin Hearing
  BY DEF Hearing
<1>9. QED
  BY <1>6, <1>7, <1>8

\* An event has one key of the consumers that reach clients, or one of the queues
\* that clients have for themselves.
LEMMA KeysApart ==
  ASSUME NEW e \in Event, NEW j \in {"question", "job", "proof"}, KeyedTo(e, j)
  PROVE  /\ \A k \in {"question", "job", "proof", "bmap"} : KeyedTo(e, k) => k = j
         /\ \A u \in Private : ~KeyedTo(e, PrivateKey[u])
<1>1. Kind[e] \in {"job", "proof", "question", "bmap", "message", "elsewhere"}
  BY BusAssumption DEF Keys
<1>2. /\ Keys["job"] = {"job"} /\ Keys["proof"] = {"proof"} /\ Keys["question"] = {"question"}
      /\ Keys["bmap"] = {"bmap"} /\ Keys["message"] = {"chat", "channel"} /\ Keys["elsewhere"] = {"chat"}
  BY DEF Keys
<1>3. \A u \in Private : PrivateKey[u] \in {"chat", "channel", "bmap"}
  BY DEF Private, PrivateKey
<1>4. QED
  BY <1>1, <1>2, <1>3 DEF KeyedTo

LEMMA KeyOfQueue ==
  ASSUME NEW a \in Started
  PROVE  QueueOf(a) \in Queue /\ KeyOf(QueueOf(a)) = KeyFor(a)
<1>1. QueueOf(a) \in Queue
  BY DEF Queue, QueueOf
<1>2. PICK c : c = CHOOSE b \in Started : Consumer[b].queue = QueueOf(a)
  OBVIOUS
<1>3. c \in Started /\ QueueOf(c) = QueueOf(a)
  BY <1>2 DEF QueueOf
<1>4. KeyOf(QueueOf(a)) = KeyFor(c)
  BY <1>2 DEF KeyOf, KeyFor
<1>5. QED
  BY <1>1, <1>3, <1>4, ConsumersApart

\* The log holds an event once, so that its position is its place.
Logged == log \in Seq(Event) /\ IsInjective(log)

LEMMA Positions ==
  ASSUME Logged, NEW e \in Range(log)
  PROVE  /\ Position(e) \in DOMAIN log /\ Position(e) \in Nat /\ log[Position(e)] = e
         /\ Position(e) <= Len(log)
         /\ \A i \in DOMAIN log : log[i] = e => i = Position(e)
<1>1. PICK i \in DOMAIN log : log[i] = e
  BY DEF Range
<1>2. Position(e) \in DOMAIN log /\ log[Position(e)] = e
  BY <1>1 DEF Position
<1>3. QED
  BY <1>2 DEF Logged, IsInjective

LEMMA LogGrows ==
  ASSUME Logged, NEW x \in Event, x \notin Range(log), log' = Append(log, x)
  PROVE  /\ Logged' /\ Range(log') = Range(log) \cup {x} /\ Range(log) \subseteq Range(log')
         /\ Position(x)' = Len(log) + 1 /\ Len(log) \in Nat
         /\ \A e \in Range(log) : Position(e)' = Position(e)
         /\ \A i \in DOMAIN log : i \in DOMAIN log' /\ log'[i] = log[i]
         /\ DOMAIN log' = DOMAIN log \cup {Len(log) + 1} /\ log'[Len(log) + 1] = x
<1>1. /\ log' \in Seq(Event) /\ Len(log) \in Nat /\ DOMAIN log = 1 .. Len(log)
      /\ DOMAIN log' = DOMAIN log \cup {Len(log) + 1} /\ log'[Len(log) + 1] = x
      /\ \A i \in DOMAIN log : log'[i] = log[i]
  BY DEF Logged
<1>2. IsInjective(log')
  BY <1>1 DEF Logged, IsInjective, Range
<1>3. Range(log') = Range(log) \cup {x}
  <2>1. \A e \in Range(log') : e \in Range(log) \cup {x}
    BY <1>1 DEF Range
  <2>2. \A e \in Range(log) \cup {x} : e \in Range(log')
    BY <1>1 DEF Range
  <2>3. QED
    BY <2>1, <2>2
<1>4. Logged'
  BY <1>1, <1>2 DEF Logged
<1>5. ASSUME NEW e \in Range(log) PROVE Position(e)' = Position(e)
  <2>1. Position(e) \in DOMAIN log' /\ log'[Position(e)] = e
    BY <1>1, <1>5, Positions
  <2>2. Position(e)' \in DOMAIN log' /\ log'[Position(e)'] = e
    BY <2>1 DEF Position
  <2>3. QED
    BY <1>2, <2>1, <2>2 DEF IsInjective
<1>6. Position(x)' \in DOMAIN log' /\ log'[Position(x)'] = x
  BY <1>1 DEF Position
<1>7. Position(x)' = Len(log) + 1
  BY <1>1, <1>2, <1>6 DEF IsInjective
<1>8. QED
  BY <1>1, <1>3, <1>4, <1>5, <1>7

-----------------------------------------------------------------------------
(* The inductive invariant.                                                *)

Slots(p, a) == DOMAIN unacked[p][a]
Ev(p, a, i) == unacked[p][a][i].event

BusTyped ==
  /\ Logged
  /\ up \subseteq Process /\ crashes \in 0 .. MaxCrashes
  /\ conn = [s \in Socket |-> conn[s]] /\ queue = [s \in Socket |-> queue[s]]
  /\ own = [s \in Socket |-> own[s]] /\ received = [s \in Socket |-> received[s]]
  /\ ready \in [Queue -> SUBSET Event] /\ handled \in [Queue -> SUBSET Event]
  /\ unacked \in [Process -> [Started -> Seq(Held)]]
  /\ \A q \in Queue : ready[q] \cup handled[q] \subseteq Range(log)
  /\ \A p \in Process, a \in Started : /\ unacked[p][a] # <<>> => p \in up
                                       /\ \A i \in Slots(p, a) : Ev(p, a, i) \in Range(log)

SocketTyped(s) ==
  /\ conn[s] \in {"new", "open", "closed"}
  /\ queue[s] \in {"none", "pending", "bound", "deleted", "orphan"}
  /\ queue[s] # "none" => Url[s] \in Private /\ conn[s] # "new"
  /\ own[s] \in Seq(Event) /\ received[s] \in Seq(Event)
  /\ own[s] # <<>> => queue[s] \in {"bound", "orphan"}
  /\ conn[s] = "new" => received[s] = <<>>
  /\ Range(own[s]) \cup Range(received[s]) \subseteq Range(log)

\* The broker holds one copy of an event for a queue: ready, or at one consumer.
OneCopy ==
  /\ \A a \in Started : \A e \in ready[QueueOf(a)] : KeyedTo(e, KeyFor(a))
  /\ \A p \in Process, a \in Started : \A i \in Slots(p, a) :
       /\ KeyedTo(Ev(p, a, i), KeyFor(a)) /\ Ev(p, a, i) \notin ready[QueueOf(a)]
       /\ \A r \in Process, b \in Started : \A j \in Slots(r, b) :
            QueueOf(a) = QueueOf(b) /\ Ev(p, a, i) = Ev(r, b, j) => p = r /\ a = b /\ i = j

\* What an open client was sent by a consumer is not delivered to it again: it is
\* acknowledged, or about to be by that consumer.
SentBy(s, a) ==
  \A e \in Range(received[s]) : KeyedTo(e, KeyFor(a)) =>
    /\ e \notin ready[QueueOf(a)]
    /\ \A p \in Process, b \in Started : \A i \in Slots(p, b) :
         QueueOf(b) = QueueOf(a) /\ Ev(p, b, i) = e => p = Home[s] /\ b = a /\ unacked[p][b][i].done

\* A stream is in the order of the log, and leaves out nothing after its first event.
Stream(s) ==
  LET key == PrivateKey[Url[s]] IN
  /\ \A e \in Range(own[s]) : KeyedTo(e, key)
  /\ InLogOrder(received[s], key) /\ InLogOrder(own[s], key)
  /\ \A d \in Range(received[s]), e \in Range(own[s]) : KeyedTo(d, key) => Position(d) < Position(e)
  /\ \A e \in Range(received[s]) \cup Range(own[s]), i \in DOMAIN log :
       KeyedTo(e, key) /\ KeyedTo(log[i], key) /\ Position(e) < i
         => log[i] \in Range(received[s]) \cup Range(own[s])

\* Until a process stops, a queue is in the order of the log: what a consumer holds,
\* then what is ready; and what a client was sent is before what it may yet be sent.
QueuesInOrder ==
  \A p \in Process, a \in Started : \A i \in Slots(p, a) :
    /\ \A j \in Slots(p, a) : i < j => Position(Ev(p, a, i)) < Position(Ev(p, a, j))
    /\ \A e \in ready[QueueOf(a)] : Position(Ev(p, a, i)) < Position(e)
InOrderBy(s, a) ==
  \A e \in Range(received[s]) : KeyedTo(e, KeyFor(a)) =>
    /\ \A d \in ready[QueueOf(a)] : Position(e) < Position(d)
    /\ \A i \in Slots(Home[s], a) :
         ~unacked[Home[s]][a][i].done => Position(e) < Position(Ev(Home[s], a, i))

SocketInv(s) ==
  /\ SocketTyped(s)
  /\ IsInjective(received[s])
  /\ conn[s] = "open" => \A a \in Started : Reaches(a, s) => SentBy(s, a)
  /\ conn[s] = "open" /\ queue[s] = "bound" => Stream(s)
  /\ conn[s] = "open" /\ queue[s] = "pending" =>
       \A e \in Range(received[s]) : ~KeyedTo(e, PrivateKey[Url[s]])
  /\ crashes = 0 => \A key \in {"job", "proof"} : InLogOrder(received[s], key)
  /\ crashes = 0 /\ conn[s] = "open" => \A a \in Started : Reaches(a, s) => InOrderBy(s, a)

IInv ==
  /\ BusTyped
  /\ OneCopy
  /\ crashes = 0 => QueuesInOrder
  /\ \A s \in Socket : SocketInv(s)

-----------------------------------------------------------------------------
(* Sequences.                                                              *)

LEMMA AppendFacts ==
  ASSUME NEW S, NEW seq \in Seq(S), NEW e \in S
  PROVE  /\ Append(seq, e) \in Seq(S) /\ Append(seq, e) # <<>> /\ Len(seq) \in Nat
         /\ DOMAIN seq = 1 .. Len(seq) /\ DOMAIN Append(seq, e) = DOMAIN seq \cup {Len(seq) + 1}
         /\ \A i \in DOMAIN seq : Append(seq, e)[i] = seq[i] /\ i < Len(seq) + 1 /\ i \in Nat
         /\ Append(seq, e)[Len(seq) + 1] = e
         /\ Range(Append(seq, e)) = Range(seq) \cup {e}
<1>1. /\ Append(seq, e) \in Seq(S) /\ Append(seq, e) # <<>> /\ Len(seq) \in Nat
      /\ DOMAIN seq = 1 .. Len(seq) /\ DOMAIN Append(seq, e) = DOMAIN seq \cup {Len(seq) + 1}
      /\ \A i \in DOMAIN seq : Append(seq, e)[i] = seq[i] /\ i < Len(seq) + 1 /\ i \in Nat
      /\ Append(seq, e)[Len(seq) + 1] = e
  OBVIOUS
<1>2. \A x \in Range(Append(seq, e)) : x \in Range(seq) \cup {e}
  BY <1>1 DEF Range
<1>3. \A x \in Range(seq) \cup {e} : x \in Range(Append(seq, e))
  BY <1>1 DEF Range
<1>4. QED
  BY <1>1, <1>2, <1>3

LEMMA TailFacts ==
  ASSUME NEW S, NEW seq \in Seq(S), seq # <<>>
  PROVE  /\ Head(seq) \in S /\ Tail(seq) \in Seq(S) /\ Head(seq) = seq[1] /\ 1 \in DOMAIN seq
         /\ \A i \in DOMAIN Tail(seq) : i \in Nat /\ i + 1 \in DOMAIN seq /\ Tail(seq)[i] = seq[i + 1] /\ 1 < i + 1
         /\ Range(seq) = Range(Tail(seq)) \cup {Head(seq)}
<1>1. /\ Head(seq) \in S /\ Tail(seq) \in Seq(S) /\ Head(seq) = seq[1] /\ 1 \in DOMAIN seq
      /\ \A i \in DOMAIN Tail(seq) : i \in Nat /\ i + 1 \in DOMAIN seq /\ Tail(seq)[i] = seq[i + 1] /\ 1 < i + 1
      /\ \A i \in DOMAIN seq : i = 1 \/ (i - 1 \in DOMAIN Tail(seq) /\ seq[i] = Tail(seq)[i - 1])
  OBVIOUS
<1>2. ASSUME NEW x \in Range(seq) PROVE x \in Range(Tail(seq)) \cup {Head(seq)}
  <2>1. PICK i \in DOMAIN seq : seq[i] = x
    BY DEF Range
  <2>2. i = 1 \/ \E k \in DOMAIN Tail(seq) : x = Tail(seq)[k]
    BY <1>1, <2>1
  <2>3. QED
    BY <1>1, <2>1, <2>2 DEF Range
<1>3. \A x \in Range(Tail(seq)) \cup {Head(seq)} : x \in Range(seq)
  BY <1>1 DEF Range
<1>4. QED
  BY <1>1, <1>2, <1>3

\* An event that is last in a sequence, or is not of the key, keeps it in order.
LEMMA AppendInOrder ==
  ASSUME NEW key, NEW seq \in Seq(Event), NEW e \in Event, InLogOrder(seq, key),
         KeyedTo(e, key) => \A d \in Range(seq) : KeyedTo(d, key) => Position(d) < Position(e)
  PROVE  InLogOrder(Append(seq, e), key)
<1>1. SUFFICES ASSUME NEW i \in DOMAIN Append(seq, e), NEW j \in DOMAIN Append(seq, e), i < j,
                      KeyedTo(Append(seq, e)[i], key), KeyedTo(Append(seq, e)[j], key)
               PROVE  Position(Append(seq, e)[i]) < Position(Append(seq, e)[j])
  BY DEF InLogOrder
<1>2. i \in DOMAIN seq /\ (j \in DOMAIN seq \/ j = Len(seq) + 1)
  BY <1>1, AppendFacts
<1>3. CASE j \in DOMAIN seq
  BY <1>1, <1>2, <1>3, AppendFacts DEF InLogOrder
<1>4. CASE j = Len(seq) + 1
  BY <1>1, <1>2, <1>4, AppendFacts DEF Range
<1>5. QED
  BY <1>2, <1>3, <1>4

LEMMA TailInOrder ==
  ASSUME NEW key, NEW seq \in Seq(Event), seq # <<>>, InLogOrder(seq, key)
  PROVE  /\ InLogOrder(Tail(seq), key)
         /\ \A e \in Range(Tail(seq)) :
              KeyedTo(Head(seq), key) /\ KeyedTo(e, key) => Position(Head(seq)) < Position(e)
<1>1. InLogOrder(Tail(seq), key)
  BY TailFacts DEF InLogOrder
<1>2. QED
  BY TailFacts DEF InLogOrder, Range

-----------------------------------------------------------------------------
(* Sockets that are left alone.                                            *)

BusKeeps    == UNCHANGED <<ready, unacked, log, handled, crashes>>
SocketKeeps(s) ==
  /\ conn'[s] = conn[s] /\ queue'[s] = queue[s] /\ own'[s] = own[s] /\ received'[s] = received[s]

LEMMA SocketStays ==
  ASSUME NEW s \in Socket, SocketInv(s), BusKeeps, SocketKeeps(s)
  PROVE  SocketInv(s)'
<1> USE DEF BusKeeps, SocketKeeps
<1>1. SocketTyped(s)'
  BY DEF SocketInv, SocketTyped
<1>2. \A a \in Started : (SentBy(s, a) => SentBy(s, a)') /\ (InOrderBy(s, a) => InOrderBy(s, a)')
  BY DEF SentBy, InOrderBy, Slots, Ev, Position
<1>3. Stream(s) => Stream(s)'
  BY DEF Stream, InLogOrder, Position
<1>4. \A key : InLogOrder(received[s], key) => InLogOrder(received[s], key)'
  BY DEF InLogOrder, Position
<1>5. QED
  BY <1>1, <1>2, <1>3, <1>4 DEF SocketInv, Reaches

\* A step of one socket.
LEMMA SocketSteps ==
  ASSUME IInv, BusKeeps, up' = up, NEW s \in Socket, SocketInv(s)',
         conn' = [conn EXCEPT ![s] = conn'[s]], queue' = [queue EXCEPT ![s] = queue'[s]],
         own' = [own EXCEPT ![s] = own'[s]], received' = [received EXCEPT ![s] = received'[s]]
  PROVE  IInv'
<1> USE DEF BusKeeps
<1>1. BusTyped'
  BY DEF IInv, BusTyped, Logged, IsInjective, Slots, Ev
<1>2. OneCopy' /\ (crashes' = 0 => QueuesInOrder')
  <2>1. OneCopy'
    BY DEF IInv, OneCopy, Slots, Ev
  <2>2. QueuesInOrder => QueuesInOrder'
    <3>1. /\ \A x : Position(x)' = Position(x)
          /\ \A p, a : Slots(p, a)' = Slots(p, a) /\ \A i : Ev(p, a, i)' = Ev(p, a, i)
      BY DEF Slots, Ev, Position
    <3>2. QED
      BY <3>1 DEF QueuesInOrder
  <2>3. QED
    BY <2>1, <2>2 DEF IInv
<1>3. ASSUME NEW g \in Socket PROVE SocketInv(g)'
  <2>1. CASE g = s
    BY <2>1
  <2>2. CASE g # s
    <3>1. SocketKeeps(g)
      BY <2>2 DEF IInv, BusTyped, SocketKeeps
    <3>2. QED
      BY <3>1, SocketStays DEF IInv
  <2>3. QED
    BY <2>1, <2>2
<1>4. QED
  BY <1>1, <1>2, <1>3 DEF IInv

LEMMA ConnectSteps ==
  ASSUME IInv, NEW s \in Socket, Connect(s)
  PROVE  IInv'
<1> USE DEF Connect
<1>1. SocketInv(s) /\ SocketTyped(s) /\ BusTyped
  BY DEF IInv, SocketInv
<1>2. received[s] = <<>> /\ own[s] = <<>> /\ conn[s] = "new" /\ queue[s] = "none"
  BY <1>1 DEF SocketTyped
<1>3. /\ conn'[s] = "open" /\ own'[s] = own[s] /\ received'[s] = received[s]
      /\ queue'[s] = (IF Url[s] \in Private THEN "pending" ELSE "none")
      /\ conn' = [conn EXCEPT ![s] = conn'[s]] /\ queue' = [queue EXCEPT ![s] = queue'[s]]
      /\ own' = [own EXCEPT ![s] = own'[s]] /\ received' = [received EXCEPT ![s] = received'[s]]
  BY <1>1 DEF BusTyped
<1>4. SocketTyped(s)'
  BY <1>1, <1>2, <1>3 DEF SocketTyped
<1>5. Range(<<>>) = {}
  BY DEF Range
<1>6. SocketInv(s)'
  BY <1>2, <1>3, <1>4, <1>5 DEF SocketInv, SentBy, InOrderBy, InLogOrder, IsInjective
<1>7. QED
  BY <1>3, <1>6, SocketSteps DEF BusKeeps

LEMMA GotChannelSteps ==
  ASSUME IInv, NEW s \in Socket, GotChannel(s)
  PROVE  IInv'
<1> USE DEF GotChannel
<1>1. SocketInv(s) /\ SocketTyped(s) /\ BusTyped
  BY DEF IInv, SocketInv
<1>2. own[s] = <<>> /\ Url[s] \in Private
  BY <1>1 DEF SocketTyped
<1>3. /\ queue'[s] = "bound" /\ conn'[s] = conn[s] /\ own'[s] = own[s] /\ received'[s] = received[s]
      /\ conn' = [conn EXCEPT ![s] = conn'[s]] /\ queue' = [queue EXCEPT ![s] = queue'[s]]
      /\ own' = [own EXCEPT ![s] = own'[s]] /\ received' = [received EXCEPT ![s] = received'[s]]
  BY <1>1 DEF BusTyped
<1>4. SocketTyped(s)'
  BY <1>1, <1>3 DEF SocketTyped
<1>5. Range(<<>>) = {}
  BY DEF Range
<1>6. conn[s] = "open" => Stream(s)'
  <2>1. SUFFICES ASSUME conn[s] = "open" PROVE Stream(s)'
    OBVIOUS
  <2>2. \A e \in Range(received[s]) : ~KeyedTo(e, PrivateKey[Url[s]])
    BY <1>1, <2>1 DEF SocketInv
  <2>3. InLogOrder(received[s], PrivateKey[Url[s]])' /\ InLogOrder(own[s], PrivateKey[Url[s]])'
    BY <1>2, <1>3, <2>2 DEF InLogOrder, Range
  <2>4. QED
    BY <1>2, <1>3, <1>5, <2>2, <2>3 DEF Stream
<1>7. \A a \in Started : (SentBy(s, a) => SentBy(s, a)') /\ (InOrderBy(s, a) => InOrderBy(s, a)')
  BY <1>3 DEF SentBy, InOrderBy, Slots, Ev, Position
<1>8. \A key : InLogOrder(received[s], key) => InLogOrder(received[s], key)'
  BY <1>3 DEF InLogOrder, Position
<1>9. SocketInv(s)'
  BY <1>1, <1>3, <1>4, <1>6, <1>7, <1>8 DEF SocketInv, Reaches
<1>10. QED
  BY <1>3, <1>9, SocketSteps DEF BusKeeps

LEMMA CloseSteps ==
  ASSUME IInv, NEW s \in Socket, Close(s)
  PROVE  IInv'
<1> USE DEF Close
<1>1. SocketInv(s) /\ SocketTyped(s) /\ BusTyped
  BY DEF IInv, SocketInv
<1>2. /\ conn'[s] = "closed" /\ own'[s] = <<>> /\ received'[s] = received[s]
      /\ queue'[s] = (IF queue[s] = "bound" THEN "deleted" ELSE queue[s])
      /\ conn' = [conn EXCEPT ![s] = conn'[s]] /\ queue' = [queue EXCEPT ![s] = queue'[s]]
      /\ own' = [own EXCEPT ![s] = own'[s]] /\ received' = [received EXCEPT ![s] = received'[s]]
  BY <1>1 DEF BusTyped
<1>3. SocketTyped(s)'
  <2>1. <<>> \in Seq(Event) /\ Range(<<>>) = {}
    BY DEF Range
  <2>2. QED
    BY <1>1, <1>2, <2>1 DEF SocketTyped
<1>4. \A key : InLogOrder(received[s], key) => InLogOrder(received[s], key)'
  BY <1>2 DEF InLogOrder, Position
<1>5. SocketInv(s)'
  BY <1>1, <1>2, <1>3, <1>4 DEF SocketInv
<1>6. QED
  BY <1>2, <1>5, SocketSteps DEF BusKeeps

LEMMA InjectiveAppend ==
  ASSUME NEW seq \in Seq(Event), NEW e \in Event, IsInjective(seq), e \notin Range(seq)
  PROVE  IsInjective(Append(seq, e))
<1>1. \A i \in DOMAIN seq : seq[i] # e
  BY DEF Range
<1>2. QED
  BY <1>1, AppendFacts DEF IsInjective

\* The head of a queue goes from one end of the stream to the other.
LEMMA HearSteps ==
  ASSUME IInv, NEW s \in Socket, Hear(s)
  PROVE  IInv'
<1> USE DEF Hear
<1>1. SocketInv(s) /\ SocketTyped(s) /\ BusTyped /\ Logged
  BY DEF IInv, SocketInv, BusTyped
<1>2. PICK e, rest, sent : e = Head(own[s]) /\ rest = Tail(own[s]) /\ sent = received[s]
  OBVIOUS
<1>3. /\ own[s] \in Seq(Event) /\ own[s] # <<>> /\ sent \in Seq(Event) /\ rest \in Seq(Event) /\ e \in Event
      /\ Range(own[s]) = Range(rest) \cup {e} /\ e \in Range(log) /\ Url[s] \in Private /\ conn[s] # "new"
  BY <1>1, <1>2, TailFacts DEF SocketTyped
<1>4. /\ conn'[s] = conn[s] /\ queue'[s] = queue[s] /\ queue[s] = "bound" /\ own'[s] = rest
      /\ received'[s] = (IF conn[s] = "open" THEN Append(sent, e) ELSE sent)
      /\ conn' = [conn EXCEPT ![s] = conn'[s]] /\ queue' = [queue EXCEPT ![s] = queue'[s]]
      /\ own' = [own EXCEPT ![s] = own'[s]] /\ received' = [received EXCEPT ![s] = received'[s]]
  BY <1>1, <1>2 DEF BusTyped
<1>5. /\ Append(sent, e) \in Seq(Event) /\ Append(sent, e) # <<>>
      /\ Range(Append(sent, e)) = Range(sent) \cup {e}
  BY <1>3, AppendFacts
<1>6. SocketTyped(s)'
  BY <1>1, <1>2, <1>3, <1>4, <1>5 DEF SocketTyped
<1>7. CASE conn[s] # "open"
  <2>1. \A key : InLogOrder(received[s], key) => InLogOrder(received[s], key)'
    BY <1>2, <1>4, <1>7 DEF InLogOrder, Position
  <2>2. IsInjective(received[s])'
    BY <1>1, <1>2, <1>4, <1>7 DEF SocketInv
  <2>3. SocketInv(s)'
    BY <1>1, <1>4, <1>6, <1>7, <2>1, <2>2 DEF SocketInv
  <2>4. QED
    BY <1>4, <2>3, SocketSteps DEF BusKeeps
<1>8. CASE conn[s] = "open"
  <2>a. received'[s] = Append(sent, e) /\ Range(received'[s]) = Range(sent) \cup {e}
    BY <1>4, <1>5, <1>8
  <2>1. PICK key : key = PrivateKey[Url[s]]
    OBVIOUS
  <2>2. /\ \A x \in Range(own[s]) : KeyedTo(x, key)
        /\ InLogOrder(sent, key) /\ InLogOrder(own[s], key)
        /\ \A d \in Range(sent), x \in Range(own[s]) : KeyedTo(d, key) => Position(d) < Position(x)
        /\ \A x \in Range(sent) \cup Range(own[s]), i \in DOMAIN log :
             KeyedTo(x, key) /\ KeyedTo(log[i], key) /\ Position(x) < i
               => log[i] \in Range(sent) \cup Range(own[s])
    BY <1>1, <1>2, <1>4, <1>8, <2>1 DEF SocketInv, Stream
  <2>3. /\ KeyedTo(e, key) /\ e \notin Range(sent)
        /\ \A j \in {"question", "job", "proof"} : ~KeyedTo(e, j)
    <3>1. KeyedTo(e, key) /\ Position(e) \in Nat
      BY <1>1, <1>3, <2>2, Positions
    <3>2. e \notin Range(sent)
      BY <1>3, <2>2, <3>1
    <3>3. QED
      BY <1>3, <2>1, <3>1, <3>2, KeysApart
  <2>4. Stream(s)'
    <3>1. InLogOrder(Append(sent, e), key)
      BY <1>3, <2>2, AppendInOrder
    <3>2. /\ InLogOrder(rest, key)
          /\ \A x \in Range(rest) : KeyedTo(x, key) /\ Position(e) < Position(x)
      BY <1>2, <1>3, <2>2, <2>3, TailInOrder
    <3>4. \A x : Position(x)' = Position(x)
      BY DEF Position
    <3>3. InLogOrder(Append(sent, e), key)' /\ InLogOrder(rest, key)'
      <4>1. \A seq : InLogOrder(seq, key) => InLogOrder(seq, key)'
        BY <3>4 DEF InLogOrder
      <4>2. QED
        BY <3>1, <3>2, <4>1
    <3>5. \A d \in Range(sent) \cup {e}, x \in Range(rest) : KeyedTo(d, key) => Position(d) < Position(x)
      BY <1>3, <2>2, <3>2
    <3>6. \A x \in Range(sent) \cup {e} \cup Range(rest), i \in DOMAIN log :
            KeyedTo(x, key) /\ KeyedTo(log[i], key) /\ Position(x) < i
              => log[i] \in Range(sent) \cup {e} \cup Range(rest)
      BY <1>3, <2>2
    <3>7. received'[s] = Append(sent, e)
      BY <1>4, <1>8
    <3>8. QED
      BY <1>4, <1>5, <2>1, <3>2, <3>3, <3>4, <3>5, <3>6, <3>7 DEF Stream
  <2>5. IsInjective(received'[s])
    BY <1>1, <1>2, <1>3, <1>4, <1>8, <2>3, InjectiveAppend DEF SocketInv
  <2>6. ASSUME NEW a \in Started, Reaches(a, s)
        PROVE  SentBy(s, a)' /\ (crashes = 0 => InOrderBy(s, a)')
    <3>1. ~KeyedTo(e, KeyFor(a))
      BY <2>3, <2>6, ConsumersApart
    <3>2. \A x \in Range(received'[s]) : KeyedTo(x, KeyFor(a)) => x \in Range(sent)
      BY <2>a, <3>1
    <3>3. SentBy(s, a) /\ (crashes = 0 => InOrderBy(s, a))
      BY <1>1, <1>8, <2>6 DEF SocketInv
    <3>4. SentBy(s, a)'
      BY <1>2, <3>2, <3>3 DEF SentBy, Slots, Ev
    <3>5. crashes = 0 => InOrderBy(s, a)'
      <4>1. ASSUME crashes = 0, NEW x \in Range(sent), KeyedTo(x, KeyFor(a))
            PROVE  /\ \A d \in ready[QueueOf(a)] : Position(x) < Position(d)
                   /\ \A i \in Slots(Home[s], a) :
                        ~unacked[Home[s]][a][i].done => Position(x) < Position(Ev(Home[s], a, i))
        BY <1>2, <3>3, <4>1 DEF InOrderBy
      <4>2. /\ \A x : Position(x)' = Position(x) /\ ready' = ready /\ unacked' = unacked
        BY DEF Position
      <4>3. QED
        BY <3>2, <4>1, <4>2 DEF InOrderBy, Slots, Ev
    <3>6. QED
      BY <3>4, <3>5
  <2>7. ASSUME crashes = 0, NEW k \in {"job", "proof"} PROVE InLogOrder(received[s], k)'
    <3>1. InLogOrder(sent, k)
      BY <1>1, <1>2, <2>7 DEF SocketInv
    <3>2. InLogOrder(Append(sent, e), k)
      BY <1>3, <2>3, <3>1, AppendInOrder
    <3>3. InLogOrder(Append(sent, e), k)'
      BY <3>2 DEF InLogOrder, Position
    <3>4. QED
      BY <2>a, <3>3
  <2>8. SocketInv(s)'
    BY <1>4, <1>6, <1>8, <2>4, <2>5, <2>6, <2>7 DEF SocketInv, Reaches
  <2>9. QED
    BY <1>4, <2>8, SocketSteps DEF BusKeeps
<1>9. QED
  BY <1>7, <1>8

-----------------------------------------------------------------------------
(* The consumers of the shared queues.                                     *)

\* A step of the broker that no client sees.
LEMMA QueueSteps ==
  ASSUME IInv, UNCHANGED <<conn, queue, own, received, log, crashes>>,
         BusTyped', OneCopy', crashes = 0 => QueuesInOrder',
         \A s \in Socket, a \in Started : conn[s] = "open" /\ Reaches(a, s) =>
           SentBy(s, a)' /\ (crashes = 0 => InOrderBy(s, a)')
  PROVE  IInv'
<1>1. ASSUME NEW s \in Socket PROVE SocketInv(s)'
  <2>1. SocketInv(s) /\ SocketTyped(s)'
    BY DEF IInv, SocketInv, SocketTyped
  <2>2. Stream(s) => Stream(s)'
    BY DEF Stream, InLogOrder, Position
  <2>3. \A key : InLogOrder(received[s], key) => InLogOrder(received[s], key)'
    BY DEF InLogOrder, Position
  <2>4. QED
    BY <2>1, <2>2, <2>3 DEF SocketInv, Reaches
<1>2. QED
  BY <1>1 DEF IInv

\* An acknowledgement moves the deliveries that are left up by one.
LEMMA AckSteps ==
  ASSUME IInv, NEW p \in Process, NEW a \in Started, Ack(p, a)
  PROVE  IInv'
<1> USE DEF Ack
<1>1. BusTyped /\ OneCopy /\ unacked[p][a] \in Seq(Held) /\ unacked[p][a] # <<>>
  BY DEF IInv, BusTyped
<1>2. PICK held : held = Tail(unacked[p][a])
  OBVIOUS
<1>3. held \in Seq(Held)
  BY <1>1, <1>2, TailFacts
<1>4. /\ unacked' \in [Process -> [Started -> Seq(Held)]] /\ unacked'[p][a] = held
      /\ \A r \in Process, b \in Started : ~(r = p /\ b = a) => unacked'[r][b] = unacked[r][b]
  <2>1. unacked' = [unacked EXCEPT ![p] = [unacked[p] EXCEPT ![a] = held]]
    BY <1>2
  <2>2. QED
    <3>1. unacked \in [Process -> [Started -> Seq(Held)]]
      BY <1>1 DEF BusTyped
    <3>2. unacked' \in [Process -> [Started -> Seq(Held)]] /\ unacked'[p][a] = held
      BY <1>3, <2>1, <3>1
    <3>3. \A r \in Process, b \in Started : ~(r = p /\ b = a) => unacked'[r][b] = unacked[r][b]
      BY <2>1, <3>1
    <3>4. QED
      BY <3>2, <3>3
<1> DEFINE Gone(r, b) == IF r = p /\ b = a THEN 1 ELSE 0
<1>5. ASSUME NEW r \in Process, NEW b \in Started, NEW i \in Slots(r, b)'
      PROVE  /\ i \in Nat /\ i + Gone(r, b) \in Slots(r, b)
             /\ unacked'[r][b][i] = unacked[r][b][i + Gone(r, b)]
  <2>1. CASE r = p /\ b = a
    BY <1>1, <1>2, <1>4, <2>1, TailFacts DEF Slots
  <2>2. CASE ~(r = p /\ b = a)
    <3>1. unacked'[r][b] = unacked[r][b] /\ unacked[r][b] \in Seq(Held)
      BY <1>1, <1>4, <2>2 DEF BusTyped
    <3>2. QED
      BY <2>2, <3>1 DEF Slots
  <2>3. QED
    BY <2>1, <2>2
<1>6. \A r \in Process, b \in Started : Gone(r, b) \in Nat
  OBVIOUS
<1> HIDE DEF Gone
<1>7. BusTyped'
  <2>1. ASSUME NEW r \in Process, NEW b \in Started, unacked'[r][b] # <<>> PROVE r \in up
    <3>1. unacked[r][b] # <<>>
      BY <1>1, <1>4, <2>1
    <3>2. QED
      BY <1>1, <3>1 DEF BusTyped
  <2>2. ASSUME NEW r \in Process, NEW b \in Started, NEW i \in Slots(r, b)' PROVE Ev(r, b, i)' \in Range(log)
    <3>1. i + Gone(r, b) \in Slots(r, b) /\ Ev(r, b, i)' = Ev(r, b, i + Gone(r, b))
      BY <1>5 DEF Ev
    <3>2. QED
      BY <1>1, <3>1 DEF BusTyped
  <2>3. QED
    BY <1>1, <1>4, <2>1, <2>2 DEF BusTyped, Logged, IsInjective
<1>8. OneCopy'
  <2>1. \A r \in Process, b \in Started : \A i \in Slots(r, b)' :
          /\ KeyedTo(Ev(r, b, i)', KeyFor(b)) /\ Ev(r, b, i)' \notin ready[QueueOf(b)]
          /\ \A q \in Process, c \in Started : \A j \in Slots(q, c)' :
               QueueOf(b) = QueueOf(c) /\ Ev(r, b, i)' = Ev(q, c, j)' => r = q /\ b = c /\ i = j
    <3>1. SUFFICES ASSUME NEW r \in Process, NEW b \in Started, NEW i \in Slots(r, b)'
                   PROVE  /\ KeyedTo(Ev(r, b, i)', KeyFor(b)) /\ Ev(r, b, i)' \notin ready[QueueOf(b)]
                          /\ \A q \in Process, c \in Started : \A j \in Slots(q, c)' :
                               QueueOf(b) = QueueOf(c) /\ Ev(r, b, i)' = Ev(q, c, j)'
                                 => r = q /\ b = c /\ i = j
      OBVIOUS
    <3>2. i \in Nat /\ i + Gone(r, b) \in Slots(r, b) /\ Ev(r, b, i)' = Ev(r, b, i + Gone(r, b))
      BY <1>5 DEF Ev
    <3>3. KeyedTo(Ev(r, b, i)', KeyFor(b)) /\ Ev(r, b, i)' \notin ready[QueueOf(b)]
      BY <1>1, <3>2 DEF OneCopy
    <3>4. ASSUME NEW q \in Process, NEW c \in Started, NEW j \in Slots(q, c)',
                 QueueOf(b) = QueueOf(c), Ev(r, b, i)' = Ev(q, c, j)'
          PROVE  r = q /\ b = c /\ i = j
      <4>1. j \in Nat /\ j + Gone(q, c) \in Slots(q, c) /\ Ev(q, c, j)' = Ev(q, c, j + Gone(q, c))
        BY <1>5 DEF Ev
      <4>2. r = q /\ b = c /\ i + Gone(r, b) = j + Gone(q, c)
        BY <1>1, <3>2, <3>4, <4>1 DEF OneCopy
      <4>3. QED
        BY <1>6, <3>2, <4>1, <4>2
    <3>5. QED
      BY <3>3, <3>4
  <2>2. \A b \in Started : \A e \in ready'[QueueOf(b)] : KeyedTo(e, KeyFor(b))
    BY <1>1 DEF OneCopy
  <2>3. QED
    BY <2>1, <2>2 DEF OneCopy
<1>9. \A e : Position(e)' = Position(e)
  BY DEF Position
<1>10. ASSUME crashes = 0 PROVE QueuesInOrder'
  <2>1. SUFFICES ASSUME NEW r \in Process, NEW b \in Started, NEW i \in Slots(r, b)'
                 PROVE  /\ \A j \in Slots(r, b)' : i < j => Position(Ev(r, b, i)') < Position(Ev(r, b, j)')
                        /\ \A e \in ready[QueueOf(b)] : Position(Ev(r, b, i)') < Position(e)
    BY <1>9 DEF QueuesInOrder
  <2>2. QueuesInOrder
    BY <1>10 DEF IInv
  <2>3. i \in Nat /\ i + Gone(r, b) \in Slots(r, b) /\ Ev(r, b, i)' = Ev(r, b, i + Gone(r, b))
    BY <1>5 DEF Ev
  <2>4. ASSUME NEW j \in Slots(r, b)', i < j PROVE Position(Ev(r, b, i)') < Position(Ev(r, b, j)')
    <3>1. j \in Nat /\ j + Gone(r, b) \in Slots(r, b) /\ Ev(r, b, j)' = Ev(r, b, j + Gone(r, b))
      BY <1>5 DEF Ev
    <3>2. i + Gone(r, b) < j + Gone(r, b)
      BY <1>6, <2>3, <2>4, <3>1
    <3>3. QED
      BY <2>2, <2>3, <3>1, <3>2 DEF QueuesInOrder
  <2>5. QED
    BY <2>2, <2>3, <2>4 DEF QueuesInOrder
<1>11. ASSUME NEW s \in Socket, NEW b \in Started, conn[s] = "open", Reaches(b, s)
       PROVE  SentBy(s, b)' /\ (crashes = 0 => InOrderBy(s, b)')
  <2>1. SentBy(s, b) /\ (crashes = 0 => InOrderBy(s, b)) /\ Home[s] \in Process
    BY <1>11, BusAssumption DEF IInv, SocketInv
  <2>2. SentBy(s, b)'
    <3>1. ASSUME NEW e \in Range(received[s]), KeyedTo(e, KeyFor(b)),
                 NEW r \in Process, NEW c \in Started, NEW i \in Slots(r, c)',
                 QueueOf(c) = QueueOf(b), Ev(r, c, i)' = e
          PROVE  r = Home[s] /\ c = b /\ unacked'[r][c][i].done
      <4>1. i + Gone(r, c) \in Slots(r, c) /\ unacked'[r][c][i] = unacked[r][c][i + Gone(r, c)]
        BY <1>5
      <4>2. Ev(r, c, i + Gone(r, c)) = e
        BY <3>1, <4>1 DEF Ev
      <4>3. r = Home[s] /\ c = b /\ unacked[r][c][i + Gone(r, c)].done
        BY <2>1, <3>1, <4>1, <4>2 DEF SentBy
      <4>4. QED
        BY <4>1, <4>3
    <3>2. \A e \in Range(received[s]) : KeyedTo(e, KeyFor(b)) => e \notin ready[QueueOf(b)]
      BY <2>1 DEF SentBy
    <3>3. QED
      BY <3>1, <3>2 DEF SentBy
  <2>3. crashes = 0 => InOrderBy(s, b)'
    <3>1. SUFFICES ASSUME crashes = 0 PROVE InOrderBy(s, b)'
      OBVIOUS
    <3>2. ASSUME NEW e \in Range(received[s]), KeyedTo(e, KeyFor(b)), NEW i \in Slots(Home[s], b)',
                 ~unacked'[Home[s]][b][i].done
          PROVE  Position(e) < Position(Ev(Home[s], b, i)')
      <4>1. /\ i + Gone(Home[s], b) \in Slots(Home[s], b)
            /\ unacked'[Home[s]][b][i] = unacked[Home[s]][b][i + Gone(Home[s], b)]
        BY <1>5, <2>1
      <4>2. Ev(Home[s], b, i)' = Ev(Home[s], b, i + Gone(Home[s], b))
        BY <4>1 DEF Ev
      <4>3. QED
        BY <2>1, <3>1, <3>2, <4>1, <4>2 DEF InOrderBy
    <3>3. \A e \in Range(received[s]) : KeyedTo(e, KeyFor(b)) =>
            \A d \in ready[QueueOf(b)] : Position(e) < Position(d)
      BY <2>1, <3>1 DEF InOrderBy
    <3>4. QED
      BY <1>9, <3>2, <3>3 DEF InOrderBy
  <2>4. QED
    BY <2>2, <2>3
<1>12. QED
  BY <1>7, <1>8, <1>10, <1>11, QueueSteps

\* A delivery takes the oldest event of a queue behind what the consumer holds.
LEMMA DeliverSteps ==
  ASSUME IInv, NEW p \in Process, NEW a \in Started, Deliver(p, a)
  PROVE  IInv'
<1>1. BusTyped /\ OneCopy /\ Logged /\ unacked[p][a] \in Seq(Held)
  BY DEF IInv, BusTyped
<1>2. PICK e \in Event :
        /\ Oldest(e, ready[QueueOf(a)])
        /\ ready' = [ready EXCEPT ![QueueOf(a)] = @ \ {e}]
        /\ unacked' = [unacked EXCEPT ![p][a] = Append(@, Delivery(e))]
  BY DEF Deliver, QueueOf
<1>3. /\ UNCHANGED <<conn, queue, own, received, log, crashes, handled, up>>
      /\ p \in up
  BY DEF Deliver
<1>4. PICK held, n : held = Append(unacked[p][a], Delivery(e)) /\ n = Len(unacked[p][a]) + 1
  OBVIOUS
<1>5. Delivery(e) \in Held /\ Delivery(e).event = e /\ ~Delivery(e).done
  BY DEF Delivery, Held
<1>6. /\ held \in Seq(Held) /\ DOMAIN held = Slots(p, a) \cup {n} /\ held[n] = Delivery(e)
      /\ \A i \in Slots(p, a) : i \in Nat /\ i < n /\ held[i] = unacked[p][a][i]
      /\ n \in Nat
  BY <1>1, <1>4, <1>5, AppendFacts DEF Slots
<1>7. /\ unacked' \in [Process -> [Started -> Seq(Held)]] /\ unacked'[p][a] = held
      /\ \A r \in Process, b \in Started : ~(r = p /\ b = a) => unacked'[r][b] = unacked[r][b]
  <2>1. unacked' = [unacked EXCEPT ![p] = [unacked[p] EXCEPT ![a] = held]]
    BY <1>2, <1>4
  <2>2. BusTyped /\ held \in Seq(Held)
    BY <1>1, <1>6
  <2>3. QED
    <3>1. unacked \in [Process -> [Started -> Seq(Held)]]
      BY <2>2 DEF BusTyped
    <3>2. unacked' \in [Process -> [Started -> Seq(Held)]] /\ unacked'[p][a] = held
      BY <2>1, <2>2, <3>1
    <3>3. \A r \in Process, b \in Started : ~(r = p /\ b = a) => unacked'[r][b] = unacked[r][b]
      BY <2>1, <3>1
    <3>4. QED
      BY <3>2, <3>3
<1>8. ASSUME NEW r \in Process, NEW b \in Started, NEW i \in Slots(r, b)'
      PROVE  \/ /\ i \in Slots(r, b) /\ unacked'[r][b][i] = unacked[r][b][i] /\ Ev(r, b, i)' = Ev(r, b, i)
                /\ i \in Nat /\ (r = p /\ b = a => i < n)
             \/ r = p /\ b = a /\ i = n /\ Ev(r, b, i)' = e
  <2>1. CASE r = p /\ b = a
    BY <1>5, <1>6, <1>7, <2>1 DEF Slots, Ev
  <2>2. CASE ~(r = p /\ b = a)
    <3>1. unacked'[r][b] = unacked[r][b] /\ unacked[r][b] \in Seq(Held)
      BY <1>1, <1>7, <2>2 DEF BusTyped
    <3>2. QED
      BY <2>2, <3>1 DEF Slots, Ev
  <2>3. QED
    BY <2>1, <2>2
<1>9. /\ e \in ready[QueueOf(a)] /\ e \in Range(log) /\ KeyedTo(e, KeyFor(a))
      /\ ready' \in [Queue -> SUBSET Event]
      /\ \A b \in Started : /\ ready'[QueueOf(b)] \subseteq ready[QueueOf(b)]
                            /\ QueueOf(b) = QueueOf(a) => e \notin ready'[QueueOf(b)]
      /\ \A q \in Queue : ready'[q] \subseteq ready[q]
  <2>1. QueueOf(a) \in Queue
    BY KeyOfQueue
  <2>2. e \in ready[QueueOf(a)]
    BY <1>2 DEF Oldest
  <2>3. e \in Range(log) /\ KeyedTo(e, KeyFor(a))
    BY <1>1, <2>1, <2>2 DEF BusTyped, OneCopy
  <2>4. ready' \in [Queue -> SUBSET Event] /\ \A q \in Queue : ready'[q] \subseteq ready[q]
    BY <1>1, <1>2, <2>1 DEF BusTyped
  <2>5. \A b \in Started : QueueOf(b) = QueueOf(a) => e \notin ready'[QueueOf(b)]
    BY <1>1, <1>2, <2>1 DEF BusTyped
  <2>6. QED
    BY <2>2, <2>3, <2>4, <2>5, KeyOfQueue
<1>10. \A x : Position(x)' = Position(x)
  BY <1>3 DEF Position
<1>11. \A d \in ready'[QueueOf(a)] : Position(e) < Position(d)
  <2>1. SUFFICES ASSUME NEW d \in ready'[QueueOf(a)] PROVE Position(e) < Position(d)
    OBVIOUS
  <2>2. d # e /\ d \in ready[QueueOf(a)] /\ QueueOf(a) \in Queue
    BY <1>9, KeyOfQueue
  <2>3. Position(e) <= Position(d) /\ d \in Range(log)
    BY <1>1, <1>2, <2>2 DEF Oldest, BusTyped
  <2>4. QED
    BY <1>1, <1>9, <2>2, <2>3, Positions
<1>12. BusTyped'
  <2>1. ASSUME NEW r \in Process, NEW b \in Started, unacked'[r][b] # <<>> PROVE r \in up
    BY <1>1, <1>3, <1>7, <2>1 DEF BusTyped
  <2>2. ASSUME NEW r \in Process, NEW b \in Started, NEW i \in Slots(r, b)' PROVE Ev(r, b, i)' \in Range(log)
    <3>1. i \in Slots(r, b) => Ev(r, b, i) \in Range(log)
      BY <1>1 DEF BusTyped
    <3>2. QED
      BY <1>8, <1>9, <3>1
  <2>3. \A q \in Queue : ready'[q] \cup handled[q] \subseteq Range(log)
    BY <1>1, <1>9 DEF BusTyped
  <2>4. Logged' /\ Range(log') = Range(log)
    BY <1>1, <1>3 DEF Logged, IsInjective
  <2>5. QED
    BY <1>1, <1>3, <1>7, <1>9, <2>1, <2>2, <2>3, <2>4 DEF BusTyped
<1>13. OneCopy'
  <2>1. ASSUME NEW r \in Process, NEW b \in Started, NEW i \in Slots(r, b)'
        PROVE  KeyedTo(Ev(r, b, i)', KeyFor(b)) /\ Ev(r, b, i)' \notin ready'[QueueOf(b)]
    <3>1. CASE i \in Slots(r, b) /\ Ev(r, b, i)' = Ev(r, b, i)
      BY <1>1, <1>9, <3>1 DEF OneCopy
    <3>2. CASE b = a /\ Ev(r, b, i)' = e
      BY <1>9, <3>2
    <3>3. QED
      BY <1>8, <3>1, <3>2
  <2>2. ASSUME NEW r \in Process, NEW b \in Started, NEW i \in Slots(r, b)',
               NEW q \in Process, NEW c \in Started, NEW j \in Slots(q, c)',
               QueueOf(b) = QueueOf(c), Ev(r, b, i)' = Ev(q, c, j)'
        PROVE  r = q /\ b = c /\ i = j
    <3>1. /\ i \in Slots(r, b) /\ QueueOf(b) = QueueOf(a) => Ev(r, b, i) # e
          /\ j \in Slots(q, c) /\ QueueOf(c) = QueueOf(a) => Ev(q, c, j) # e
      BY <1>1, <1>9 DEF OneCopy
    <3>2. \/ i \in Slots(r, b) /\ Ev(r, b, i)' = Ev(r, b, i)
          \/ r = p /\ b = a /\ i = n /\ Ev(r, b, i)' = e
      BY <1>8
    <3>3. \/ j \in Slots(q, c) /\ Ev(q, c, j)' = Ev(q, c, j)
          \/ q = p /\ c = a /\ j = n /\ Ev(q, c, j)' = e
      BY <1>8
    <3>4. i \in Slots(r, b) /\ j \in Slots(q, c) /\ Ev(r, b, i) = Ev(q, c, j) => r = q /\ b = c /\ i = j
      BY <1>1, <2>2 DEF OneCopy
    <3>5. QED
      BY <2>2, <3>1, <3>2, <3>3, <3>4
  <2>3. \A b \in Started : \A x \in ready'[QueueOf(b)] : KeyedTo(x, KeyFor(b))
    BY <1>1, <1>9 DEF OneCopy
  <2>4. QED
    BY <2>1, <2>2, <2>3 DEF OneCopy
<1>14. ASSUME crashes = 0 PROVE QueuesInOrder'
  <2>1. QueuesInOrder
    BY <1>14 DEF IInv
  <2>2. ASSUME NEW r \in Process, NEW b \in Started, NEW i \in Slots(r, b)', NEW j \in Slots(r, b)', i < j
        PROVE  Position(Ev(r, b, i)') < Position(Ev(r, b, j)')
    <3>1. \/ i \in Slots(r, b) /\ Ev(r, b, i)' = Ev(r, b, i) /\ i \in Nat /\ (r = p /\ b = a => i < n)
          \/ r = p /\ b = a /\ i = n
      BY <1>8
    <3>2. \/ j \in Slots(r, b) /\ Ev(r, b, j)' = Ev(r, b, j) /\ j \in Nat /\ (r = p /\ b = a => j < n)
          \/ r = p /\ b = a /\ j = n /\ Ev(r, b, j)' = e
      BY <1>8
    <3>3. i \in Slots(r, b) /\ Ev(r, b, i)' = Ev(r, b, i)
      BY <1>6, <2>2, <3>1, <3>2
    <3>4. CASE j \in Slots(r, b) /\ Ev(r, b, j)' = Ev(r, b, j)
      BY <2>1, <2>2, <3>3, <3>4 DEF QueuesInOrder
    <3>5. CASE r = p /\ b = a /\ j = n /\ Ev(r, b, j)' = e
      BY <1>9, <2>1, <3>3, <3>5 DEF QueuesInOrder
    <3>6. QED
      BY <3>2, <3>4, <3>5
  <2>3. ASSUME NEW r \in Process, NEW b \in Started, NEW i \in Slots(r, b)', NEW d \in ready'[QueueOf(b)]
        PROVE  Position(Ev(r, b, i)') < Position(d)
    <3>1. CASE i \in Slots(r, b) /\ Ev(r, b, i)' = Ev(r, b, i)
      BY <1>9, <2>1, <3>1 DEF QueuesInOrder
    <3>2. CASE b = a /\ Ev(r, b, i)' = e
      BY <1>11, <3>2
    <3>3. QED
      BY <1>8, <3>1, <3>2
  <2>4. QED
    BY <1>10, <2>2, <2>3 DEF QueuesInOrder
<1>15. ASSUME NEW s \in Socket, NEW b \in Started, conn[s] = "open", Reaches(b, s)
       PROVE  SentBy(s, b)' /\ (crashes = 0 => InOrderBy(s, b)')
  <2>1. SentBy(s, b) /\ (crashes = 0 => InOrderBy(s, b)) /\ Home[s] \in Process
    BY <1>15, BusAssumption DEF IInv, SocketInv
  <2>2. SentBy(s, b)'
    <3>1. ASSUME NEW x \in Range(received[s]), KeyedTo(x, KeyFor(b)),
                 NEW r \in Process, NEW c \in Started, NEW i \in Slots(r, c)',
                 QueueOf(c) = QueueOf(b), Ev(r, c, i)' = x
          PROVE  r = Home[s] /\ c = b /\ unacked'[r][c][i].done
      <4>1. x \notin ready[QueueOf(b)]
        BY <2>1, <3>1 DEF SentBy
      <4>2. \/ i \in Slots(r, c) /\ unacked'[r][c][i] = unacked[r][c][i] /\ Ev(r, c, i) = x
            \/ c = a /\ x = e
        BY <1>8, <3>1
      <4>3. i \in Slots(r, c) /\ unacked'[r][c][i] = unacked[r][c][i] /\ Ev(r, c, i) = x
        BY <1>9, <3>1, <4>1, <4>2
      <4>4. r = Home[s] /\ c = b /\ unacked[r][c][i].done
        BY <2>1, <3>1, <4>3 DEF SentBy
      <4>5. QED
        BY <4>3, <4>4
    <3>2. \A x \in Range(received[s]) : KeyedTo(x, KeyFor(b)) => x \notin ready'[QueueOf(b)]
      BY <1>9, <2>1 DEF SentBy
    <3>3. QED
      BY <1>3, <3>1, <3>2 DEF SentBy
  <2>3. crashes = 0 => InOrderBy(s, b)'
    <3>1. SUFFICES ASSUME crashes = 0 PROVE InOrderBy(s, b)'
      OBVIOUS
    <3>2. ASSUME NEW x \in Range(received[s]), KeyedTo(x, KeyFor(b)), NEW i \in Slots(Home[s], b)',
                 ~unacked'[Home[s]][b][i].done
          PROVE  Position(x) < Position(Ev(Home[s], b, i)')
      <4>1. CASE /\ i \in Slots(Home[s], b) /\ unacked'[Home[s]][b][i] = unacked[Home[s]][b][i]
                 /\ Ev(Home[s], b, i)' = Ev(Home[s], b, i)
        BY <2>1, <3>1, <3>2, <4>1 DEF InOrderBy
      <4>2. CASE b = a /\ Ev(Home[s], b, i)' = e
        BY <1>9, <2>1, <3>1, <3>2, <4>2 DEF InOrderBy
      <4>3. QED
        BY <1>8, <2>1, <4>1, <4>2
    <3>3. \A x \in Range(received[s]) : KeyedTo(x, KeyFor(b)) =>
            \A d \in ready'[QueueOf(b)] : Position(x) < Position(d)
      BY <1>9, <2>1, <3>1 DEF InOrderBy
    <3>4. QED
      BY <1>3, <1>10, <3>2, <3>3 DEF InOrderBy
  <2>4. QED
    BY <2>2, <2>3
<1>16. QED
  BY <1>3, <1>12, <1>13, <1>14, <1>15, QueueSteps

\* A handler runs for the oldest delivery it has not run for, which the clients it
\* reaches have not been sent.
LEMMA HandleSteps ==
  ASSUME IInv, NEW p \in Process, NEW a \in Started, Handle(p, a)
  PROVE  IInv'
<1>1. BusTyped /\ OneCopy /\ Logged /\ unacked[p][a] \in Seq(Held)
  BY DEF IInv, BusTyped
<1>2. PICK i0 \in Slots(p, a) :
        /\ ~unacked[p][a][i0].done /\ \A j \in 1 .. (i0 - 1) : unacked[p][a][j].done
        /\ received' = [s \in Socket |->
                          IF conn[s] = "open" /\ Home[s] = p /\ Reaches(a, s)
                          THEN Append(received[s], Ev(p, a, i0)) ELSE received[s]]
        /\ handled' = [handled EXCEPT ![QueueOf(a)] = @ \union {Ev(p, a, i0)}]
        /\ unacked' = [unacked EXCEPT ![p][a][i0].done = TRUE]
  BY DEF Handle, Slots, Ev, QueueOf, Reaches
<1>3. UNCHANGED <<up, ready, conn, queue, own, log, crashes>>
  BY DEF Handle
<1>4. PICK x, held : x = Ev(p, a, i0) /\ held = [unacked[p][a] EXCEPT ![i0].done = TRUE]
  OBVIOUS
<1>5. /\ held \in Seq(Held) /\ DOMAIN held = Slots(p, a)
      /\ held[i0].event = x /\ held[i0].done
      /\ \A i \in Slots(p, a) : i \in Nat \ {0} /\ (i # i0 => held[i] = unacked[p][a][i])
  <2>1. unacked[p][a][i0] \in Held /\ i0 \in 1 .. Len(unacked[p][a])
    BY <1>1, <1>2 DEF Slots
  <2>2. PICK d : d = [unacked[p][a][i0] EXCEPT !.done = TRUE]
    OBVIOUS
  <2>3. d \in Held /\ d.done /\ d.event = x
    BY <1>4, <2>1, <2>2 DEF Held, Ev
  <2>4. held = [unacked[p][a] EXCEPT ![i0] = d]
    BY <1>4, <2>2
  <2>5. QED
    BY <1>1, <1>2, <2>1, <2>3, <2>4, ExceptSeq DEF Slots
<1>6. /\ unacked' \in [Process -> [Started -> Seq(Held)]] /\ unacked'[p][a] = held
      /\ \A r \in Process, b \in Started : ~(r = p /\ b = a) => unacked'[r][b] = unacked[r][b]
  <2>1. unacked' = [unacked EXCEPT ![p] = [unacked[p] EXCEPT ![a] = held]]
    BY <1>2, <1>4
  <2>2. BusTyped /\ held \in Seq(Held)
    BY <1>1, <1>5
  <2>3. QED
    <3>1. unacked \in [Process -> [Started -> Seq(Held)]]
      BY <2>2 DEF BusTyped
    <3>2. unacked' \in [Process -> [Started -> Seq(Held)]] /\ unacked'[p][a] = held
      BY <2>1, <2>2, <3>1
    <3>3. \A r \in Process, b \in Started : ~(r = p /\ b = a) => unacked'[r][b] = unacked[r][b]
      BY <2>1, <3>1
    <3>4. QED
      BY <3>2, <3>3
<1>7. ASSUME NEW r \in Process, NEW b \in Started
      PROVE  /\ Slots(r, b)' = Slots(r, b)
             /\ \A i \in Slots(r, b) :
                  /\ Ev(r, b, i)' = Ev(r, b, i)
                  /\ r = p /\ b = a /\ i = i0 => unacked'[r][b][i].done
                  /\ ~(r = p /\ b = a /\ i = i0) => unacked'[r][b][i] = unacked[r][b][i]
  <2>1. CASE r = p /\ b = a
    BY <1>4, <1>5, <1>6, <2>1 DEF Slots, Ev
  <2>2. CASE ~(r = p /\ b = a)
    BY <1>6, <2>2 DEF Slots, Ev
  <2>3. QED
    BY <2>1, <2>2
<1>8. /\ x \in Event /\ x \in Range(log) /\ KeyedTo(x, KeyFor(a)) /\ x \notin ready[QueueOf(a)]
  <2>1. Ev(p, a, i0) \in Event
    <3>1. unacked[p][a][i0] \in Held
      BY <1>1, <1>2 DEF Slots
    <3>2. QED
      BY <3>1 DEF Ev, Held
  <2>2. Ev(p, a, i0) \in Range(log)
    BY <1>1, <1>2 DEF BusTyped
  <2>3. KeyedTo(Ev(p, a, i0), KeyFor(a)) /\ Ev(p, a, i0) \notin ready[QueueOf(a)]
    BY <1>1, <1>2 DEF OneCopy
  <2>4. QED
    BY <1>4, <2>1, <2>2, <2>3
<1>9. \A y : Position(y)' = Position(y)
  BY <1>3 DEF Position
<1>10. BusTyped'
  <2>1. ASSUME NEW r \in Process, NEW b \in Started, unacked'[r][b] # <<>> PROVE r \in up
    <3>1. unacked'[r][b] \in Seq(Held) /\ unacked[r][b] \in Seq(Held)
      BY <1>1, <1>6 DEF BusTyped
    <3>2. unacked[r][b] # <<>>
      <4>1. CASE unacked[r][b] = <<>>
        BY <1>7, <2>1, <3>1, <4>1 DEF Slots
      <4>2. QED
        BY <4>1
    <3>3. QED
      BY <1>1, <3>2 DEF BusTyped
  <2>2. ASSUME NEW r \in Process, NEW b \in Started, NEW i \in Slots(r, b)' PROVE Ev(r, b, i)' \in Range(log)
    <3>1. i \in Slots(r, b) /\ Ev(r, b, i)' = Ev(r, b, i)
      BY <1>7
    <3>2. QED
      BY <1>1, <3>1 DEF BusTyped
  <2>3. handled' \in [Queue -> SUBSET Event] /\ \A q \in Queue : ready[q] \cup handled'[q] \subseteq Range(log)
    <3>1. handled \in [Queue -> SUBSET Event] /\ \A q \in Queue : ready[q] \cup handled[q] \subseteq Range(log)
      BY <1>1 DEF BusTyped
    <3>2. handled' = [handled EXCEPT ![QueueOf(a)] = @ \union {x}]
      BY <1>2, <1>4
    <3>3. QED
      BY <1>8, <3>1, <3>2
  <2>4. Logged' /\ Range(log') = Range(log)
    BY <1>1, <1>3 DEF Logged, IsInjective
  <2>5. received' = [s \in Socket |-> received'[s]]
    BY <1>2
  <2>6. QED
    BY <1>1, <1>3, <1>6, <2>1, <2>2, <2>3, <2>4, <2>5 DEF BusTyped
<1>11. OneCopy'
  BY <1>1, <1>3, <1>7 DEF OneCopy
<1>12. QueuesInOrder => QueuesInOrder'
  <2>1. ASSUME QueuesInOrder, NEW r \in Process, NEW b \in Started, NEW i \in Slots(r, b)'
        PROVE  /\ \A j \in Slots(r, b)' : i < j => Position(Ev(r, b, i)') < Position(Ev(r, b, j)')
               /\ \A e \in ready[QueueOf(b)] : Position(Ev(r, b, i)') < Position(e)
    <3>1. i \in Slots(r, b) /\ \A j \in Slots(r, b)' : j \in Slots(r, b) /\ Ev(r, b, j)' = Ev(r, b, j)
      BY <1>7
    <3>2. QED
      BY <2>1, <3>1 DEF QueuesInOrder
  <2>2. QED
    BY <1>3, <1>9, <2>1 DEF QueuesInOrder

<1> DEFINE Sent(s, b, e) ==
      /\ e \notin ready[QueueOf(b)]
      /\ \A r \in Process, c \in Started : \A i \in Slots(r, c)' :
           QueueOf(c) = QueueOf(b) /\ Ev(r, c, i)' = e => r = Home[s] /\ c = b /\ unacked'[r][c][i].done
    Before(s, b, e) ==
      /\ \A d \in ready[QueueOf(b)] : Position(e) < Position(d)
      /\ \A i \in Slots(Home[s], b)' :
           ~unacked'[Home[s]][b][i].done => Position(e) < Position(Ev(Home[s], b, i)')
<1>13. ASSUME NEW s \in Socket, NEW b \in Started,
              \A e \in Range(received'[s]) : KeyedTo(e, KeyFor(b)) =>
                Sent(s, b, e) /\ (crashes = 0 => Before(s, b, e))
       PROVE  SentBy(s, b)' /\ (crashes = 0 => InOrderBy(s, b)')
  BY <1>3, <1>9, <1>13 DEF SentBy, InOrderBy
<1>14. ASSUME NEW s \in Socket, conn[s] = "open", NEW b \in Started, Reaches(b, s),
              NEW e \in Range(received[s]), KeyedTo(e, KeyFor(b))
       PROVE  Sent(s, b, e) /\ (crashes = 0 => Before(s, b, e))
  <2>1. SentBy(s, b) /\ (crashes = 0 => InOrderBy(s, b)) /\ Home[s] \in Process
    BY <1>14, BusAssumption DEF IInv, SocketInv
  <2>2. ASSUME NEW r \in Process, NEW c \in Started, NEW i \in Slots(r, c)',
               QueueOf(c) = QueueOf(b), Ev(r, c, i)' = e
        PROVE  r = Home[s] /\ c = b /\ unacked'[r][c][i].done
    <3>1. i \in Slots(r, c) /\ Ev(r, c, i) = e
      BY <1>7, <2>2
    <3>2. r = Home[s] /\ c = b /\ unacked[r][c][i].done
      BY <1>14, <2>1, <2>2, <3>1 DEF SentBy
    <3>3. QED
      BY <1>7, <3>1, <3>2
  <2>3. e \notin ready[QueueOf(b)]
    BY <1>14, <2>1 DEF SentBy
  <2>4. ASSUME crashes = 0, NEW i \in Slots(Home[s], b)', ~unacked'[Home[s]][b][i].done
        PROVE  Position(e) < Position(Ev(Home[s], b, i)')
    <3>1. /\ i \in Slots(Home[s], b) /\ Ev(Home[s], b, i)' = Ev(Home[s], b, i)
          /\ ~unacked[Home[s]][b][i].done
      BY <1>7, <2>1, <2>4
    <3>2. QED
      BY <1>14, <2>1, <2>4, <3>1 DEF InOrderBy
  <2>5. crashes = 0 => \A d \in ready[QueueOf(b)] : Position(e) < Position(d)
    BY <1>14, <2>1 DEF InOrderBy
  <2>6. QED
    BY <2>2, <2>3, <2>4, <2>5
<1> HIDE DEF Sent, Before
<1>15. ASSUME NEW s \in Socket, ~(conn[s] = "open" /\ Home[s] = p /\ Reaches(a, s)) PROVE SocketInv(s)'
  <2>1. SocketInv(s) /\ SocketTyped(s) /\ received'[s] = received[s]
    BY <1>2, <1>15 DEF IInv, SocketInv
  <2>2. SocketTyped(s)'
    BY <1>3, <2>1 DEF SocketTyped
  <2>3. Stream(s) => Stream(s)'
    BY <1>3, <2>1 DEF Stream, InLogOrder, Position
  <2>4. \A key : InLogOrder(received[s], key) => InLogOrder(received[s], key)'
    BY <1>3, <2>1 DEF InLogOrder, Position
  <2>5. conn[s] = "open" => \A b \in Started : Reaches(b, s) =>
          SentBy(s, b)' /\ (crashes = 0 => InOrderBy(s, b)')
    BY <1>13, <1>14, <2>1
  <2>6. IsInjective(received[s])'
    BY <2>1 DEF SocketInv
  <2>7. QED
    BY <1>3, <2>1, <2>2, <2>3, <2>4, <2>5, <2>6 DEF SocketInv, Reaches
<1>16. ASSUME NEW s \in Socket, conn[s] = "open", Home[s] = p, Reaches(a, s) PROVE SocketInv(s)'
  <2>1. SocketInv(s) /\ SocketTyped(s)
    BY DEF IInv, SocketInv
  <2>2. PICK sent : sent = received[s]
    OBVIOUS
  <2>3. received'[s] = Append(sent, x) /\ sent \in Seq(Event) /\ Range(sent) \subseteq Range(log)
    BY <1>2, <1>4, <1>16, <2>1, <2>2 DEF SocketTyped
  <2>4. /\ Append(sent, x) \in Seq(Event) /\ Append(sent, x) # <<>>
        /\ Range(Append(sent, x)) = Range(sent) \cup {x}
    BY <1>8, <2>3, AppendFacts
  <2>5. /\ KeyFor(a) \in {"question", "job", "proof"}
        /\ \A k \in {"question", "job", "proof", "bmap"} : KeyedTo(x, k) => k = KeyFor(a)
        /\ \A u \in Private : ~KeyedTo(x, PrivateKey[u])
    <3>1. KeyFor(a) \in {"question", "job", "proof"}
      BY <1>16, ConsumersApart
    <3>2. QED
      BY <1>8, <3>1, KeysApart
  <2>6. x \notin Range(sent)
    <3>1. SUFFICES ASSUME x \in Range(received[s]) PROVE FALSE
      BY <2>2
    <3>2. SentBy(s, a)
      BY <1>16, <2>1 DEF SocketInv
    <3>3. unacked[p][a][i0].done
      BY <1>2, <1>4, <1>8, <3>1, <3>2 DEF SentBy
    <3>4. QED
      BY <1>2, <3>3
  <2>7. SocketTyped(s)'
    BY <1>3, <1>8, <1>16, <2>1, <2>3, <2>4 DEF SocketTyped
  <2>8. IsInjective(received'[s])
    BY <1>8, <2>1, <2>2, <2>3, <2>6, InjectiveAppend DEF SocketInv
  <2>9. ASSUME NEW key, InLogOrder(sent, key),
               KeyedTo(x, key) => \A d \in Range(sent) : KeyedTo(d, key) => Position(d) < Position(x)
        PROVE  InLogOrder(received[s], key)'
    <3>1. InLogOrder(Append(sent, x), key)
      BY <1>8, <2>3, <2>9, AppendInOrder
    <3>2. InLogOrder(Append(sent, x), key)'
      BY <1>9, <3>1 DEF InLogOrder
    <3>3. QED
      BY <2>3, <3>2
  <2>10. ASSUME queue[s] = "bound" PROVE Stream(s)'
    <3>1. Stream(s) /\ Url[s] \in Private
      BY <1>16, <2>1, <2>10 DEF SocketInv, SocketTyped
    <3>2. PICK key : key = PrivateKey[Url[s]]
      OBVIOUS
    <3>3. ~KeyedTo(x, key)
      BY <2>5, <3>1, <3>2
    <3>4. /\ \A e \in Range(own[s]) : KeyedTo(e, key)
          /\ InLogOrder(sent, key) /\ InLogOrder(own[s], key)
          /\ \A d \in Range(sent), e \in Range(own[s]) : KeyedTo(d, key) => Position(d) < Position(e)
          /\ \A e \in Range(sent) \cup Range(own[s]), i \in DOMAIN log :
               KeyedTo(e, key) /\ KeyedTo(log[i], key) /\ Position(e) < i
                 => log[i] \in Range(sent) \cup Range(own[s])
      BY <2>2, <3>1, <3>2 DEF Stream
    <3>5. InLogOrder(received[s], key)' /\ InLogOrder(own[s], key)'
      <4>1. InLogOrder(own[s], key)'
        BY <1>3, <1>9, <3>4 DEF InLogOrder
      <4>2. QED
        BY <2>9, <3>3, <3>4, <4>1
    <3>6. Range(received'[s]) = Range(sent) \cup {x}
      BY <2>3, <2>4
    <3>7. \A d \in Range(received'[s]), e \in Range(own[s]) : KeyedTo(d, key) => Position(d) < Position(e)
      BY <3>3, <3>4, <3>6
    <3>8. \A e \in Range(received'[s]) \cup Range(own[s]), i \in DOMAIN log :
            KeyedTo(e, key) /\ KeyedTo(log[i], key) /\ Position(e) < i
              => log[i] \in Range(received'[s]) \cup Range(own[s])
      BY <3>3, <3>4, <3>6
    <3>9. QED
      BY <1>3, <1>9, <3>2, <3>4, <3>5, <3>7, <3>8 DEF Stream
  <2>11. ASSUME queue[s] = "pending"
         PROVE  \A e \in Range(received'[s]) : ~KeyedTo(e, PrivateKey[Url[s]])
    <3>1. Url[s] \in Private /\ \A e \in Range(sent) : ~KeyedTo(e, PrivateKey[Url[s]])
      BY <1>16, <2>1, <2>2, <2>11 DEF SocketInv, SocketTyped
    <3>2. QED
      BY <2>3, <2>4, <2>5, <3>1
  <2>12. ASSUME crashes = 0, NEW key \in {"job", "proof"} PROVE InLogOrder(received[s], key)'
    <3>1. InLogOrder(sent, key)
      BY <2>1, <2>2, <2>12 DEF SocketInv
    <3>2. InOrderBy(s, a)
      BY <1>16, <2>1, <2>12 DEF SocketInv
    <3>3. \A d \in Range(sent) : KeyedTo(d, KeyFor(a)) => Position(d) < Position(x)
      BY <1>2, <1>4, <1>16, <2>2, <3>2 DEF InOrderBy
    <3>4. KeyedTo(x, key) => key = KeyFor(a)
      BY <2>5
    <3>5. QED
      BY <2>9, <3>1, <3>3, <3>4
  <2>13. ASSUME NEW b \in Started, Reaches(b, s), b # a PROVE SentBy(s, b)' /\ (crashes = 0 => InOrderBy(s, b)')
    <3>1. ~KeyedTo(x, KeyFor(b))
      <4>1. KeyFor(b) \in {"question", "job", "proof"} /\ KeyFor(b) # KeyFor(a)
        BY <1>16, <2>13, ConsumersApart
      <4>2. QED
        BY <2>5, <4>1
    <3>2. \A e \in Range(received'[s]) : KeyedTo(e, KeyFor(b)) => e \in Range(sent)
      BY <2>3, <2>4, <3>1
    <3>3. QED
      BY <1>13, <1>14, <1>16, <2>2, <2>13, <3>2
  <2>14. SentBy(s, a)' /\ (crashes = 0 => InOrderBy(s, a)')
    <3>1. ASSUME NEW r \in Process, NEW c \in Started, NEW i \in Slots(r, c)',
                 QueueOf(c) = QueueOf(a), Ev(r, c, i)' = x
          PROVE  r = Home[s] /\ c = a /\ unacked'[r][c][i].done
      <4>1. i \in Slots(r, c) /\ Ev(r, c, i) = Ev(p, a, i0)
        BY <1>4, <1>7, <3>1
      <4>2. r = p /\ c = a /\ i = i0
        BY <1>1, <1>2, <3>1, <4>1 DEF OneCopy
      <4>3. QED
        BY <1>2, <1>7, <1>16, <4>2
    <3>2. ASSUME crashes = 0 PROVE Before(s, a, x)
      <4>1. QueuesInOrder
        BY <3>2 DEF IInv
      <4>2. \A d \in ready[QueueOf(a)] : Position(x) < Position(d)
        BY <1>2, <1>4, <4>1 DEF QueuesInOrder
      <4>3. ASSUME NEW i \in Slots(p, a)', ~unacked'[p][a][i].done
            PROVE  Position(x) < Position(Ev(p, a, i)')
        <5>1. i \in Slots(p, a) /\ i # i0 /\ Ev(p, a, i)' = Ev(p, a, i) /\ ~unacked[p][a][i].done
          BY <1>7, <4>3
        <5>2. i \in Nat \ {0} /\ i0 \in Nat \ {0}
          BY <1>2, <1>5, <5>1
        <5>3. i0 < i
          BY <1>2, <5>1, <5>2
        <5>4. QED
          BY <1>2, <1>4, <4>1, <5>1, <5>3 DEF QueuesInOrder
      <4>4. QED
        BY <1>16, <4>2, <4>3 DEF Before
    <3>3. Sent(s, a, x)
      BY <1>8, <3>1 DEF Sent
    <3>4. QED
      BY <1>13, <1>14, <1>16, <2>2, <2>3, <2>4, <3>2, <3>3
  <2>15. QED
    BY <1>3, <1>13, <1>16, <2>1, <2>7, <2>8, <2>10, <2>11, <2>12, <2>13, <2>14 DEF SocketInv, Reaches
<1>17. QED
  BY <1>3, <1>10, <1>11, <1>12, <1>15, <1>16 DEF IInv

-----------------------------------------------------------------------------
(* Publications, stops and restarts.                                       *)

\* A publication comes after everything that was published.
LEMMA PublishSteps ==
  ASSUME IInv, NEW x \in Event, Publish(x)
  PROVE  IInv'
<1>1. /\ BusTyped /\ OneCopy /\ Logged /\ x \notin Range(log) /\ log' = Append(log, x)
      /\ ready \in [Queue -> SUBSET Event]
  BY DEF IInv, BusTyped, Publish
<1>2. /\ UNCHANGED <<up, unacked, conn, queue, received, handled, crashes>>
      /\ ready' = [q \in Queue |-> IF KeyedTo(x, KeyOf(q)) THEN ready[q] \cup {x} ELSE ready[q]]
      /\ own' = [s \in Socket |-> IF Bound(s) /\ Hears(s, x) THEN Append(own[s], x) ELSE own[s]]
  BY DEF Publish
<1>3. /\ Logged' /\ Range(log') = Range(log) \cup {x}
      /\ Position(x)' = Len(log) + 1 /\ Len(log) \in Nat
      /\ \A e \in Range(log) : Position(e)' = Position(e) /\ Position(e) \in Nat /\ Position(e) <= Len(log)
      /\ \A i \in DOMAIN log : i \in DOMAIN log' /\ log'[i] = log[i] /\ i <= Len(log) /\ i \in Nat
      /\ DOMAIN log' = DOMAIN log \cup {Len(log) + 1} /\ log'[Len(log) + 1] = x
  <2>1. \A i \in DOMAIN log : i <= Len(log) /\ i \in Nat
    BY <1>1 DEF Logged
  <2>2. QED
    BY <1>1, <2>1, LogGrows, Positions
<1>4. \A e \in Range(log) : e # x /\ Position(e)' < Position(x)'
  BY <1>1, <1>3
<1>5. ASSUME NEW b \in Started
      PROVE  \A e \in ready'[QueueOf(b)] : e \in ready[QueueOf(b)] \/ (e = x /\ KeyedTo(x, KeyFor(b)))
  BY <1>2, KeyOfQueue
<1>6. ASSUME NEW r \in Process, NEW b \in Started, NEW i \in Slots(r, b)
      PROVE  Ev(r, b, i) \in Range(log) /\ Slots(r, b)' = Slots(r, b) /\ Ev(r, b, i)' = Ev(r, b, i)
  BY <1>1, <1>2 DEF BusTyped, Slots, Ev
<1>7. BusTyped'
  <2>1. ready' \in [Queue -> SUBSET Event]
    BY <1>1, <1>2
  <2>2. ASSUME NEW q \in Queue PROVE ready'[q] \cup handled'[q] \subseteq Range(log')
    <3>1. ready[q] \cup handled[q] \subseteq Range(log)
      BY <1>1 DEF BusTyped
    <3>2. ready'[q] \subseteq ready[q] \cup {x}
      BY <1>2
    <3>3. QED
      BY <1>2, <1>3, <3>1, <3>2
  <2>3. ASSUME NEW r \in Process, NEW b \in Started, NEW i \in Slots(r, b)' PROVE Ev(r, b, i)' \in Range(log')
    <3>1. i \in Slots(r, b)
      BY <1>2 DEF Slots
    <3>2. QED
      BY <1>3, <1>6, <3>1
  <2>4. own' = [s \in Socket |-> own'[s]]
    BY <1>2
  <2>5. QED
    BY <1>1, <1>2, <1>3, <2>1, <2>2, <2>3, <2>4 DEF BusTyped
<1>8. OneCopy'
  <2>1. ASSUME NEW b \in Started, NEW e \in ready'[QueueOf(b)] PROVE KeyedTo(e, KeyFor(b))
    BY <1>1, <1>5 DEF OneCopy
  <2>2. ASSUME NEW r \in Process, NEW b \in Started, NEW i \in Slots(r, b)
        PROVE  /\ KeyedTo(Ev(r, b, i), KeyFor(b)) /\ Ev(r, b, i) \notin ready'[QueueOf(b)]
               /\ \A q \in Process, c \in Started : \A j \in Slots(q, c) :
                    QueueOf(b) = QueueOf(c) /\ Ev(r, b, i) = Ev(q, c, j) => r = q /\ b = c /\ i = j
    <3>1. /\ KeyedTo(Ev(r, b, i), KeyFor(b)) /\ Ev(r, b, i) \notin ready[QueueOf(b)]
          /\ \A q \in Process, c \in Started : \A j \in Slots(q, c) :
               QueueOf(b) = QueueOf(c) /\ Ev(r, b, i) = Ev(q, c, j) => r = q /\ b = c /\ i = j
      BY <1>1 DEF OneCopy
    <3>2. Ev(r, b, i) # x
      BY <1>4, <1>6
    <3>3. QED
      BY <1>5, <3>1, <3>2
  <2>3. QED
    <3>1. \A r \in Process, b \in Started : \A i : Slots(r, b)' = Slots(r, b) /\ Ev(r, b, i)' = Ev(r, b, i)
      BY <1>2 DEF Slots, Ev
    <3>2. QED
      BY <2>1, <2>2, <3>1 DEF OneCopy
<1>9. ASSUME crashes = 0 PROVE QueuesInOrder'
  <2>1. QueuesInOrder
    BY <1>9 DEF IInv
  <2>2. ASSUME NEW r \in Process, NEW b \in Started, NEW i \in Slots(r, b)
        PROVE  /\ \A j \in Slots(r, b) : i < j => Position(Ev(r, b, i))' < Position(Ev(r, b, j))'
               /\ \A e \in ready'[QueueOf(b)] : Position(Ev(r, b, i))' < Position(e)'
    <3>1. \A j \in Slots(r, b) : Ev(r, b, j) \in Range(log) /\ Position(Ev(r, b, j))' = Position(Ev(r, b, j))
      <4>1. SUFFICES ASSUME NEW j \in Slots(r, b)
                     PROVE  Ev(r, b, j) \in Range(log) /\ Position(Ev(r, b, j))' = Position(Ev(r, b, j))
        OBVIOUS
      <4>2. PICK e : e = Ev(r, b, j)
        OBVIOUS
      <4>3. e \in Range(log) /\ Ev(r, b, j)' = e
        BY <1>6, <4>2
      <4>4. QED
        BY <1>3, <4>2, <4>3
    <3>2. ASSUME NEW j \in Slots(r, b), i < j PROVE Position(Ev(r, b, i))' < Position(Ev(r, b, j))'
      BY <2>1, <3>1, <3>2 DEF QueuesInOrder
    <3>3. ASSUME NEW e \in ready'[QueueOf(b)] PROVE Position(Ev(r, b, i))' < Position(e)'
      <4>1. CASE e = x
        BY <1>3, <3>1, <4>1
      <4>2. CASE e \in ready[QueueOf(b)]
        <5>1. Position(Ev(r, b, i)) < Position(e)
          BY <2>1, <4>2 DEF QueuesInOrder
        <5>2. e \in Range(log)
          BY <1>1, <4>2, KeyOfQueue DEF BusTyped
        <5>3. QED
          BY <1>3, <3>1, <5>1, <5>2
      <4>3. QED
        BY <1>5, <4>1, <4>2
    <3>4. QED
      BY <3>2, <3>3
  <2>3. \A r \in Process, b \in Started : Slots(r, b)' = Slots(r, b)
    BY <1>2 DEF Slots
  <2>4. QED
    BY <2>2, <2>3 DEF QueuesInOrder
<1>10. ASSUME NEW s \in Socket, NEW b \in Started, conn[s] = "open", Reaches(b, s)
       PROVE  SentBy(s, b)' /\ (crashes = 0 => InOrderBy(s, b)')
  <2>1. /\ SentBy(s, b) /\ (crashes = 0 => InOrderBy(s, b)) /\ Home[s] \in Process
        /\ Range(received[s]) \subseteq Range(log)
    BY <1>10, BusAssumption DEF IInv, SocketInv, SocketTyped
  <2>2. \A e \in Range(received[s]) : KeyedTo(e, KeyFor(b)) => e \notin ready'[QueueOf(b)]
    BY <1>4, <1>5, <2>1 DEF SentBy
  <2>3. SentBy(s, b)'
    <3>1. \A e \in Range(received[s]) : KeyedTo(e, KeyFor(b)) =>
            \A r \in Process, c \in Started : \A i \in Slots(r, c) :
              QueueOf(c) = QueueOf(b) /\ Ev(r, c, i) = e => r = Home[s] /\ c = b /\ unacked[r][c][i].done
      BY <2>1 DEF SentBy
    <3>2. \A r \in Process, c \in Started : \A i : Slots(r, c)' = Slots(r, c) /\ Ev(r, c, i)' = Ev(r, c, i)
      BY <1>2 DEF Slots, Ev
    <3>3. QED
      BY <1>2, <2>2, <3>1, <3>2 DEF SentBy
  <2>4. ASSUME crashes = 0 PROVE InOrderBy(s, b)'
    <3>1. ASSUME NEW e \in Range(received[s]), KeyedTo(e, KeyFor(b)), NEW d \in ready'[QueueOf(b)]
          PROVE  Position(e)' < Position(d)'
      <4>1. e \in Range(log)
        BY <2>1
      <4>2. CASE d = x
        BY <1>4, <4>1, <4>2
      <4>3. CASE d \in ready[QueueOf(b)]
        <5>1. Position(e) < Position(d)
          BY <2>1, <2>4, <3>1, <4>3 DEF InOrderBy
        <5>2. d \in Range(log)
          BY <1>1, <4>3, KeyOfQueue DEF BusTyped
        <5>3. QED
          BY <1>3, <4>1, <5>1, <5>2
      <4>4. QED
        BY <1>5, <4>2, <4>3
    <3>2. ASSUME NEW e \in Range(received[s]), KeyedTo(e, KeyFor(b)), NEW i \in Slots(Home[s], b),
                 ~unacked[Home[s]][b][i].done
          PROVE  Position(e)' < Position(Ev(Home[s], b, i))'
      <4>1. Position(e) < Position(Ev(Home[s], b, i))
        BY <2>1, <2>4, <3>2 DEF InOrderBy
      <4>2. PICK d : d = Ev(Home[s], b, i)
        OBVIOUS
      <4>3. d \in Range(log) /\ Ev(Home[s], b, i)' = d /\ e \in Range(log)
        BY <1>6, <2>1, <4>2
      <4>4. QED
        BY <1>3, <4>1, <4>2, <4>3
    <3>3. Slots(Home[s], b)' = Slots(Home[s], b)
      BY <1>2 DEF Slots
    <3>4. QED
      BY <1>2, <3>1, <3>2, <3>3 DEF InOrderBy
  <2>5. QED
    BY <2>3, <2>4
<1>11. ASSUME NEW key, NEW seq \in Seq(Event), Range(seq) \subseteq Range(log), InLogOrder(seq, key)
       PROVE  InLogOrder(seq, key)' /\ InLogOrder(Append(seq, x), key)'
  <2>1. \A i \in DOMAIN seq : seq[i] \in Range(log)
    BY <1>11 DEF Range
  <2>2. \A i, j \in DOMAIN seq :
          i < j /\ KeyedTo(seq[i], key) /\ KeyedTo(seq[j], key) => Position(seq[i])' < Position(seq[j])'
    BY <1>3, <1>11, <2>1 DEF InLogOrder
  <2>3. InLogOrder(seq, key)'
    BY <2>2 DEF InLogOrder
  <2>4. PICK longer : longer = Append(seq, x)
    OBVIOUS
  <2>5. /\ DOMAIN longer = DOMAIN seq \cup {Len(seq) + 1} /\ longer[Len(seq) + 1] = x /\ Len(seq) \in Nat
        /\ \A i \in DOMAIN seq : longer[i] = seq[i] /\ i < Len(seq) + 1 /\ i \in Nat
    BY <1>11, <2>4, AppendFacts
  <2>6. ASSUME NEW i \in DOMAIN longer, NEW j \in DOMAIN longer, i < j,
               KeyedTo(longer[i], key), KeyedTo(longer[j], key)
        PROVE  Position(longer[i])' < Position(longer[j])'
    <3>1. i \in DOMAIN seq /\ longer[i] = seq[i]
      BY <2>5, <2>6
    <3>2. CASE j \in DOMAIN seq
      BY <2>2, <2>5, <2>6, <3>1, <3>2
    <3>3. CASE j = Len(seq) + 1
      BY <1>4, <2>1, <2>5, <3>1, <3>3
    <3>4. QED
      BY <2>5, <3>2, <3>3
  <2>7. InLogOrder(longer, key)'
    BY <2>6 DEF InLogOrder
  <2>8. QED
    BY <2>3, <2>4, <2>7
<1>12. ASSUME NEW s \in Socket PROVE SocketInv(s)'
  <2>1. SocketInv(s) /\ SocketTyped(s)
    BY DEF IInv, SocketInv
  <2>2. PICK q, sent : q = own[s] /\ sent = received[s]
    OBVIOUS
  <2>3. /\ q \in Seq(Event) /\ sent \in Seq(Event)
        /\ Range(q) \subseteq Range(log) /\ Range(sent) \subseteq Range(log)
    BY <2>1, <2>2 DEF SocketTyped
  <2>4. /\ Append(q, x) \in Seq(Event) /\ Append(q, x) # <<>>
        /\ Range(Append(q, x)) = Range(q) \cup {x}
    BY <2>3, AppendFacts
  <2>5. received'[s] = sent /\ conn'[s] = conn[s] /\ queue'[s] = queue[s] /\ crashes' = crashes
    BY <1>2, <2>2
  <2>6. /\ Bound(s) /\ Hears(s, x) => own'[s] = Append(q, x)
        /\ ~(Bound(s) /\ Hears(s, x)) => own'[s] = q
    BY <1>2, <2>2
  <2>7. SocketTyped(s)'
    <3>1. CASE Bound(s) /\ Hears(s, x)
      BY <1>3, <2>1, <2>2, <2>3, <2>4, <2>5, <2>6, <3>1 DEF SocketTyped, Bound
    <3>2. CASE ~(Bound(s) /\ Hears(s, x))
      BY <1>3, <2>1, <2>2, <2>3, <2>5, <2>6, <3>2 DEF SocketTyped
    <3>3. QED
      BY <3>1, <3>2
  <2>8. \A key : InLogOrder(received[s], key) => InLogOrder(received[s], key)'
    <3>1. \A key : InLogOrder(sent, key) => InLogOrder(sent, key)'
      BY <1>11, <2>3
    <3>2. QED
      BY <2>2, <2>5, <3>1
  <2>9. ASSUME conn[s] = "open", queue[s] = "bound" PROVE Stream(s)'
    <3>1. Stream(s) /\ Url[s] \in Private /\ Bound(s)
      BY <2>1, <2>9 DEF SocketInv, SocketTyped, Bound
    <3>2. PICK key : key = PrivateKey[Url[s]]
      OBVIOUS
    <3>3. /\ KeyedTo(x, key) => own'[s] = Append(q, x)
          /\ ~KeyedTo(x, key) => own'[s] = q
      BY <2>6, <3>1, <3>2 DEF Hears
    <3>4. /\ \A e \in Range(q) : KeyedTo(e, key)
          /\ InLogOrder(sent, key) /\ InLogOrder(q, key)
          /\ \A d \in Range(sent), e \in Range(q) : KeyedTo(d, key) => Position(d) < Position(e)
          /\ \A e \in Range(sent) \cup Range(q), i \in DOMAIN log :
               KeyedTo(e, key) /\ KeyedTo(log[i], key) /\ Position(e) < i
                 => log[i] \in Range(sent) \cup Range(q)
      BY <2>2, <3>1, <3>2 DEF Stream
    <3>5. /\ Range(q) \subseteq Range(own'[s])
          /\ \A e \in Range(own'[s]) : e \in Range(q) \/ (e = x /\ KeyedTo(x, key))
          /\ KeyedTo(x, key) => x \in Range(own'[s])
      <4>1. CASE KeyedTo(x, key)
        BY <2>4, <3>3, <4>1
      <4>2. CASE ~KeyedTo(x, key)
        BY <3>3, <4>2
      <4>3. QED
        BY <4>1, <4>2
    <3>6. InLogOrder(received[s], key)' /\ InLogOrder(own[s], key)'
      <4>1. InLogOrder(q, key)' /\ InLogOrder(Append(q, x), key)' /\ InLogOrder(sent, key)'
        BY <1>11, <2>3, <3>4
      <4>2. QED
        BY <2>5, <3>3, <4>1
    <3>7. ASSUME NEW d \in Range(sent), NEW e \in Range(own'[s]), KeyedTo(d, key)
          PROVE  Position(d)' < Position(e)'
      <4>1. d \in Range(log)
        BY <2>3
      <4>2. CASE e = x
        BY <1>4, <4>1, <4>2
      <4>3. CASE e \in Range(q)
        BY <1>3, <2>3, <3>4, <3>7, <4>1, <4>3
      <4>4. QED
        BY <3>5, <4>2, <4>3
    <3>8. ASSUME NEW e \in Range(sent) \cup Range(own'[s]), NEW i \in DOMAIN log',
                 KeyedTo(e, key), KeyedTo(log'[i], key), Position(e)' < i
          PROVE  log'[i] \in Range(sent) \cup Range(own'[s])
      <4>1. CASE i = Len(log) + 1
        BY <1>3, <3>5, <3>8, <4>1
      <4>2. CASE i \in DOMAIN log
        <5>1. log'[i] = log[i] /\ i <= Len(log) /\ i \in Nat
          BY <1>3, <4>2
        <5>2. e # x
          BY <1>3, <3>8, <5>1
        <5>3. e \in Range(sent) \cup Range(q) /\ e \in Range(log)
          BY <2>3, <3>5, <5>2
        <5>4. Position(e) < i
          BY <1>3, <3>8, <5>3
        <5>5. QED
          BY <3>4, <3>5, <3>8, <4>2, <5>1, <5>3, <5>4
      <4>3. QED
        BY <1>3, <4>1, <4>2
    <3>9. \A e \in Range(own'[s]) : KeyedTo(e, key)
      BY <3>4, <3>5
    <3>10. QED
      BY <2>5, <3>2, <3>6, <3>7, <3>8, <3>9 DEF Stream
  <2>10. IsInjective(received'[s])
    BY <2>1, <2>2, <2>5 DEF SocketInv
  <2>11. conn[s] = "open" => \A b \in Started : Reaches(b, s) =>
           SentBy(s, b)' /\ (crashes = 0 => InOrderBy(s, b)')
    BY <1>10
  <2>12. QED
    BY <2>1, <2>2, <2>5, <2>7, <2>8, <2>9, <2>10, <2>11 DEF SocketInv, Reaches
<1>13. QED
  BY <1>2, <1>7, <1>8, <1>9, <1>12 DEF IInv

\* A stop gives the events it held back, which no client of another process was sent.
LEMMA CrashSteps ==
  ASSUME IInv, NEW p \in Process, Crash(p)
  PROVE  IInv'
<1> USE DEF Crash
<1>1. BusTyped /\ OneCopy /\ Logged /\ crashes \in Nat /\ crashes' \in 0 .. MaxCrashes /\ crashes' # 0
  BY BusAssumption DEF IInv, BusTyped
<1>2. /\ up' = up \ {p} /\ UNCHANGED <<received, log, handled>>
      /\ ready' = [q \in Queue |-> ready[q] \union GivenBack(p, q)]
      /\ unacked' = [unacked EXCEPT ![p] = [a \in Started |-> <<>>]]
  OBVIOUS
<1>3. ASSUME NEW b \in Started, NEW e \in ready'[QueueOf(b)]
      PROVE  \/ e \in ready[QueueOf(b)]
             \/ \E c \in Started : \E i \in Slots(p, c) : QueueOf(c) = QueueOf(b) /\ e = Ev(p, c, i)
  <2>1. e \in ready[QueueOf(b)] \/ e \in GivenBack(p, QueueOf(b))
    BY <1>2, KeyOfQueue
  <2>2. e \in GivenBack(p, QueueOf(b)) =>
          \E c \in Started : \E i \in Slots(p, c) : QueueOf(c) = QueueOf(b) /\ e = Ev(p, c, i)
    BY DEF GivenBack, Range, Slots, Ev, QueueOf
  <2>3. QED
    BY <2>1, <2>2
<1>4. ASSUME NEW r \in Process, NEW b \in Started
      PROVE  /\ unacked' \in [Process -> [Started -> Seq(Held)]]
             /\ r = p => unacked'[r][b] = <<>> /\ Slots(r, b)' = {}
             /\ r # p => /\ unacked'[r][b] = unacked[r][b] /\ Slots(r, b)' = Slots(r, b)
                         /\ \A i : Ev(r, b, i)' = Ev(r, b, i)
  <2>1. unacked \in [Process -> [Started -> Seq(Held)]]
    BY <1>1 DEF BusTyped
  <2>2. /\ unacked' \in [Process -> [Started -> Seq(Held)]]
        /\ r = p => unacked'[r][b] = <<>>
        /\ r # p => unacked'[r][b] = unacked[r][b]
    BY <1>2, <2>1
  <2>3. QED
    BY <2>2 DEF Slots, Ev
<1>5. BusTyped'
  <2>1. unacked' \in [Process -> [Started -> Seq(Held)]]
    <3>1. unacked \in [Process -> [Started -> Seq(Held)]] /\ [a \in Started |-> <<>>] \in [Started -> Seq(Held)]
      BY <1>1 DEF BusTyped
    <3>2. QED
      BY <1>2, <3>1
  <2>2. ASSUME NEW r \in Process, NEW b \in Started
        PROVE  /\ unacked'[r][b] # <<>> => r \in up'
               /\ \A i \in Slots(r, b)' : Ev(r, b, i)' \in Range(log)
    BY <1>1, <1>2, <1>4 DEF BusTyped
  <2>3. ASSUME NEW q \in Queue PROVE ready'[q] \in SUBSET Event /\ ready'[q] \cup handled[q] \subseteq Range(log)
    <3>1. PICK b \in Started : q = QueueOf(b)
      BY DEF Queue, QueueOf
    <3>2. ready[q] \cup handled[q] \subseteq Range(log) /\ Range(log) \subseteq Event
      BY <1>1 DEF BusTyped, Logged, Range
    <3>3. \A c \in Started : \A i \in Slots(p, c) : Ev(p, c, i) \in Range(log)
      BY <1>1 DEF BusTyped
    <3>4. ASSUME NEW e \in ready'[q] PROVE e \in Range(log)
      <4>1. CASE e \in ready[q]
        BY <3>2, <4>1
      <4>2. CASE \E c \in Started : \E i \in Slots(p, c) : QueueOf(c) = QueueOf(b) /\ e = Ev(p, c, i)
        BY <3>3, <4>2
      <4>3. QED
        BY <1>3, <3>1, <3>4, <4>1, <4>2
    <3>5. QED
      BY <3>2, <3>4
  <2>4. Logged' /\ Range(log') = Range(log)
    BY <1>1, <1>2 DEF Logged, IsInjective
  <2>5. /\ conn' = [s \in Socket |-> conn'[s]] /\ queue' = [s \in Socket |-> queue'[s]]
        /\ own' = [s \in Socket |-> own'[s]] /\ received' = [s \in Socket |-> received'[s]]
    BY <1>1 DEF BusTyped
  <2>6. ready' \in [Queue -> SUBSET Event]
    BY <1>2, <2>3
  <2>7. up' \subseteq Process /\ handled' \in [Queue -> SUBSET Event]
    BY <1>1, <1>2 DEF BusTyped
  <2>8. QED
    BY <1>1, <1>2, <2>1, <2>2, <2>3, <2>4, <2>5, <2>6, <2>7 DEF BusTyped
<1>6. OneCopy'
  <2>1. ASSUME NEW b \in Started, NEW e \in ready'[QueueOf(b)] PROVE KeyedTo(e, KeyFor(b))
    <3>1. CASE e \in ready[QueueOf(b)]
      BY <1>1, <3>1 DEF OneCopy
    <3>2. ASSUME NEW c \in Started, NEW i \in Slots(p, c), QueueOf(c) = QueueOf(b), e = Ev(p, c, i)
          PROVE  KeyedTo(e, KeyFor(b))
      <4>1. KeyFor(c) = KeyFor(b) /\ KeyedTo(e, KeyFor(c))
        BY <1>1, <3>2, ConsumersApart DEF OneCopy
      <4>2. QED
        BY <4>1
    <3>3. QED
      BY <1>3, <3>1, <3>2
  <2>2. ASSUME NEW r \in Process, NEW b \in Started, NEW i \in Slots(r, b)'
        PROVE  /\ KeyedTo(Ev(r, b, i)', KeyFor(b)) /\ Ev(r, b, i)' \notin ready'[QueueOf(b)]
               /\ \A q \in Process, c \in Started : \A j \in Slots(q, c)' :
                    QueueOf(b) = QueueOf(c) /\ Ev(r, b, i)' = Ev(q, c, j)' => r = q /\ b = c /\ i = j
    <3>1. r # p /\ i \in Slots(r, b) /\ Ev(r, b, i)' = Ev(r, b, i)
      BY <1>4
    <3>2. /\ KeyedTo(Ev(r, b, i), KeyFor(b)) /\ Ev(r, b, i) \notin ready[QueueOf(b)]
          /\ \A q \in Process, c \in Started : \A j \in Slots(q, c) :
               QueueOf(b) = QueueOf(c) /\ Ev(r, b, i) = Ev(q, c, j) => r = q /\ b = c /\ i = j
      BY <1>1, <3>1 DEF OneCopy
    <3>3. Ev(r, b, i) \notin ready'[QueueOf(b)]
      <4>1. SUFFICES ASSUME Ev(r, b, i) \in ready'[QueueOf(b)] PROVE FALSE
        OBVIOUS
      <4>2. PICK e : e = Ev(r, b, i)
        OBVIOUS
      <4>3. PICK c \in Started : \E j \in Slots(p, c) : QueueOf(c) = QueueOf(b) /\ e = Ev(p, c, j)
        <5>1. e \in ready'[QueueOf(b)] /\ e \notin ready[QueueOf(b)]
          BY <3>2, <4>1, <4>2
        <5>2. QED
          BY <1>3, <5>1
      <4>4. QED
        BY <3>1, <3>2, <4>2, <4>3
    <3>4. ASSUME NEW q \in Process, NEW c \in Started, NEW j \in Slots(q, c)',
                 QueueOf(b) = QueueOf(c), Ev(r, b, i)' = Ev(q, c, j)'
          PROVE  r = q /\ b = c /\ i = j
      BY <1>4, <3>1, <3>2, <3>4
    <3>5. QED
      BY <3>1, <3>2, <3>3, <3>4
  <2>3. QED
    BY <2>1, <2>2 DEF OneCopy
<1>7. ASSUME NEW s \in Socket PROVE SocketInv(s)'
  <2>1. SocketInv(s) /\ SocketTyped(s) /\ received'[s] = received[s] /\ Range(log') = Range(log)
    BY DEF IInv, SocketInv
  <2>2. SocketTyped(s)'
    <3>1. <<>> \in Seq(Event) /\ Range(<<>>) = {}
      BY DEF Range
    <3>2. /\ conn'[s] = IF Home[s] = p /\ conn[s] = "open" THEN "closed" ELSE conn[s]
          /\ queue'[s] = CASE Home[s] = p /\ queue[s] = "pending" -> "none"
                          [] Home[s] = p /\ queue[s] = "bound"   -> IF Home[s] = p /\ Url[s] = "bmap"
                                                                    THEN "deleted" ELSE "orphan"
                          [] OTHER                               -> queue[s]
          /\ own'[s] = IF Home[s] = p /\ Url[s] = "bmap" THEN <<>> ELSE own[s]
      OBVIOUS
    <3>3. QED
      BY <2>1, <3>1, <3>2 DEF SocketTyped
  <2>3. CASE Home[s] = p
    <3>1. conn'[s] # "open"
      BY <2>1, <2>3 DEF SocketTyped
    <3>2. QED
      BY <1>1, <2>1, <2>2, <3>1 DEF SocketInv
  <2>4. CASE Home[s] # p
    <3>1. conn'[s] = conn[s] /\ queue'[s] = queue[s] /\ own'[s] = own[s]
      BY <2>4
    <3>2. Stream(s) => Stream(s)'
      BY <2>1, <3>1 DEF Stream, InLogOrder, Position
    <3>3. ASSUME NEW b \in Started, SentBy(s, b) PROVE SentBy(s, b)'
      <4>1. ASSUME NEW e \in Range(received[s]), KeyedTo(e, KeyFor(b)) PROVE e \notin ready'[QueueOf(b)]
        <5>1. e \notin ready[QueueOf(b)]
          BY <3>3, <4>1 DEF SentBy
        <5>2. ASSUME NEW c \in Started, NEW i \in Slots(p, c), QueueOf(c) = QueueOf(b), e = Ev(p, c, i)
              PROVE  FALSE
          BY <2>4, <3>3, <4>1, <5>2 DEF SentBy
        <5>3. QED
          BY <1>3, <5>1, <5>2
      <4>2. ASSUME NEW e \in Range(received[s]), KeyedTo(e, KeyFor(b)),
                   NEW r \in Process, NEW c \in Started, NEW i \in Slots(r, c)',
                   QueueOf(c) = QueueOf(b), Ev(r, c, i)' = e
            PROVE  r = Home[s] /\ c = b /\ unacked'[r][c][i].done
        <5>1. i \in Slots(r, c) /\ Ev(r, c, i) = e /\ unacked'[r][c] = unacked[r][c]
          BY <1>4, <4>2
        <5>2. QED
          BY <3>3, <4>2, <5>1 DEF SentBy
      <4>3. QED
        BY <2>1, <4>1, <4>2 DEF SentBy
    <3>4. QED
      BY <1>1, <2>1, <2>2, <3>1, <3>2, <3>3 DEF SocketInv, Reaches
  <2>5. QED
    BY <2>3, <2>4
<1>8. QED
  BY <1>1, <1>5, <1>6, <1>7 DEF IInv

LEMMA RestartSteps ==
  ASSUME IInv, NEW p \in Process, Restart(p)
  PROVE  IInv'
<1> USE DEF Restart
<1>1. BusTyped /\ OneCopy
  BY DEF IInv
<1>2. Logged' /\ Range(log') = Range(log)
  BY <1>1 DEF BusTyped, Logged, IsInjective
<1>3. BusTyped'
  BY <1>1, <1>2 DEF BusTyped, Slots, Ev
<1>4. OneCopy'
  BY <1>1 DEF OneCopy, Slots, Ev
<1>5. crashes = 0 => QueuesInOrder'
  BY DEF IInv, QueuesInOrder, Slots, Ev, Position
<1>6. ASSUME NEW s \in Socket, NEW a \in Started, conn[s] = "open", Reaches(a, s)
      PROVE  SentBy(s, a)' /\ (crashes = 0 => InOrderBy(s, a)')
  <2>1. SentBy(s, a) /\ (crashes = 0 => InOrderBy(s, a))
    BY <1>6 DEF IInv, SocketInv
  <2>2. QED
    BY <2>1 DEF SentBy, InOrderBy, Slots, Ev, Position
<1>7. QED
  BY <1>3, <1>4, <1>5, <1>6, QueueSteps

-----------------------------------------------------------------------------
(* The invariant holds, and with it the properties of the clients.         *)

LEMMA InitIInv == Init => IInv
<1> SUFFICES ASSUME Init PROVE IInv
  OBVIOUS
<1> USE DEF Init
<1>1. Range(<<>>) = {} /\ <<>> \in Seq(Event) /\ IsInjective(<<>>) /\ <<>> \in Seq(Held)
  BY DEF Range, IsInjective
<1>2. \A p \in Process, a \in Started : unacked[p][a] = <<>> /\ Slots(p, a) = {}
  BY DEF Slots
<1>3. \A q \in Queue : ready[q] = {} /\ handled[q] = {}
  OBVIOUS
<1>4. \A a \in Started : ready[QueueOf(a)] = {}
  BY <1>3, KeyOfQueue
<1>5. BusTyped
  BY <1>1, <1>2, <1>3, BusAssumption DEF BusTyped, Logged
<1>6. OneCopy /\ QueuesInOrder
  BY <1>2, <1>4 DEF OneCopy, QueuesInOrder
<1>7. ASSUME NEW s \in Socket PROVE SocketInv(s)
  <2>1. conn[s] = "new" /\ queue[s] = "none" /\ own[s] = <<>> /\ received[s] = <<>>
    OBVIOUS
  <2>2. \A key : InLogOrder(received[s], key)
    BY <2>1 DEF InLogOrder
  <2>3. QED
    BY <1>1, <2>1, <2>2 DEF SocketInv, SocketTyped
<1>8. QED
  BY <1>5, <1>6, <1>7 DEF IInv

LEMMA StutterSteps ==
  ASSUME IInv, UNCHANGED vars
  PROVE  IInv'
<1> USE DEF vars
<1>1. BusTyped /\ OneCopy
  BY DEF IInv
<1>2. Logged' /\ Range(log') = Range(log)
  BY <1>1 DEF BusTyped, Logged, IsInjective
<1>3. BusTyped'
  BY <1>1, <1>2 DEF BusTyped, Slots, Ev
<1>4. OneCopy'
  BY <1>1 DEF OneCopy, Slots, Ev
<1>5. crashes = 0 => QueuesInOrder'
  BY DEF IInv, QueuesInOrder, Slots, Ev, Position
<1>6. ASSUME NEW s \in Socket, NEW a \in Started, conn[s] = "open", Reaches(a, s)
      PROVE  SentBy(s, a)' /\ (crashes = 0 => InOrderBy(s, a)')
  <2>1. SentBy(s, a) /\ (crashes = 0 => InOrderBy(s, a))
    BY <1>6 DEF IInv, SocketInv
  <2>2. QED
    BY <2>1 DEF SentBy, InOrderBy, Slots, Ev, Position
<1>7. QED
  BY <1>3, <1>4, <1>5, <1>6, QueueSteps

LEMMA Invariance == Spec => []IInv
<1>1. ASSUME IInv, [Next]_vars PROVE IInv'
  <2>1. ASSUME NEW s \in Socket, Connect(s) \/ GotChannel(s) \/ Hear(s) \/ Close(s) PROVE IInv'
    BY <1>1, <2>1, ConnectSteps, GotChannelSteps, HearSteps, CloseSteps
  <2>2. ASSUME NEW e \in Event, Publish(e) PROVE IInv'
    BY <1>1, <2>2, PublishSteps
  <2>3. ASSUME NEW p \in Process, NEW a \in Started, Deliver(p, a) \/ Handle(p, a) \/ Ack(p, a) PROVE IInv'
    BY <1>1, <2>3, DeliverSteps, HandleSteps, AckSteps
  <2>4. ASSUME NEW p \in Process, Crash(p) \/ Restart(p) PROVE IInv'
    BY <1>1, <2>4, CrashSteps, RestartSteps
  <2>5. CASE UNCHANGED vars
    BY <1>1, <2>5, StutterSteps
  <2>6. QED
    BY <1>1, <2>1, <2>2, <2>3, <2>4, <2>5 DEF Next
<1>2. QED
  BY <1>1, InitIInv, PTL DEF Spec

\* The processes, connections, queues and deliveries are of their kinds (InitIInv and
\* one lemma for each action).
THEOREM BusTypeCorrect == Spec => []TypeOK
<1>1. ASSUME IInv PROVE TypeOK
  <2>1. BusTyped /\ \A s \in Socket : SocketTyped(s)
    BY <1>1 DEF IInv, SocketInv
  <2>2. ASSUME NEW p \in Process, NEW a \in Started
        PROVE  Range(unacked[p][a]) \subseteq [event : Range(log), done : BOOLEAN]
    <3>1. SUFFICES ASSUME NEW i \in DOMAIN unacked[p][a]
                   PROVE  unacked[p][a][i] \in [event : Range(log), done : BOOLEAN]
      BY DEF Range
    <3>2. unacked[p][a][i] \in Held
      BY <2>1 DEF BusTyped
    <3>3. unacked[p][a][i].event \in Range(log)
      BY <2>1 DEF BusTyped, Slots, Ev
    <3>4. QED
      BY <3>2, <3>3 DEF Held
  <2>3. /\ conn \in [Socket -> {"new", "open", "closed"}]
        /\ queue \in [Socket -> {"none", "pending", "bound", "deleted", "orphan"}]
    BY <2>1 DEF BusTyped, SocketTyped
  <2>4. QED
    BY <2>1, <2>2, <2>3 DEF TypeOK, BusTyped, SocketTyped
<1>2. QED
  BY <1>1, Invariance, PTL

\* No client is sent an event twice, though a stop has it delivered again, and until a
\* process stops a client gets the jobs, and the proofs, in the order of publication.
THEOREM EventsAreSentOnce == Spec => []SentOnceInOrder
<1>1. IInv => SentOnceInOrder
  BY DEF IInv, SocketInv, SentOnceInOrder
<1>2. QED
  BY <1>1, Invariance, PTL

\* From the first event of its key that a client of the chat or of bmap is sent, it
\* gets, or has waiting for it, every event of the key, in the order of the log.
THEOREM StreamsAreWhole == Spec => []StreamsHaveNoGaps
<1>1. ASSUME IInv, NEW s \in Socket, conn[s] = "open", queue[s] = "bound"
      PROVE  LET key    == PrivateKey[Url[s]]
                 stream == received[s] \o own[s]
             IN /\ \A e \in Range(own[s]) : KeyedTo(e, key)
                /\ InLogOrder(stream, key)
                /\ \A e \in Range(stream), i \in DOMAIN log :
                     KeyedTo(e, key) /\ KeyedTo(log[i], key) /\ Position(e) < i => log[i] \in Range(stream)
  <2>1. PICK key, sent, q, stream :
          key = PrivateKey[Url[s]] /\ sent = received[s] /\ q = own[s] /\ stream = sent \o q
    OBVIOUS
  <2>2. /\ sent \in Seq(Event) /\ q \in Seq(Event)
        /\ \A e \in Range(q) : KeyedTo(e, key)
        /\ InLogOrder(sent, key) /\ InLogOrder(q, key)
        /\ \A d \in Range(sent), e \in Range(q) : KeyedTo(d, key) => Position(d) < Position(e)
        /\ \A e \in Range(sent) \cup Range(q), i \in DOMAIN log :
             KeyedTo(e, key) /\ KeyedTo(log[i], key) /\ Position(e) < i
               => log[i] \in Range(sent) \cup Range(q)
    BY <1>1, <2>1 DEF IInv, SocketInv, SocketTyped, Stream
  <2>3. /\ Len(sent) \in Nat /\ Len(q) \in Nat /\ DOMAIN sent = 1 .. Len(sent) /\ DOMAIN q = 1 .. Len(q)
        /\ DOMAIN stream = 1 .. Len(sent) + Len(q)
        /\ \A i \in DOMAIN stream : stream[i] = IF i <= Len(sent) THEN sent[i] ELSE q[i - Len(sent)]
    <3>1. /\ stream \in Seq(Event) /\ Len(stream) = Len(sent) + Len(q)
          /\ \A i \in 1 .. Len(sent) + Len(q) : stream[i] = IF i <= Len(sent) THEN sent[i] ELSE q[i - Len(sent)]
      <4>1. sent \in Seq(Event) /\ q \in Seq(Event) /\ stream = sent \o q
        BY <2>1, <2>2
      <4>2. QED
        BY <4>1, ConcatProperties
    <3>2. QED
      BY <2>2, <3>1
  <2>4. ASSUME NEW i \in DOMAIN stream
        PROVE  \/ i \in DOMAIN sent /\ stream[i] = sent[i] /\ stream[i] \in Range(sent)
               \/ /\ i - Len(sent) \in DOMAIN q /\ i > Len(sent)
                  /\ stream[i] = q[i - Len(sent)] /\ stream[i] \in Range(q)
    <3>1. CASE i <= Len(sent)
      BY <2>3, <3>1 DEF Range
    <3>2. CASE i > Len(sent)
      BY <2>3, <3>2 DEF Range
    <3>3. QED
      BY <2>3, <3>1, <3>2
  <2>5. InLogOrder(stream, key)
    <3>1. SUFFICES ASSUME NEW i \in DOMAIN stream, NEW j \in DOMAIN stream, i < j,
                          KeyedTo(stream[i], key), KeyedTo(stream[j], key)
                   PROVE  Position(stream[i]) < Position(stream[j])
      BY DEF InLogOrder
    <3>2. CASE j \in DOMAIN sent /\ stream[j] = sent[j]
      <4>1. i \in DOMAIN sent /\ stream[i] = sent[i]
        BY <2>3, <3>1, <3>2
      <4>2. QED
        BY <2>2, <3>1, <3>2, <4>1 DEF InLogOrder
    <3>3. CASE i \in DOMAIN sent /\ stream[i] \in Range(sent) /\ stream[j] \in Range(q)
      BY <2>2, <3>1, <3>3
    <3>4. CASE /\ i - Len(sent) \in DOMAIN q /\ stream[i] = q[i - Len(sent)]
               /\ j - Len(sent) \in DOMAIN q /\ stream[j] = q[j - Len(sent)]
      <4>1. i - Len(sent) < j - Len(sent)
        BY <2>3, <3>1
      <4>2. QED
        BY <2>2, <3>1, <3>4, <4>1 DEF InLogOrder
    <3>5. QED
      BY <2>4, <3>2, <3>3, <3>4
  <2>6. Range(stream) = Range(sent) \cup Range(q)
    <3>1. \A e \in Range(stream) : e \in Range(sent) \cup Range(q)
      BY <2>4 DEF Range
    <3>2. ASSUME NEW i \in DOMAIN sent PROVE sent[i] \in Range(stream)
      BY <2>3 DEF Range
    <3>3. ASSUME NEW i \in DOMAIN q PROVE q[i] \in Range(stream)
      <4>1. Len(sent) + i \in DOMAIN stream /\ stream[Len(sent) + i] = q[i]
        BY <2>3
      <4>2. QED
        BY <4>1 DEF Range
    <3>4. QED
      BY <3>1, <3>2, <3>3 DEF Range
  <2>7. QED
    BY <2>1, <2>2, <2>5, <2>6
<1>2. IInv => StreamsHaveNoGaps
  BY <1>1 DEF StreamsHaveNoGaps
<1>3. QED
  BY <1>2, Invariance, PTL
=============================================================================
