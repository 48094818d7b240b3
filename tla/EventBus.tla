------------------------------ MODULE EventBus ------------------------------
(***************************************************************************)
(* The events of the importer and of the chat on their way to the clients. *)
(* RabbitMQ's exchange 'powco' copies a published event to every queue     *)
(* bound to its routing key.  The named queues are shared by the processes *)
(* that run src/ws/plugin.ts, src/socket.io/plugin.ts and the Slack actor: *)
(* one of the processes gets each event, and acknowledges it after the     *)
(* handler.  A websocket of the chat or of bmap has a queue of its own,    *)
(* made after an await and deleted by the close handler.                   *)
(* A stop of a process closes its sockets and gives the events it had not  *)
(* acknowledged back to their queues.                                      *)
(***************************************************************************)
EXTENDS Naturals, Sequences, Functions

CONSTANTS Process,      \* processes that run main.ts
          Socket,       \* connections of clients, each made at most once
          Home,         \* Home[s]: the process the client s connects to
          Url,          \* Url[s]: what it asks for, "io" for a socket.io client
          Event,        \* events that may be published
          Kind,         \* Kind[e]: what the event is about
          Started,      \* consumers the settings of a process start
          Prefetch,     \* bound: deliveries a consumer holds at once
          MaxCrashes    \* bound: stops of processes in one behaviour

Keys == [job       |-> {"job"},  proof |-> {"proof"}, question |-> {"question"},
         bmap      |-> {"bmap"},
         message   |-> {"chat", "channel"},   \* a message of the channel of Url "channel"
         elsewhere |-> {"chat"}]              \* a message of another channel

PrivateKey == [chat |-> "chat", channel |-> "channel", bmap |-> "bmap"]
Private    == DOMAIN PrivateKey
Hearing    == {"boost", "channel"}     \* the branch for channels falls through to boost

ASSUME BusAssumption ==
  /\ Home \in [Socket -> Process]
  /\ Url \in [Socket -> Private \union Hearing \union {"io"}]
  /\ Kind \in [Event -> DOMAIN Keys]
  /\ MaxCrashes \in Nat /\ Prefetch \in Nat \ {0}

(* The consumers each process starts: the key and the queue of each, and   *)
(* whom its handler reaches.                                               *)
Actors == [wsQuestion |-> [key |-> "question", queue |-> "question_websockets", to |-> {}],
           wsJob      |-> [key |-> "job",      queue |-> "job_websockets",      to |-> Hearing],
           wsProof    |-> [key |-> "proof",    queue |-> "proof_websockets",    to |-> Hearing]]
IoActors == [ioQuestion |-> [key |-> "question", queue |-> "question_websockets", to |-> {"io"}],
             ioJob      |-> [key |-> "job",      queue |-> "job_socketio",        to |-> {"io"}],
             ioProof    |-> [key |-> "proof",    queue |-> "proof_socketio",      to |-> {"io"}]]
SlackActors == [slackJob   |-> [key |-> "job",   queue |-> "job_slack",   to |-> {}],
                slackProof |-> [key |-> "proof", queue |-> "proof_slack", to |-> {}]]
IngestActors == [ingest |-> [key |-> "bmap", queue |-> "ingest_bmap_transaction", to |-> {}]]

Consumer ==
  [a \in UNION {DOMAIN Actors, DOMAIN IoActors, DOMAIN SlackActors, DOMAIN IngestActors} |->
     CASE a \in DOMAIN Actors      -> Actors[a]
       [] a \in DOMAIN IoActors    -> IoActors[a]
       [] a \in DOMAIN SlackActors -> SlackActors[a]
       [] OTHER                    -> IngestActors[a]]

ASSUME StartedAssumption == Started \subseteq DOMAIN Consumer

Queue    == {Consumer[a].queue : a \in Started}
KeyOf(q) == Consumer[CHOOSE a \in Started : Consumer[a].queue = q].key

VARIABLES
  up,        \* processes that run
  ready,     \* ready[q]: events in the shared queue q, not delivered or given back
  unacked,   \* unacked[p][a]: deliveries to the consumer a of p, oldest first
  conn,      \* conn[s]: "new", "open" or "closed"
  queue,     \* queue[s]: the private queue of s
  own,       \* own[s]: the events in it
  received,  \* received[s]: what the client has been sent
  log,       \* the events in the order of their publication
  handled,   \* handled[q]: the events some handler of q has run for
  crashes

vars == <<up, ready, unacked, conn, queue, own, received, log, handled, crashes>>

KeyedTo(e, key) == key \in Keys[Kind[e]]

(* Broken: events reach a private queue before it is bound, and after it is gone. *)
BoundEver(s) == queue[s] # "none"

Bound(s) == queue[s] \in {"bound", "orphan"}

Hears(s, e) == Url[s] \in Private /\ KeyedTo(e, PrivateKey[Url[s]])

Position(e) == CHOOSE i \in DOMAIN log : log[i] = e
Oldest(e, S) == e \in S /\ \A d \in S : Position(e) <= Position(d)
Delivery(e) == [event |-> e, done |-> FALSE]

Init ==
  /\ up = Process
  /\ ready = [q \in Queue |-> {}]
  /\ unacked = [p \in Process |-> [a \in Started |-> <<>>]]
  /\ conn = [s \in Socket |-> "new"]
  /\ queue = [s \in Socket |-> "none"]
  /\ own = [s \in Socket |-> <<>>]
  /\ received = [s \in Socket |-> <<>>]
  /\ log = <<>>
  /\ handled = [q \in Queue |-> {}]
  /\ crashes = 0

-----------------------------------------------------------------------------
(* Sockets. *)

(* The listeners of /websockets/boost are attached at once; a private      *)
(* queue waits for getChannel().                                           *)
Connect(s) ==
  /\ conn[s] = "new" /\ Home[s] \in up
  /\ conn' = [conn EXCEPT ![s] = "open"]
  /\ queue' = [queue EXCEPT ![s] = IF Url[s] \in Private THEN "pending" ELSE "none"]
  /\ UNCHANGED <<up, ready, unacked, own, received, log, handled, crashes>>

(* Resumed after getChannel(): asserts, binds and consumes the queue, and  *)
(* attaches the close handler, with no look at the socket.                 *)
GotChannel(s) ==
  /\ queue[s] = "pending"
  /\ queue' = [queue EXCEPT ![s] = "bound"]
  /\ UNCHANGED <<up, ready, unacked, conn, own, received, log, handled, crashes>>

(* Broken: an error of the handler is logged, and the event acknowledged.  *)
HearOrSkip(s) ==
  /\ queue[s] = "bound" /\ own[s] # <<>>
  /\ received' \in IF conn[s] = "open"
                   THEN {received, [received EXCEPT ![s] = Append(@, Head(own[s]))]} ELSE {received}
  /\ own' = [own EXCEPT ![s] = Tail(@)]
  /\ UNCHANGED <<up, ready, unacked, conn, queue, log, handled, crashes>>

(* The consumer of a private queue: send() on a closed socket does nothing. *)
Hear(s) ==
  /\ queue[s] = "bound" /\ own[s] # <<>>
  /\ received' = IF conn[s] = "open"
                 THEN [received EXCEPT ![s] = Append(@, Head(own[s]))] ELSE received
  /\ own' = [own EXCEPT ![s] = Tail(@)]
  /\ UNCHANGED <<up, ready, unacked, conn, queue, log, handled, crashes>>

(* The close handlers: only one that was attached in time finds the queue. *)
(* RabbitMQ then calls the consumer with null; those of /chat and of bmap  *)
(* do not look for it and throw inside the AMQP library: where that ends   *)
(* the process, a Crash follows.                                           *)
Close(s) ==
  /\ conn[s] = "open"
  /\ conn' = [conn EXCEPT ![s] = "closed"]
  /\ queue' = [queue EXCEPT ![s] = IF @ = "bound" THEN "deleted" ELSE @]
  /\ own' = [own EXCEPT ![s] = <<>>]
  /\ UNCHANGED <<up, ready, unacked, received, log, handled, crashes>>

-----------------------------------------------------------------------------
(* The exchange and the shared queues. *)

(* publish() in boost.ts and content.ts, or of another service of the      *)
(* exchange: a copy to every queue that is bound to the key.               *)
Publish(e) ==
  /\ up # {} /\ e \notin Range(log)
  /\ log' = Append(log, e)
  /\ ready' = [q \in Queue |->
                 IF KeyedTo(e, KeyOf(q)) THEN ready[q] \union {e} ELSE ready[q]]
  /\ own' = [s \in Socket |-> IF Bound(s) /\ Hears(s, e) THEN Append(own[s], e) ELSE own[s]]
  /\ UNCHANGED <<up, unacked, conn, queue, received, handled, crashes>>

(* The broker hands the oldest ready event to one of the consumers. *)
Deliver(p, a) ==
  LET q == Consumer[a].queue
  IN /\ p \in up /\ Len(unacked[p][a]) < Prefetch
     /\ \E e \in Event :
          /\ Oldest(e, ready[q])
          /\ ready' = [ready EXCEPT ![q] = @ \ {e}]
          /\ unacked' = [unacked EXCEPT ![p][a] = Append(@, Delivery(e))]
     /\ UNCHANGED <<up, conn, queue, own, received, log, handled, crashes>>

(* The handler: emits to the listeners of the process, to the clients of   *)
(* its socket.io server, or calls Slack or the ingestion.                  *)
Handle(p, a) ==
  \E i \in DOMAIN unacked[p][a] :
    LET d == unacked[p][a][i] IN
    /\ ~d.done /\ \A j \in 1..(i - 1) : unacked[p][a][j].done
    /\ received' = [s \in Socket |->
                      IF conn[s] = "open" /\ Home[s] = p /\ Url[s] \in Consumer[a].to
                      THEN Append(received[s], d.event) ELSE received[s]]
    /\ handled' = [handled EXCEPT ![Consumer[a].queue] = @ \union {d.event}]
    /\ unacked' = [unacked EXCEPT ![p][a][i].done = TRUE]
    /\ UNCHANGED <<up, ready, conn, queue, own, log, crashes>>

(* Broken: acknowledges before the handler has run. *)
AckFirst(p, a) ==
  /\ unacked[p][a] # <<>>
  /\ unacked' = [unacked EXCEPT ![p][a] = Tail(@)]
  /\ UNCHANGED <<up, ready, conn, queue, own, received, log, handled, crashes>>

(* Broken: the event is rejected, and put back, after the handler has run. *)
AckRequeues(p, a) ==
  /\ unacked[p][a] # <<>> /\ Head(unacked[p][a]).done
  /\ unacked' = [unacked EXCEPT ![p][a] = Tail(@)]
  /\ ready' = [ready EXCEPT ![Consumer[a].queue] = @ \union {Head(unacked[p][a]).event}]
  /\ UNCHANGED <<up, conn, queue, own, received, log, handled, crashes>>

(* The actor acknowledges once the handler has returned. *)
Ack(p, a) ==
  /\ unacked[p][a] # <<>> /\ Head(unacked[p][a]).done
  /\ unacked' = [unacked EXCEPT ![p][a] = Tail(@)]
  /\ UNCHANGED <<up, ready, conn, queue, own, received, log, handled, crashes>>

-----------------------------------------------------------------------------
(* Stops and restarts. *)

GivenBack(p, q) ==
  {d.event : d \in UNION {Range(unacked[p][a]) : a \in {b \in Started : Consumer[b].queue = q}}}

(* The sockets close with the process; the broker takes back what was not  *)
(* acknowledged, deletes an autoDelete queue (bmap) and keeps the others,  *)
(* which nobody will consume again.                                        *)
Crash(p) ==
  LET mine(s) == Home[s] = p
      gone(s) == mine(s) /\ Url[s] = "bmap"
  IN /\ p \in up /\ crashes < MaxCrashes
     /\ crashes' = crashes + 1
     /\ up' = up \ {p}
     /\ ready' = [q \in Queue |-> ready[q] \union GivenBack(p, q)]
     /\ unacked' = [unacked EXCEPT ![p] = [a \in Started |-> <<>>]]
     /\ conn' = [s \in Socket |-> IF mine(s) /\ conn[s] = "open" THEN "closed" ELSE conn[s]]
     /\ queue' = [s \in Socket |->
                    CASE mine(s) /\ queue[s] = "pending" -> "none"
                      [] mine(s) /\ queue[s] = "bound"   -> IF gone(s) THEN "deleted" ELSE "orphan"
                      [] OTHER                           -> queue[s]]
     /\ own' = [s \in Socket |-> IF gone(s) THEN <<>> ELSE own[s]]
     /\ UNCHANGED <<received, log, handled>>

(* main.ts run again: the plugins and the actors consume their queues. *)
Restart(p) ==
  /\ p \notin up
  /\ up' = up \union {p}
  /\ UNCHANGED <<ready, unacked, conn, queue, own, received, log, handled, crashes>>

Next ==
  \/ \E s \in Socket : Connect(s) \/ GotChannel(s) \/ Hear(s) \/ Close(s)
  \/ \E e \in Event : Publish(e)
  \/ \E p \in Process, a \in Started : Deliver(p, a) \/ Handle(p, a) \/ Ack(p, a)
  \/ \E p \in Process : Crash(p) \/ Restart(p)

Spec == Init /\ [][Next]_vars

(* The broker delivers and the callbacks run; nobody has to connect, to    *)
(* publish, to stop or to restart.                                         *)
FairSpec ==
  /\ Spec
  /\ \A p \in Process, a \in Started :
       /\ WF_vars(Deliver(p, a)) /\ WF_vars(Handle(p, a)) /\ WF_vars(Ack(p, a))
  /\ \A s \in Socket : WF_vars(GotChannel(s)) /\ WF_vars(Hear(s))

-----------------------------------------------------------------------------
(* Properties. *)

(* Only a socket of the chat or of bmap has a queue, and the events of a   *)
(* queue were published for it.                                            *)
TypeOK ==
  /\ up \subseteq Process /\ crashes \in 0..MaxCrashes
  /\ conn \in [Socket -> {"new", "open", "closed"}]
  /\ queue \in [Socket -> {"none", "pending", "bound", "deleted", "orphan"}]
  /\ \A s \in Socket : /\ queue[s] # "none" => Url[s] \in Private /\ conn[s] # "new"
                       /\ own[s] # <<>> => queue[s] \in {"bound", "orphan"}
                       /\ Range(own[s]) \union Range(received[s]) \subseteq Range(log)
  /\ \A q \in Queue : ready[q] \union handled[q] \subseteq Range(log)
  /\ \A p \in Process, a \in Started :
       /\ unacked[p][a] # <<>> => p \in up
       /\ Range(unacked[p][a]) \subseteq [event : Range(log), done : BOOLEAN]

(* The events of a key stand in a sequence in the order of the log.        *)
InLogOrder(seq, key) ==
  \A i, j \in DOMAIN seq :
    i < j /\ KeyedTo(seq[i], key) /\ KeyedTo(seq[j], key) => Position(seq[i]) < Position(seq[j])

(* No client is sent an event twice, even when it is delivered again after *)
(* a stop, and until a process stops a client is sent the jobs, and the    *)
(* proofs, in the order of their publication.                              *)
SentOnceInOrder ==
  \A s \in Socket :
    /\ IsInjective(received[s])
    /\ crashes = 0 => \A key \in {"job", "proof"} : InLogOrder(received[s], key)

(* A client of the chat gets what was published to its key without gaps:   *)
(* what it was sent, followed by what waits for it, is in the order of the *)
(* log and leaves out none of its events after the first.                  *)
StreamsHaveNoGaps ==
  \A s \in Socket :
    conn[s] = "open" /\ queue[s] = "bound" =>
      LET key    == PrivateKey[Url[s]]
          stream == received[s] \o own[s]
      IN /\ \A e \in Range(own[s]) : KeyedTo(e, key)
         /\ InLogOrder(stream, key)
         /\ \A e \in Range(stream), i \in DOMAIN log :
              KeyedTo(e, key) /\ KeyedTo(log[i], key) /\ Position(e) < i => log[i] \in Range(stream)

(* While a process goes on running, every event of a shared queue is       *)
(* handled in the end, whichever process stopped with it; and a private    *)
(* queue is emptied again and again unless its process stopped.            *)
EventsArrive ==
  /\ \A q \in Queue, e \in Event :
       (\E p \in Process : <>[](p \in up)) => (e \in ready[q] ~> e \in handled[q])
  /\ \A s \in Socket : []<>(own[s] = <<>> \/ queue[s] = "orphan")
=============================================================================
