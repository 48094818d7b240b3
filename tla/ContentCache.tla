---------------------------- MODULE ContentCache ----------------------------
(***************************************************************************)
(* The content cache of src/content.ts and the actor that feeds it: how a  *)
(* transaction becomes a row of Contents, how a reply is linked to what it *)
(* answers, and how a chat message is announced and shown as the last one  *)
(* of its channel.                                                         *)
(*                                                                         *)
(* A Call is one run of cacheContent, on its own or inside the handler of  *)
(* the ingest_bmap_transactions actor.  There is one action for each       *)
(* awaited operation together with the synchronous code that follows it.   *)
(* Contents has a unique index on txid, ChatChannels has none.             *)
(***************************************************************************)
EXTENDS Naturals, Sequences

Parsed  == {"b", "event"}
Service == {"none", "video", "meeting"}

CONSTANTS
  Txid,       \* transactions somebody asks for
  Channel,    \* chat channels
  Outputs,    \* [Txid -> SUBSET Parsed], what its outputs parse as
  Hosted,     \* [Txid -> Service], the pow.co collection that knows it
  Reply,      \* [Txid -> Txid or None], the transaction it replies to
  ChannelOf,  \* [Txid -> Channel or None], the channel it is a message of
  Call,       \* calls that may be in flight at one time
  MayFail,    \* may an HTTP or database operation reject?
  MayCrash,   \* may a process stop?
  None

ASSUME ContentAssumption ==
  /\ Outputs \in [Txid -> SUBSET Parsed]
  /\ Hosted \in [Txid -> Service]
  /\ Reply \in [Txid -> Txid \cup {None}]
  /\ ChannelOf \in [Txid -> Channel \cup {None}]
  /\ \A t \in Txid : Reply[t] = None \/ ChannelOf[t] = None
  /\ MayFail \in BOOLEAN /\ MayCrash \in BOOLEAN
  /\ None \notin Txid \cup Channel

VARIABLES
  contents,   \* Contents, by txid
  channels,   \* ChatChannels, in the order of insertion
  saves,      \* saves of channel rows that nobody awaits
  announced,  \* how often chat.message was published for each transaction
  bmaps,      \* transactions in BmapTransactions
  pc,         \* where each call is: the operation it awaits
  tx,         \* the transaction the call is about
  actor,      \* is it a call of the actor?
  knows       \* attributes its instance of the row shows

tables == <<contents, channels, saves, announced, bmaps>>
vars   == <<tables, pc, tx, actor, knows>>

Kind    == {"absent", "b", "event", "video", "meeting", "file"}
Content == [kind: Kind, bmap: BOOLEAN, context_txid: Txid \cup {None},
            bitchat_channel: Channel \cup {None}]
ChatChannel == [channel: Channel, last: Txid \cup {None}]
Attribute   == {"bmap", "context_txid"}
NotStored   == [kind |-> "absent", bmap |-> FALSE, context_txid |-> None,
                bitchat_channel |-> None]

Stored(t)  == contents[t].kind # "absent"
RowsOf(ch) == {i \in DOMAIN channels : channels[i].channel = ch}
Shown(t)   == (IF contents[t].bmap THEN {"bmap"} ELSE {})
              \cup (IF contents[t].context_txid # None THEN {"context_txid"} ELSE {})

CreateSteps == {"createB", "createEvent", "createVideo", "createMeeting", "createFile"}
IndexSteps  == {"setBmap", "findOriginal", "setContext", "setChannel"}
DbSteps     == CreateSteps \cup IndexSteps \cup
               {"ingest", "original", "find", "findChannel", "createChannel",
                "actorContext", "actorBmap"}
Settled     == {"cached", "ignored", "indexed", "failed"}
Step        == DbSteps \cup {"fetch", "askVideo", "askMeeting", "askFile"}

Init ==
  /\ contents = [t \in Txid |-> NotStored]
  /\ channels = <<>>
  /\ saves = {}
  /\ announced = [t \in Txid |-> 0]
  /\ bmaps = {}
  /\ pc = [c \in Call |-> "idle"]
  /\ tx = [c \in Call |-> None]
  /\ actor = [c \in Call |-> FALSE]
  /\ knows = [c \in Call |-> {}]

Goto(c, step) == pc' = [pc EXCEPT ![c] = step]

-----------------------------------------------------------------------------
(* Entering.                                                               *)

Enter(c, t, isActor, step) ==
  /\ pc[c] = "idle"
  /\ Goto(c, step)
  /\ tx' = [tx EXCEPT ![c] = t]
  /\ actor' = [actor EXCEPT ![c] = isActor]
  /\ UNCHANGED <<tables, knows>>

\* GET /content/{txid}, GET /chat/messages/{txid} and the crawler of all jobs
\* and proofs, which walks both lists at once.
CacheContent(c, t) == Enter(c, t, FALSE, "find")

\* A bmap.transaction.discovered event reaches the actor.
Discovered(c, t) == Enter(c, t, TRUE, "ingest")

\* ingestBmapTransaction; only replies are looked at further.
Ingest(c) ==
  /\ pc[c] = "ingest"
  /\ bmaps' = bmaps \cup {tx[c]}
  /\ Goto(c, IF Reply[tx[c]] # None THEN "original" ELSE "ignored")
  /\ UNCHANGED <<contents, channels, saves, announced, tx, actor, knows>>

LookUpOriginal(c) ==
  /\ pc[c] = "original"
  /\ Goto(c, IF Stored(Reply[tx[c]]) THEN "find" ELSE "ignored")
  /\ UNCHANGED <<tables, tx, actor, knows>>

\* Broken: the actor trusts a row that has its bmap to be linked too.
ActorStepTrusting(shown) ==
  IF "bmap" \in shown THEN "indexed"
  ELSE IF "context_txid" \notin shown THEN "actorContext" ELSE "actorBmap"

\* What the actor does with an instance that shows these attributes.
ActorStep(shown) ==
  IF "context_txid" \notin shown THEN "actorContext"
  ELSE IF "bmap" \notin shown THEN "actorBmap" ELSE "indexed"

\* cacheContent resolves to an instance that shows these attributes.
Return(c, shown) ==
  /\ Goto(c, IF actor[c] THEN ActorStep(shown) ELSE "cached")
  /\ knows' = [knows EXCEPT ![c] = shown]

-----------------------------------------------------------------------------
(* Finding or making the row.                                              *)

Find(c) ==
  /\ pc[c] = "find"
  /\ \/ Stored(tx[c]) /\ Return(c, Shown(tx[c]))
     \/ ~Stored(tx[c]) /\ Goto(c, "fetch") /\ UNCHANGED knows
  /\ UNCHANGED <<tables, tx, actor>>

FirstCreate(t) ==
  IF "b" \in Outputs[t] THEN "createB"
  ELSE IF "event" \in Outputs[t] THEN "createEvent" ELSE "askVideo"

Fetch(c) ==
  /\ pc[c] = "fetch"
  /\ \/ Goto(c, FirstCreate(tx[c]))
     \/ MayFail /\ Goto(c, "failed")
  /\ UNCHANGED <<tables, tx, actor, knows>>

\* Broken: a taken txid is not an error, the call goes on with the row it meets;
\* the row is overwritten.
CreateOrMeet(c, kind, taken, made) ==
  /\ Goto(c, made)
  /\ contents' = IF Stored(tx[c]) THEN contents
                 ELSE [contents EXCEPT ![tx[c]].kind = kind]
  /\ UNCHANGED <<channels, saves, announced, bmaps, tx, actor, knows>>
CreateOrReplace(c, kind, taken, made) ==
  /\ Goto(c, made)
  /\ contents' = [contents EXCEPT ![tx[c]].kind = kind]
  /\ UNCHANGED <<channels, saves, announced, bmaps, tx, actor, knows>>

\* Each create makes the row or violates the unique index.
Create(c, kind, taken, made) ==
  /\ \/ /\ Stored(tx[c])
        /\ Goto(c, taken)
        /\ UNCHANGED contents
     \/ /\ ~Stored(tx[c])
        /\ Goto(c, made)
        /\ contents' = [contents EXCEPT ![tx[c]].kind = kind]
  /\ UNCHANGED <<channels, saves, announced, bmaps, tx, actor, knows>>

\* A transaction that has a B output and an event is stored as the first and
\* rejected as the second.
CreateB(c) ==
  /\ pc[c] = "createB"
  /\ Create(c, "b", "failed",
            IF "event" \in Outputs[tx[c]] THEN "createEvent" ELSE "setBmap")

CreateEvent(c) ==
  /\ pc[c] = "createEvent"
  /\ Create(c, "event", "failed", "setBmap")

\* axios.get of a pow.co collection: an error is logged and the next source is
\* asked.
Ask(c, step, kind, create, next) ==
  /\ pc[c] = step
  /\ \/ Hosted[tx[c]] = kind /\ Goto(c, create)
     \/ (Hosted[tx[c]] # kind \/ MayFail) /\ Goto(c, next)
  /\ UNCHANGED <<tables, tx, actor, knows>>

AskVideo(c)   == Ask(c, "askVideo", "video", "createVideo", "askMeeting")
AskMeeting(c) == Ask(c, "askMeeting", "meeting", "createMeeting", "askFile")

\* The create is inside the same try: a taken txid is logged too.
CreateVideo(c) ==
  /\ pc[c] = "createVideo"
  /\ Create(c, "video", "askMeeting", "setBmap")
CreateMeeting(c) ==
  /\ pc[c] = "createMeeting"
  /\ Create(c, "meeting", "askFile", "setBmap")

\* bitcoinfileserver.com: an error answer leaves the row without a type; an error
\* without an answer breaks the error handler.
AskFile(c) ==
  /\ pc[c] = "askFile"
  /\ Goto(c, "createFile") \/ (MayFail /\ Goto(c, "failed"))
  /\ UNCHANGED <<tables, tx, actor, knows>>

\* Broken: the row of the file server replaces the one that is there.
CreateFileAnyway(c) ==
  /\ pc[c] = "createFile"
  /\ CreateOrReplace(c, "file", "failed", "setBmap")

CreateFile(c) ==
  /\ pc[c] = "createFile"
  /\ Create(c, "file", "failed", "setBmap")

-----------------------------------------------------------------------------
(* Indexing.  Only the call that fetched the transaction knows its bmap.   *)

\* Broken: the save writes every column as the instance of the create has it.
SetBmapStale(c) ==
  /\ pc[c] = "setBmap"
  /\ contents' = [contents EXCEPT ![tx[c]].bmap = TRUE, ![tx[c]].context_txid = None]
  /\ \/ Reply[tx[c]] # None /\ Goto(c, "findOriginal") /\ UNCHANGED knows
     \/ ChannelOf[tx[c]] # None /\ Goto(c, "setChannel") /\ UNCHANGED knows
     \/ Reply[tx[c]] = None /\ ChannelOf[tx[c]] = None /\ Return(c, {"bmap"})
  /\ UNCHANGED <<channels, saves, announced, bmaps, tx, actor>>

\* bmap is stored with the row.  A transaction that cannot be parsed has none, which
\* nothing but this column shows: it goes on like one with neither reply nor channel.
SetBmap(c) ==
  /\ pc[c] = "setBmap"
  /\ contents' = [contents EXCEPT ![tx[c]].bmap = TRUE]
  /\ \/ Reply[tx[c]] # None /\ Goto(c, "findOriginal") /\ UNCHANGED knows
     \/ ChannelOf[tx[c]] # None /\ Goto(c, "setChannel") /\ UNCHANGED knows
     \/ Reply[tx[c]] = None /\ ChannelOf[tx[c]] = None /\ Return(c, {"bmap"})
  /\ UNCHANGED <<channels, saves, announced, bmaps, tx, actor>>

FindOriginal(c) ==
  /\ pc[c] = "findOriginal"
  /\ \/ Stored(Reply[tx[c]]) /\ Goto(c, "setContext") /\ UNCHANGED knows
     \/ ~Stored(Reply[tx[c]]) /\ Return(c, {"bmap"})
  /\ UNCHANGED <<tables, tx, actor>>

Link(c) == contents' = [contents EXCEPT ![tx[c]].context_txid = Reply[tx[c]]]

SetContext(c) ==
  /\ pc[c] = "setContext"
  /\ Link(c)
  /\ Return(c, {"bmap", "context_txid"})
  /\ UNCHANGED <<channels, saves, announced, bmaps, tx, actor>>

\* Broken: the message is announced and its column left to a later save.
AnnounceFirst(c) ==
  /\ pc[c] = "setChannel"
  /\ announced' = [announced EXCEPT ![tx[c]] = @ + 1]
  /\ Goto(c, "findChannel")
  /\ UNCHANGED <<contents, channels, saves, bmaps, tx, actor, knows>>

\* Broken: a message that has its bmap is taken to be indexed.
SkipChannel(c) ==
  /\ pc[c] = "setChannel"
  /\ Return(c, {"bmap"})
  /\ UNCHANGED <<tables, tx, actor>>

SetChannel(c) ==
  /\ pc[c] = "setChannel"
  /\ contents' = [contents EXCEPT ![tx[c]].bitchat_channel = ChannelOf[tx[c]]]
  /\ announced' = [announced EXCEPT ![tx[c]] = @ + 1]
  /\ Goto(c, "findChannel")
  /\ UNCHANGED <<channels, saves, bmaps, tx, actor, knows>>

\* Broken: the save goes to the row after.
LaunchSaveNext(c, i) ==
  /\ saves' = saves \cup {[row |-> i + 1, message |-> tx[c]]}
  /\ Return(c, {"bmap"})

\* chatChannel.save() is not awaited, so the call returns while it is under way.
LaunchSave(c, i) ==
  /\ saves' = saves \cup {[row |-> i, message |-> tx[c]]}
  /\ Return(c, {"bmap"})

\* The two halves of ChatChannel.findOrCreate.
FindChannel(c) ==
  /\ pc[c] = "findChannel"
  /\ \/ \E i \in RowsOf(ChannelOf[tx[c]]) : LaunchSave(c, i)
     \/ /\ RowsOf(ChannelOf[tx[c]]) = {}
        /\ Goto(c, "createChannel")
        /\ UNCHANGED <<saves, knows>>
  /\ UNCHANGED <<contents, channels, announced, bmaps, tx, actor>>

CreateChannel(c) ==
  /\ pc[c] = "createChannel"
  /\ channels' = Append(channels, [channel |-> ChannelOf[tx[c]], last |-> None])
  /\ LaunchSave(c, Len(channels) + 1)
  /\ UNCHANGED <<contents, announced, bmaps, tx, actor>>

SaveLands(s) ==
  /\ s \in saves
  /\ saves' = saves \ {s}
  /\ channels' = [channels EXCEPT ![s.row].last = s.message]
  /\ UNCHANGED <<contents, announced, bmaps, pc, tx, actor, knows>>

-----------------------------------------------------------------------------
(* The rest of the actor, with the instance cacheContent returned.         *)

ActorContext(c) ==
  /\ pc[c] = "actorContext"
  /\ Link(c)
  /\ knows' = [knows EXCEPT ![c] = @ \cup {"context_txid"}]
  /\ Goto(c, ActorStep(knows'[c]))
  /\ UNCHANGED <<channels, saves, announced, bmaps, tx, actor>>

ActorBmap(c) ==
  /\ pc[c] = "actorBmap"
  /\ contents' = [contents EXCEPT ![tx[c]].bmap = TRUE]
  /\ Goto(c, "indexed")
  /\ UNCHANGED <<channels, saves, announced, bmaps, tx, actor, knows>>

-----------------------------------------------------------------------------
(* Failures and the end of a call.                                         *)

\* A database operation rejects.  Two of the creates are inside a try.
StepRejects(c) ==
  /\ MayFail /\ pc[c] \in DbSteps
  /\ Goto(c, IF pc[c] = "createVideo" THEN "askMeeting"
             ELSE IF pc[c] = "createMeeting" THEN "askFile" ELSE "failed")
  /\ UNCHANGED <<tables, tx, actor, knows>>

Forget(c) ==
  /\ Goto(c, "idle")
  /\ tx' = [tx EXCEPT ![c] = None]
  /\ actor' = [actor EXCEPT ![c] = FALSE]
  /\ knows' = [knows EXCEPT ![c] = {}]
  /\ UNCHANGED tables

Release(c) == pc[c] \in Settled /\ Forget(c)

\* A process stops: a call is gone, and so may be a save it had launched.
Crash(c) == MayCrash /\ pc[c] # "idle" /\ Forget(c)

SaveIsLost(s) ==
  /\ MayCrash \/ MayFail
  /\ s \in saves
  /\ saves' = saves \ {s}
  /\ UNCHANGED <<contents, channels, announced, bmaps, pc, tx, actor, knows>>

-----------------------------------------------------------------------------
CacheStep(c) ==
  \/ Ingest(c) \/ LookUpOriginal(c) \/ Find(c) \/ Fetch(c)
  \/ CreateB(c) \/ CreateEvent(c) \/ AskVideo(c) \/ CreateVideo(c)
  \/ AskMeeting(c) \/ CreateMeeting(c) \/ AskFile(c) \/ CreateFile(c)
  \/ SetBmap(c) \/ FindOriginal(c) \/ SetContext(c) \/ SetChannel(c)
  \/ FindChannel(c) \/ CreateChannel(c) \/ ActorContext(c) \/ ActorBmap(c)

Next ==
  \/ \E c \in Call, t \in Txid : CacheContent(c, t) \/ Discovered(c, t)
  \/ \E c \in Call : CacheStep(c) \/ StepRejects(c) \/ Release(c) \/ Crash(c)
  \/ \E s \in saves : SaveLands(s) \/ SaveIsLost(s)

Spec == Init /\ [][Next]_vars

\* Awaited operations resolve or reject, and saves nobody awaits arrive.
Fairness ==
  /\ \A c \in Call : WF_vars(CacheStep(c))
  /\ WF_vars(\E s \in saves : SaveLands(s))

FairSpec == Spec /\ Fairness

-----------------------------------------------------------------------------
(* Properties.                                                             *)

\* Every variable keeps its shape, and a call in flight has its transaction.
TypeOK ==
  /\ contents \in [Txid -> Content]
  /\ channels \in Seq(ChatChannel)
  /\ saves \subseteq [row: DOMAIN channels, message: Txid]
  /\ announced \in [Txid -> Nat]
  /\ bmaps \subseteq Txid
  /\ pc \in [Call -> {"idle"} \cup Step \cup Settled]
  /\ tx \in [Call -> Txid \cup {None}]
  /\ \A c \in Call : pc[c] # "idle" => tx[c] \in Txid
  /\ actor \in [Call -> BOOLEAN]
  /\ knows \in [Call -> SUBSET Attribute]

\* A chat message is announced at most once, whichever of the API, the crawler
\* and the actor meet its transaction first and however often: nothing but the
\* violated unique index keeps a second call from indexing it again.
AnnouncedOnce == \A t \in Txid : announced[t] <= 1

\* A chat message that was announced is listed in its channel.
AnnouncedIsListed ==
  \A t \in Txid : announced[t] > 0 =>
    Stored(t) /\ contents[t].bitchat_channel = ChannelOf[t]

\* A reply is linked to a transaction that has a row, so GET /content/.../replies
\* of the original can show it, whether cacheContent or the actor linked it.
RepliesHaveOriginals ==
  \A t \in Txid : LET original == contents[t].context_txid
                  IN original # None => original = Reply[t] /\ Stored(original)

\* When the actor is done with a reply, the row is linked and has its bmap, also
\* if another call made the row and stopped before it indexed it.
ActorRepairs ==
  \A c \in Call : pc[c] = "indexed" =>
    contents[tx[c]].bmap /\ contents[tx[c]].context_txid = Reply[tx[c]]

\* The last message of a channel is a message of that channel, in whatever order
\* the saves arrive.
ChannelShowsItsMessage ==
  \A i \in DOMAIN channels : channels[i].last # None =>
    contents[channels[i].last].bitchat_channel = channels[i].channel

\* Nothing dangles: the events, the replies and the channels refer to rows that
\* are there and that belong to them, although each of the three is written by a
\* call, or a save nobody awaits, that looked its target up some awaits earlier.
LinksAreSound == AnnouncedIsListed /\ RepliesHaveOriginals /\ ChannelShowsItsMessage

\* The source the row of a transaction should come from.
BestSource(t) ==
  IF "b" \in Outputs[t] THEN "b"
  ELSE IF "event" \in Outputs[t] THEN "event"
  ELSE IF Hosted[t] # "none" THEN Hosted[t] ELSE "file"

\* While no request fails, a row comes from the best source that knows the
\* transaction, although a call that loses the race for it goes on to the next.
BestSourceWins ==
  ~MayFail => \A t \in Txid : Stored(t) => contents[t].kind = BestSource(t)

\* A late save takes nothing back: a row keeps its source, its bmap, its original
\* and its channel.
RowsOnlyGain ==
  [][\A t \in Txid :
       /\ Stored(t) => contents'[t].kind = contents[t].kind
       /\ contents[t].bmap => contents'[t].bmap
       /\ contents[t].context_txid # None =>
            contents'[t].context_txid = contents[t].context_txid
       /\ contents[t].bitchat_channel # None =>
            contents'[t].bitchat_channel = contents[t].bitchat_channel]_vars

\* A stored chat message becomes, or has given way to, the last message of its
\* channel, unless it is also an event: then its second create rejects.
MessagesSurface ==
  \A t \in Txid : ChannelOf[t] # None /\ Outputs[t] # Parsed =>
    (Stored(t) ~> \E i \in RowsOf(ChannelOf[t]) : channels[i].last # None)
=============================================================================
