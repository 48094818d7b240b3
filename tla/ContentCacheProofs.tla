------------------------- MODULE ContentCacheProofs -------------------------
(* Theorems about ContentCache, for every value of its constants. *)
EXTENDS ContentCache, SequenceTheorems, TLAPS

AfterBmap  == {"findOriginal", "setContext", "setChannel", "findChannel", "createChannel"}
ActorSteps == {"actorContext", "actorBmap", "indexed"}
BeforeLookup == {"idle", "ingest", "original", "ignored", "failed"}

\* What a call may rely on over its awaits.
CallInv(c) ==
  /\ pc[c] # "idle" => tx[c] \in Txid
  /\ pc[c] \in IndexSteps => Stored(tx[c])
  /\ pc[c] \in AfterBmap => contents[tx[c]].bmap
  /\ pc[c] \in {"findOriginal", "setContext", "original"} => Reply[tx[c]] # None
  /\ pc[c] = "setContext" => Stored(Reply[tx[c]])
  /\ pc[c] \in {"setChannel", "findChannel", "createChannel"} => ChannelOf[tx[c]] # None
  /\ pc[c] \in {"findChannel", "createChannel"} =>
       contents[tx[c]].bitchat_channel = ChannelOf[tx[c]]
  /\ pc[c] \in ActorSteps => actor[c]
  /\ actor[c] /\ pc[c] \notin BeforeLookup =>
       Reply[tx[c]] # None /\ Stored(Reply[tx[c]])
  /\ pc[c] \in ActorSteps /\ "bmap" \in knows[c] => contents[tx[c]].bmap
  /\ pc[c] \in ActorSteps /\ "context_txid" \in knows[c] =>
       contents[tx[c]].context_txid = Reply[tx[c]]
  /\ pc[c] = "actorBmap" => "context_txid" \in knows[c]
  /\ pc[c] = "indexed" =>
       contents[tx[c]].bmap /\ contents[tx[c]].context_txid = Reply[tx[c]]

\* At most one call indexes a transaction, and only before it is announced.
Indexing(c) == pc[c] \in IndexSteps
NewsInv ==
  /\ \A c \in Call : Indexing(c) => announced[tx[c]] = 0
  /\ \A c, d \in Call : Indexing(c) /\ Indexing(d) /\ tx[c] = tx[d] => c = d
  /\ \A t \in Txid : ~Stored(t) => announced[t] = 0
  /\ \A t \in Txid : announced[t] > 0 => ChannelOf[t] # None

\* The channel rows and the saves under way show listed messages.
ChannelInv ==
  /\ \A s \in saves : /\ channels[s.row].channel = ChannelOf[s.message]
                      /\ contents[s.message].bitchat_channel = ChannelOf[s.message]
  /\ ChannelShowsItsMessage

\* A row is listed in no channel but its own.
OwnChannel == \A t \in Txid : contents[t].bitchat_channel \in {None, ChannelOf[t]}

GoodRows == AnnouncedOnce /\ AnnouncedIsListed /\ RepliesHaveOriginals /\ OwnChannel

IInv == TypeOK /\ (\A c \in Call : CallInv(c)) /\ NewsInv /\ ChannelInv /\ GoodRows

LEMMA ConstantFacts ==
  /\ \A t \in Txid : Reply[t] \in Txid \cup {None} /\ ChannelOf[t] \in Channel \cup {None}
  /\ None \notin Txid /\ None \notin Channel
  /\ \A t \in Txid : Reply[t] = None \/ ChannelOf[t] = None
  BY ContentAssumption

LEMMA InitIInv == Init => IInv
<1> SUFFICES ASSUME Init PROVE IInv
  OBVIOUS
<1> USE ConstantFacts DEF Init, NotStored, Stored
<1>1. TypeOK
  BY DEF TypeOK, Content, Kind, Attribute
<1>2. \A c \in Call : CallInv(c)
  BY DEF CallInv, IndexSteps, AfterBmap, ActorSteps, BeforeLookup
<1>3. NewsInv /\ ChannelInv /\ GoodRows
  BY DEF NewsInv, Indexing, IndexSteps, ChannelInv, ChannelShowsItsMessage,
         GoodRows, AnnouncedOnce, AnnouncedIsListed, RepliesHaveOriginals, OwnChannel
<1>4. QED
  BY <1>1, <1>2, <1>3 DEF IInv

-----------------------------------------------------------------------------
(* Rows only gain, so what a call relies on stays true while others move.  *)

Gain ==
  \A t \in Txid :
    /\ Stored(t) => contents'[t].kind = contents[t].kind
    /\ contents[t].bmap => contents'[t].bmap
    /\ contents[t].context_txid # None =>
         contents'[t].context_txid = contents[t].context_txid
    /\ \/ contents'[t].bitchat_channel = contents[t].bitchat_channel
       \/ /\ contents[t].bitchat_channel = None
          /\ contents'[t].bitchat_channel = ChannelOf[t]

\* A row is linked to nothing but a stored original.
Linked ==
  \A t \in Txid : \/ contents'[t].context_txid = contents[t].context_txid
                  \/ /\ contents'[t].context_txid = Reply[t]
                     /\ Reply[t] # None /\ Stored(Reply[t])

\* A step of call c leaves the other calls where they are.
Frame(c) ==
  \A d \in Call \ {c} : /\ pc'[d] = pc[d] /\ tx'[d] = tx[d]
                        /\ actor'[d] = actor[d] /\ knows'[d] = knows[d]

LEMMA OthersKeep ==
  ASSUME IInv, Gain, NEW d \in Call,
         pc'[d] = pc[d], tx'[d] = tx[d], actor'[d] = actor[d], knows'[d] = knows[d]
  PROVE  CallInv(d)'
<1>1. CallInv(d) /\ (pc[d] # "idle" => tx[d] \in Txid)
  BY DEF IInv, CallInv
<1>2. tx[d] \in Txid =>
        /\ contents[tx[d]].bmap => contents'[tx[d]].bmap
        /\ Stored(tx[d]) => contents'[tx[d]].kind # "absent"
  BY DEF Gain, Stored
<1>3. tx[d] \in Txid /\ Reply[tx[d]] # None =>
        /\ Stored(Reply[tx[d]]) => Stored(Reply[tx[d]])'
        /\ contents[tx[d]].context_txid = Reply[tx[d]] =>
             contents'[tx[d]].context_txid = Reply[tx[d]]
  BY ConstantFacts DEF Gain, Stored
<1>4. tx[d] \in Txid /\ ChannelOf[tx[d]] # None
        /\ contents[tx[d]].bitchat_channel = ChannelOf[tx[d]] =>
             contents'[tx[d]].bitchat_channel = ChannelOf[tx[d]]
  BY DEF Gain
<1>5. pc[d] \in ActorSteps => tx[d] \in Txid /\ Reply[tx[d]] # None
  BY <1>1 DEF CallInv, ActorSteps, BeforeLookup
<1>6. /\ pc[d] \in IndexSteps => tx[d] \in Txid /\ Stored(tx[d])'
      /\ pc[d] \in AfterBmap => contents'[tx[d]].bmap
      /\ pc[d] = "setContext" => contents'[Reply[tx[d]]].kind # "absent"
      /\ pc[d] \in {"findChannel", "createChannel"} =>
           contents'[tx[d]].bitchat_channel = ChannelOf[tx[d]]
  <2>1. /\ pc[d] \in IndexSteps \cup AfterBmap => tx[d] \in Txid
        /\ "setContext" \in IndexSteps /\ {"findChannel", "createChannel"} \subseteq AfterBmap
    BY <1>1 DEF IndexSteps, AfterBmap
  <2>2. pc[d] \in IndexSteps => tx[d] \in Txid /\ Stored(tx[d])'
    BY <1>1, <1>2, <2>1 DEF CallInv, Stored
  <2>3. pc[d] \in AfterBmap => contents'[tx[d]].bmap
    BY <1>1, <1>2, <2>1 DEF CallInv
  <2>4. pc[d] = "setContext" => contents'[Reply[tx[d]]].kind # "absent"
    BY <1>1, <1>3, <2>1 DEF CallInv, Stored
  <2>5. pc[d] \in {"findChannel", "createChannel"} =>
          contents'[tx[d]].bitchat_channel = ChannelOf[tx[d]]
    BY <1>1, <1>4, <2>1 DEF CallInv
  <2>6. QED
    BY <2>2, <2>3, <2>4, <2>5
<1>7. actor[d] /\ pc[d] \notin BeforeLookup =>
        Reply[tx[d]] # None /\ contents'[Reply[tx[d]]].kind # "absent"
  BY <1>1, <1>3 DEF CallInv, BeforeLookup, Stored
<1>8. /\ pc[d] \in ActorSteps /\ "bmap" \in knows[d] => contents'[tx[d]].bmap
      /\ pc[d] \in ActorSteps /\ "context_txid" \in knows[d] =>
           contents'[tx[d]].context_txid = Reply[tx[d]]
      /\ pc[d] = "indexed" =>
           contents'[tx[d]].bmap /\ contents'[tx[d]].context_txid = Reply[tx[d]]
  <2>1. pc[d] \in ActorSteps =>
          /\ contents[tx[d]].bmap => contents'[tx[d]].bmap
          /\ contents[tx[d]].context_txid = Reply[tx[d]] =>
               contents'[tx[d]].context_txid = Reply[tx[d]]
    BY <1>2, <1>3, <1>5
  <2>2. "indexed" \in ActorSteps
    BY DEF ActorSteps
  <2>3. QED
    BY <1>1, <2>1, <2>2 DEF CallInv
<1>9. QED
  BY <1>1, <1>6, <1>7, <1>8 DEF CallInv, Stored

LEMMA NewsKeeps ==
  ASSUME IInv, Gain, announced' = announced,
         \A b \in Call : Indexing(b)' => Indexing(b) /\ tx'[b] = tx[b]
  PROVE  NewsInv'
<1>1. \A t \in Txid : Stored(t) => Stored(t)'
  BY DEF Gain, Stored
<1>2. QED
  BY <1>1 DEF IInv, NewsInv

LEMMA GoodRowsKeep ==
  ASSUME IInv, Gain, Linked, announced' = announced
  PROVE  GoodRows'
<1>1. \A t \in Txid : Stored(t) => Stored(t)'
  BY DEF Gain, Stored
<1>2. AnnouncedOnce'
  BY DEF IInv, GoodRows, AnnouncedOnce
<1>3. AnnouncedIsListed'
  BY <1>1 DEF IInv, GoodRows, AnnouncedIsListed, NewsInv, Gain
<1>4. RepliesHaveOriginals'
  BY <1>1, ConstantFacts DEF IInv, GoodRows, RepliesHaveOriginals, Linked
<1>5. OwnChannel'
  BY DEF IInv, GoodRows, OwnChannel, Gain
<1>6. QED
  BY <1>2, <1>3, <1>4, <1>5 DEF GoodRows

LEMMA RowTypes ==
  ASSUME TypeOK
  PROVE  /\ \A i \in DOMAIN channels : /\ channels[i].channel \in Channel
                                       /\ channels[i].last \in Txid \cup {None}
         /\ \A s \in saves : s.row \in DOMAIN channels /\ s.message \in Txid
<1>1. \A i \in DOMAIN channels : channels[i] \in ChatChannel
  BY DEF TypeOK
<1>2. QED
  BY <1>1 DEF TypeOK, ChatChannel

LEMMA ChannelsKeep ==
  ASSUME IInv, Gain, channels' = channels, saves' \subseteq saves
  PROVE  ChannelInv'
<1>1. TypeOK
  BY DEF IInv
<1>2. \A s \in saves' : /\ channels'[s.row].channel = ChannelOf[s.message]
                        /\ contents'[s.message].bitchat_channel = ChannelOf[s.message]
  BY <1>1, RowTypes, ConstantFacts DEF IInv, ChannelInv, Gain
<1>3. ChannelShowsItsMessage'
  BY <1>1, RowTypes, ConstantFacts DEF IInv, ChannelInv, ChannelShowsItsMessage, Gain
<1>4. QED
  BY <1>2, <1>3 DEF ChannelInv

\* Enough for a step of call c that announces nothing and leaves channels alone.
LEMMA QuietStep ==
  ASSUME IInv, NEW c \in Call, TypeOK', Frame(c), CallInv(c)', Gain, Linked,
         announced' = announced, channels' = channels, saves' \subseteq saves,
         Indexing(c)' => Indexing(c) /\ tx'[c] = tx[c]
  PROVE  IInv'
<1>1. \A d \in Call : CallInv(d)'
  <2>1. TAKE d \in Call
  <2>2. CASE d = c
    BY <2>2
  <2>3. CASE d # c
    BY <2>3, OthersKeep DEF Frame
  <2>4. QED
    BY <2>2, <2>3
<1>2. \A b \in Call : Indexing(b)' => Indexing(b) /\ tx'[b] = tx[b]
  BY DEF Frame, Indexing
<1>3. NewsInv' /\ GoodRows' /\ ChannelInv'
  BY <1>2, NewsKeeps, GoodRowsKeep, ChannelsKeep
<1>4. QED
  BY <1>1, <1>3 DEF IInv

LEMMA SameRows == UNCHANGED contents => Gain /\ Linked
  BY DEF Gain, Linked

-----------------------------------------------------------------------------
(* The end of cacheContent.                                                *)

\* What cacheContent may return an instance with these attributes on.
Returnable(c, shown) ==
  /\ tx[c] \in Txid
  /\ "bmap" \in shown => contents'[tx[c]].bmap
  /\ "context_txid" \in shown => contents'[tx[c]].context_txid = Reply[tx[c]]
  /\ actor[c] => Reply[tx[c]] # None /\ contents'[Reply[tx[c]]].kind # "absent"

LEMMA Returned ==
  ASSUME TypeOK, NEW c \in Call, NEW shown \in SUBSET Attribute,
         Return(c, shown), UNCHANGED <<tx, actor>>, Returnable(c, shown)
  PROVE  /\ Frame(c) /\ CallInv(c)' /\ ~Indexing(c)'
         /\ pc' \in [Call -> {"idle"} \cup Step \cup Settled]
         /\ knows' \in [Call -> SUBSET Attribute]
<1>1. /\ pc' = [pc EXCEPT ![c] = IF actor[c] THEN ActorStep(shown) ELSE "cached"]
      /\ knows' = [knows EXCEPT ![c] = shown]
  BY DEF Return, Goto
<1>2. /\ ActorStep(shown) \in ActorSteps
      /\ ActorStep(shown) = "actorBmap" => "context_txid" \in shown
      /\ ActorStep(shown) = "indexed" => "context_txid" \in shown /\ "bmap" \in shown
  BY DEF ActorStep, ActorSteps
<1>3. ActorSteps \subseteq Step \cup Settled /\ "cached" \in Settled
  BY DEF ActorSteps, Step, Settled, DbSteps
<1>4. /\ pc' \in [Call -> {"idle"} \cup Step \cup Settled]
      /\ knows' \in [Call -> SUBSET Attribute]
  BY <1>1, <1>2, <1>3 DEF TypeOK
<1>5. Frame(c)
  BY <1>1 DEF Frame, TypeOK
<1>6. /\ pc'[c] = IF actor[c] THEN ActorStep(shown) ELSE "cached"
      /\ knows'[c] = shown /\ tx'[c] = tx[c] /\ actor'[c] = actor[c]
  BY <1>1 DEF TypeOK
<1>7. ~Indexing(c)'
  BY <1>2, <1>6 DEF Indexing, IndexSteps, ActorSteps
<1>8. CallInv(c)'
  <2>1. CASE actor[c]
    BY <2>1, <1>2, <1>6 DEF CallInv, Returnable, Stored, IndexSteps, AfterBmap, ActorSteps, BeforeLookup
  <2>2. CASE ~actor[c]
    BY <2>2, <1>6 DEF CallInv, Returnable, IndexSteps, AfterBmap, ActorSteps, BeforeLookup
  <2>3. QED
    BY <2>1, <2>2
<1>9. QED
  BY <1>4, <1>5, <1>7, <1>8

-----------------------------------------------------------------------------
(* Steps that touch no table.                                              *)

\* Going to a step that relies on nothing the call does not know already.
LEMMA GotoKeeps ==
  ASSUME IInv, NEW c \in Call, NEW step \in Step \cup Settled, Goto(c, step),
         UNCHANGED <<tables, tx, actor, knows>>, pc[c] # "idle",
         step \notin IndexSteps \cup AfterBmap \cup ActorSteps \cup {"original"},
         actor[c] /\ step \notin BeforeLookup => Reply[tx[c]] # None /\ Stored(Reply[tx[c]])
  PROVE  IInv'
<1>1. pc' = [pc EXCEPT ![c] = step] /\ pc \in [Call -> {"idle"} \cup Step \cup Settled]
  BY DEF Goto, IInv, TypeOK
<1>2. TypeOK'
  BY <1>1 DEF IInv, TypeOK, tables
<1>3. Frame(c) /\ pc'[c] = step /\ tx[c] \in Txid /\ tx'[c] = tx[c] /\ actor'[c] = actor[c]
  BY <1>1 DEF Frame, IInv, CallInv
<1>4. CallInv(c)'
  <2>1. step # "idle"
    BY DEF Step, Settled, DbSteps, CreateSteps, IndexSteps
  <2>2. QED
    BY <1>3, <2>1 DEF CallInv, IndexSteps, AfterBmap, ActorSteps, tables, Stored
<1>5. ~Indexing(c)'
  BY <1>3 DEF Indexing
<1>6. QED
  BY <1>2, <1>3, <1>4, <1>5, SameRows, QuietStep DEF tables

LEMMA EnterKeeps ==
  ASSUME IInv, NEW c \in Call, NEW t \in Txid, CacheContent(c, t) \/ Discovered(c, t)
  PROVE  IInv'
<1>1. PICK b \in BOOLEAN, step \in {"find", "ingest"} :
        Enter(c, t, b, step) /\ (b => step = "ingest")
  BY DEF CacheContent, Discovered
<1>2. /\ pc' = [pc EXCEPT ![c] = step] /\ tx' = [tx EXCEPT ![c] = t]
      /\ actor' = [actor EXCEPT ![c] = b] /\ UNCHANGED <<tables, knows>>
  BY <1>1 DEF Enter, Goto
<1>3. TypeOK'
  BY <1>2 DEF IInv, TypeOK, tables, Step, DbSteps
<1>4. Frame(c) /\ pc'[c] = step /\ tx'[c] = t /\ actor'[c] = b
  BY <1>2 DEF Frame, IInv, TypeOK
<1>5. CallInv(c)'
  BY <1>1, <1>4 DEF CallInv, IndexSteps, AfterBmap, ActorSteps, BeforeLookup
<1>6. ~Indexing(c)'
  BY <1>4 DEF Indexing, IndexSteps
<1>7. QED
  BY <1>2, <1>3, <1>4, <1>5, <1>6, SameRows, QuietStep DEF tables

LEMMA ForgetKeeps ==
  ASSUME IInv, NEW c \in Call, Forget(c)
  PROVE  IInv'
<1>2. /\ pc' = [pc EXCEPT ![c] = "idle"] /\ tx' = [tx EXCEPT ![c] = None]
      /\ actor' = [actor EXCEPT ![c] = FALSE] /\ knows' = [knows EXCEPT ![c] = {}]
      /\ UNCHANGED tables
  BY DEF Forget, Goto
<1>3. TypeOK'
  BY <1>2 DEF IInv, TypeOK, tables
<1>4. Frame(c) /\ pc'[c] = "idle"
  BY <1>2 DEF Frame, IInv, TypeOK
<1>5. CallInv(c)'
  BY <1>4 DEF CallInv, IndexSteps, AfterBmap, ActorSteps, BeforeLookup
<1>6. ~Indexing(c)'
  BY <1>4 DEF Indexing, IndexSteps
<1>7. QED
  BY <1>2, <1>3, <1>4, <1>5, <1>6, SameRows, QuietStep DEF tables

LEMMA IngestKeeps ==
  ASSUME IInv, NEW c \in Call, Ingest(c)
  PROVE  IInv'
<1>1. PICK step \in {"original", "ignored"} :
        /\ pc' = [pc EXCEPT ![c] = step]
        /\ step = "original" => Reply[tx[c]] # None
  BY DEF Ingest, Goto
<1>2. /\ pc[c] = "ingest" /\ bmaps' = bmaps \cup {tx[c]}
      /\ UNCHANGED <<contents, channels, saves, announced, tx, actor, knows>>
  BY DEF Ingest
<1>3. tx[c] \in Txid
  BY <1>2 DEF IInv, CallInv
<1>4. TypeOK'
  BY <1>1, <1>2, <1>3 DEF IInv, TypeOK, Step, DbSteps, Settled
<1>5. Frame(c) /\ pc'[c] = step
  BY <1>1, <1>2 DEF Frame, IInv, TypeOK
<1>6. CallInv(c)'
  BY <1>1, <1>2, <1>3, <1>5 DEF CallInv, IndexSteps, AfterBmap, ActorSteps, BeforeLookup
<1>7. ~Indexing(c)'
  BY <1>5 DEF Indexing, IndexSteps
<1>8. QED
  BY <1>2, <1>4, <1>5, <1>6, <1>7, SameRows, QuietStep

LEMMA FindKeeps ==
  ASSUME IInv, NEW c \in Call, Find(c)
  PROVE  IInv'
<1>1. pc[c] = "find" /\ UNCHANGED <<tables, tx, actor>>
  BY DEF Find
<1>2. tx[c] \in Txid /\ (actor[c] => Reply[tx[c]] # None /\ Stored(Reply[tx[c]]))
  BY <1>1 DEF IInv, CallInv, BeforeLookup
<1>3. CASE Return(c, Shown(tx[c]))
  <2>1. contents[tx[c]].context_txid # None => contents[tx[c]].context_txid = Reply[tx[c]]
    BY <1>2 DEF IInv, GoodRows, RepliesHaveOriginals
  <2>2. Shown(tx[c]) \in SUBSET Attribute
    BY DEF Shown, Attribute
  <2>3. Returnable(c, Shown(tx[c]))
    BY <1>1, <1>2, <2>1 DEF Returnable, Shown, tables, Stored
  <2>4. /\ Frame(c) /\ CallInv(c)' /\ ~Indexing(c)'
        /\ pc' \in [Call -> {"idle"} \cup Step \cup Settled]
        /\ knows' \in [Call -> SUBSET Attribute]
    BY <1>1, <1>3, <2>2, <2>3, Returned DEF IInv
  <2>5. TypeOK'
    BY <1>1, <1>2, <2>4 DEF IInv, TypeOK, tables, Frame
  <2>6. QED
    BY <1>1, <2>4, <2>5, SameRows, QuietStep DEF tables
<1>4. CASE Goto(c, "fetch") /\ UNCHANGED knows
  BY <1>1, <1>2, <1>4, GotoKeeps
     DEF IndexSteps, AfterBmap, ActorSteps, Step
<1>5. QED
  BY <1>3, <1>4 DEF Find

\* Looking up the original, and asking the sources that are not tables.
LEMMA SourcesKeep ==
  ASSUME IInv, NEW c \in Call,
         LookUpOriginal(c) \/ Fetch(c) \/ AskVideo(c) \/ AskMeeting(c) \/ AskFile(c)
         \/ StepRejects(c)
  PROVE  IInv'
<1> DEFINE Next1 == {"find", "ignored", "failed", "askVideo", "askMeeting", "askFile"} \cup CreateSteps
<1>1. pc[c] # "idle" /\ UNCHANGED <<tables, tx, actor, knows>>
  BY DEF LookUpOriginal, Fetch, AskVideo, AskMeeting, AskFile, Ask, StepRejects,
         DbSteps, CreateSteps, IndexSteps
<1>2. \E step \in Next1 :
        /\ Goto(c, step)
        /\ step \in BeforeLookup \/ pc[c] \notin BeforeLookup
             \/ (pc[c] = "original" /\ Stored(Reply[tx[c]]))
  BY DEF LookUpOriginal, Fetch, FirstCreate, AskVideo, AskMeeting, AskFile, Ask,
         StepRejects, BeforeLookup, CreateSteps
<1>3. PICK step \in Next1 :
        /\ Goto(c, step)
        /\ step \in BeforeLookup \/ pc[c] \notin BeforeLookup
             \/ (pc[c] = "original" /\ Stored(Reply[tx[c]]))
  BY <1>2
<1>4. actor[c] /\ step \notin BeforeLookup => Reply[tx[c]] # None /\ Stored(Reply[tx[c]])
  BY <1>3 DEF IInv, CallInv
<1>5. /\ step \in Step \cup Settled
      /\ step \notin IndexSteps \cup AfterBmap \cup ActorSteps \cup {"original"}
  BY DEF Step, Settled, DbSteps, CreateSteps, IndexSteps, AfterBmap, ActorSteps
<1>6. QED
  BY <1>1, <1>3, <1>4, <1>5, GotoKeeps

-----------------------------------------------------------------------------
(* Making the row.                                                         *)

LEMMA CreateKeeps ==
  ASSUME IInv, NEW c \in Call, NEW kind \in Kind \ {"absent"},
         NEW taken \in {"failed", "askMeeting", "askFile"},
         NEW made \in {"createEvent", "setBmap"},
         pc[c] \in CreateSteps, Create(c, kind, taken, made)
  PROVE  IInv'
<1>1. /\ UNCHANGED <<channels, saves, announced, bmaps, tx, actor, knows>>
      /\ tx[c] \in Txid /\ pc[c] \notin BeforeLookup /\ pc[c] \notin IndexSteps
      /\ actor[c] => Reply[tx[c]] # None /\ Stored(Reply[tx[c]])
  BY DEF Create, IInv, CallInv, CreateSteps, BeforeLookup, IndexSteps
<1>2. CASE Goto(c, taken) /\ UNCHANGED contents
  <2>1. /\ taken \in Step \cup Settled
        /\ taken \notin IndexSteps \cup AfterBmap \cup ActorSteps \cup {"original"}
    BY DEF Step, Settled, IndexSteps, AfterBmap, ActorSteps
  <2>2. QED
    BY <1>1, <1>2, <2>1, GotoKeeps DEF tables, BeforeLookup
<1>3. CASE /\ ~Stored(tx[c]) /\ Goto(c, made)
           /\ contents' = [contents EXCEPT ![tx[c]].kind = kind]
  <2>1. contents \in [Txid -> Content]
    BY DEF IInv, TypeOK
  <2>2. /\ contents' \in [Txid -> Content]
        /\ \A t \in Txid : /\ contents'[t].bmap = contents[t].bmap
                           /\ contents'[t].context_txid = contents[t].context_txid
                           /\ contents'[t].bitchat_channel = contents[t].bitchat_channel
                           /\ t # tx[c] => contents'[t].kind = contents[t].kind
        /\ contents'[tx[c]].kind = kind
    BY <1>1, <1>3, <2>1 DEF Content
  <2>3. Gain /\ Linked
    BY <1>3, <2>2 DEF Gain, Linked
  <2>4. pc' = [pc EXCEPT ![c] = made] /\ pc \in [Call -> {"idle"} \cup Step \cup Settled]
    BY <1>3 DEF Goto, IInv, TypeOK
  <2>5. TypeOK'
    BY <1>1, <2>2, <2>4 DEF IInv, TypeOK, Step, DbSteps, CreateSteps, IndexSteps
  <2>6. pc'[c] = made /\ Frame(c)
    BY <1>1, <2>4 DEF Frame
  <2>7. Stored(tx[c])' /\ \A t \in Txid : Stored(t) => Stored(t)'
    BY <1>1, <1>3, <2>2 DEF Stored
  <2>8. CallInv(c)'
    BY <1>1, <2>6, <2>7, ConstantFacts
       DEF CallInv, IndexSteps, AfterBmap, ActorSteps, BeforeLookup
  <2>9. \A d \in Call : CallInv(d)'
    <3>1. \A d \in Call \ {c} : CallInv(d)'
      BY <2>3, <2>6, OthersKeep DEF Frame
    <3>2. QED
      BY <2>8, <3>1
  <2>10. NewsInv'
    <3>1. \A d \in Call : Indexing(d) => tx[d] # tx[c]
      BY <1>3 DEF IInv, CallInv, Indexing
    <3>2. announced[tx[c]] = 0
      BY <1>1, <1>3 DEF IInv, NewsInv
    <3>3. \A d \in Call : Indexing(d)' => tx'[d] = tx[d] /\ (d = c \/ Indexing(d))
      BY <1>1, <2>6 DEF Indexing, Frame
    <3>4. QED
      BY <1>1, <2>7, <3>1, <3>2, <3>3 DEF IInv, NewsInv
  <2>11. GoodRows' /\ ChannelInv'
    BY <1>1, <2>3, GoodRowsKeep, ChannelsKeep
  <2>12. QED
    BY <2>5, <2>9, <2>10, <2>11 DEF IInv
<1>4. QED
  BY <1>2, <1>3 DEF Create

LEMMA CreatesKeep ==
  ASSUME IInv, NEW c \in Call,
         CreateB(c) \/ CreateEvent(c) \/ CreateVideo(c) \/ CreateMeeting(c) \/ CreateFile(c)
  PROVE  IInv'
<1> USE DEF Kind, CreateSteps
<1>1. CASE CreateB(c)
  BY <1>1, CreateKeeps DEF CreateB
<1>2. CASE CreateEvent(c)
  BY <1>2, CreateKeeps DEF CreateEvent
<1>3. CASE CreateVideo(c)
  BY <1>3, CreateKeeps DEF CreateVideo
<1>4. CASE CreateMeeting(c)
  BY <1>4, CreateKeeps DEF CreateMeeting
<1>5. CASE CreateFile(c)
  BY <1>5, CreateKeeps DEF CreateFile
<1>6. QED
  BY <1>1, <1>2, <1>3, <1>4, <1>5

-----------------------------------------------------------------------------
(* Indexing the row.                                                       *)

\* What the indexing of a row by call c leaves of the other columns.
LEMMA BmapSet ==
  ASSUME TypeOK, NEW t \in Txid, contents' = [contents EXCEPT ![t].bmap = TRUE]
  PROVE  /\ contents' \in [Txid -> Content] /\ Gain /\ Linked /\ contents'[t].bmap
         /\ \A u \in Txid : /\ contents'[u].kind = contents[u].kind
                            /\ contents'[u].context_txid = contents[u].context_txid
<1>1. contents \in [Txid -> Content]
  BY DEF TypeOK
<1>2. /\ contents' \in [Txid -> Content] /\ contents'[t].bmap
      /\ \A u \in Txid : /\ contents'[u].kind = contents[u].kind
                         /\ contents'[u].context_txid = contents[u].context_txid
                         /\ contents'[u].bitchat_channel = contents[u].bitchat_channel
                         /\ contents[u].bmap => contents'[u].bmap
  BY <1>1 DEF Content
<1>3. QED
  BY <1>2 DEF Gain, Linked

LEMMA ContextSet ==
  ASSUME IInv, NEW c \in Call, tx[c] \in Txid, Link(c),
         Reply[tx[c]] # None, Stored(Reply[tx[c]])
  PROVE  /\ contents' \in [Txid -> Content] /\ Gain /\ Linked
         /\ contents'[tx[c]].context_txid = Reply[tx[c]]
         /\ \A u \in Txid : /\ contents'[u].kind = contents[u].kind
                            /\ contents'[u].bmap = contents[u].bmap
<1>1. contents \in [Txid -> Content] /\ Reply[tx[c]] \in Txid
  BY ConstantFacts DEF IInv, TypeOK
<1>2. /\ contents' \in [Txid -> Content]
      /\ contents'[tx[c]].context_txid = Reply[tx[c]]
      /\ \A u \in Txid : /\ contents'[u].kind = contents[u].kind
                         /\ contents'[u].bmap = contents[u].bmap
                         /\ contents'[u].bitchat_channel = contents[u].bitchat_channel
                         /\ u # tx[c] => contents'[u].context_txid = contents[u].context_txid
  BY <1>1 DEF Content, Link
<1>3. contents[tx[c]].context_txid \in {None, Reply[tx[c]]}
  BY DEF IInv, GoodRows, RepliesHaveOriginals
<1>4. QED
  BY <1>2, <1>3 DEF Gain, Linked

LEMMA SetBmapKeeps ==
  ASSUME IInv, NEW c \in Call, SetBmap(c)
  PROVE  IInv'
<1>1. /\ pc[c] = "setBmap" /\ contents' = [contents EXCEPT ![tx[c]].bmap = TRUE]
      /\ UNCHANGED <<channels, saves, announced, bmaps, tx, actor>>
  BY DEF SetBmap
<1>2. /\ tx[c] \in Txid /\ Stored(tx[c]) /\ Indexing(c) /\ TypeOK
      /\ actor[c] => Reply[tx[c]] # None /\ Stored(Reply[tx[c]])
  BY <1>1 DEF IInv, CallInv, IndexSteps, BeforeLookup, Indexing
<1>3. /\ contents' \in [Txid -> Content] /\ Gain /\ Linked /\ contents'[tx[c]].bmap
      /\ \A u \in Txid : /\ contents'[u].kind = contents[u].kind
                         /\ contents'[u].context_txid = contents[u].context_txid
  BY <1>1, <1>2, BmapSet
<1>4. \A u \in Txid : Stored(u) => Stored(u)'
  BY <1>3 DEF Stored
<1>5. CASE Return(c, {"bmap"})
  <2>1. Returnable(c, {"bmap"})
    BY <1>2, <1>3, ConstantFacts DEF Returnable, Stored
  <2>2. /\ Frame(c) /\ CallInv(c)' /\ ~Indexing(c)'
        /\ pc' \in [Call -> {"idle"} \cup Step \cup Settled]
        /\ knows' \in [Call -> SUBSET Attribute]
    BY <1>1, <1>2, <1>5, <2>1, Returned DEF Attribute
  <2>3. TypeOK'
    BY <1>1, <1>2, <1>3, <2>2 DEF TypeOK, Frame
  <2>4. QED
    BY <1>1, <1>3, <2>2, <2>3, QuietStep
<1>6. CASE \E step \in {"findOriginal", "setChannel"} :
             /\ Goto(c, step) /\ UNCHANGED knows
             /\ step = "findOriginal" => Reply[tx[c]] # None
             /\ step = "setChannel" => ChannelOf[tx[c]] # None
  <2>1. PICK step \in {"findOriginal", "setChannel"} :
             /\ Goto(c, step) /\ UNCHANGED knows
             /\ step = "findOriginal" => Reply[tx[c]] # None
             /\ step = "setChannel" => ChannelOf[tx[c]] # None
    BY <1>6
  <2>2. pc' = [pc EXCEPT ![c] = step] /\ pc'[c] = step /\ Frame(c)
    BY <1>1, <1>2, <2>1 DEF Goto, TypeOK, Frame
  <2>3. TypeOK'
    BY <1>1, <1>2, <1>3, <2>1, <2>2 DEF TypeOK, Step, DbSteps, IndexSteps
  <2>4. CallInv(c)'
    BY <1>1, <1>2, <1>3, <1>4, <2>1, <2>2, ConstantFacts
       DEF CallInv, IndexSteps, AfterBmap, ActorSteps, BeforeLookup
  <2>5. QED
    BY <1>1, <1>2, <1>3, <2>2, <2>3, <2>4, QuietStep
<1>7. QED
  BY <1>5, <1>6 DEF SetBmap

LEMMA FindOriginalKeeps ==
  ASSUME IInv, NEW c \in Call, FindOriginal(c)
  PROVE  IInv'
<1>1. pc[c] = "findOriginal" /\ UNCHANGED <<tables, tx, actor>>
  BY DEF FindOriginal
<1>2. /\ tx[c] \in Txid /\ Stored(tx[c]) /\ Indexing(c) /\ TypeOK
      /\ contents[tx[c]].bmap /\ Reply[tx[c]] # None
      /\ actor[c] => Reply[tx[c]] # None /\ Stored(Reply[tx[c]])
  BY <1>1 DEF IInv, CallInv, IndexSteps, AfterBmap, BeforeLookup, Indexing
<1>3. CASE Return(c, {"bmap"})
  <2>1. Returnable(c, {"bmap"})
    BY <1>1, <1>2 DEF Returnable, tables, Stored
  <2>2. /\ Frame(c) /\ CallInv(c)' /\ ~Indexing(c)'
        /\ pc' \in [Call -> {"idle"} \cup Step \cup Settled]
        /\ knows' \in [Call -> SUBSET Attribute]
    BY <1>1, <1>2, <1>3, <2>1, Returned DEF Attribute
  <2>3. TypeOK'
    BY <1>1, <1>2, <2>2 DEF TypeOK, tables, Frame
  <2>4. QED
    BY <1>1, <2>2, <2>3, SameRows, QuietStep DEF tables
<1>4. CASE Stored(Reply[tx[c]]) /\ Goto(c, "setContext") /\ UNCHANGED knows
  <2>1. pc' = [pc EXCEPT ![c] = "setContext"] /\ pc'[c] = "setContext" /\ Frame(c)
    BY <1>1, <1>2, <1>4 DEF Goto, TypeOK, Frame
  <2>2. TypeOK'
    BY <1>1, <1>2, <1>4, <2>1 DEF TypeOK, tables, Step, DbSteps, IndexSteps
  <2>3. CallInv(c)'
    BY <1>1, <1>2, <1>4, <2>1 DEF CallInv, IndexSteps, AfterBmap, ActorSteps, tables, Stored
  <2>4. QED
    BY <1>1, <1>2, <2>1, <2>2, <2>3, SameRows, QuietStep DEF tables
<1>5. QED
  BY <1>3, <1>4 DEF FindOriginal

LEMMA SetContextKeeps ==
  ASSUME IInv, NEW c \in Call, SetContext(c)
  PROVE  IInv'
<1>1. /\ pc[c] = "setContext" /\ Link(c) /\ Return(c, Attribute)
      /\ UNCHANGED <<channels, saves, announced, bmaps, tx, actor>>
  BY DEF SetContext, Attribute
<1>2. /\ tx[c] \in Txid /\ TypeOK /\ contents[tx[c]].bmap
      /\ Reply[tx[c]] # None /\ Stored(Reply[tx[c]])
  BY <1>1 DEF IInv, CallInv, AfterBmap
<1>3. /\ contents' \in [Txid -> Content] /\ Gain /\ Linked
      /\ contents'[tx[c]].context_txid = Reply[tx[c]]
      /\ \A u \in Txid : /\ contents'[u].kind = contents[u].kind
                         /\ contents'[u].bmap = contents[u].bmap
  BY <1>1, <1>2, ContextSet
<1>4. Returnable(c, Attribute)
  BY <1>2, <1>3, ConstantFacts DEF Returnable, Stored
<1>5. /\ Frame(c) /\ CallInv(c)' /\ ~Indexing(c)'
      /\ pc' \in [Call -> {"idle"} \cup Step \cup Settled]
      /\ knows' \in [Call -> SUBSET Attribute]
  BY <1>1, <1>2, <1>4, Returned
<1>6. TypeOK'
  BY <1>1, <1>2, <1>3, <1>5 DEF TypeOK, Frame
<1>7. QED
  BY <1>1, <1>3, <1>5, <1>6, QuietStep

LEMMA SetChannelKeeps ==
  ASSUME IInv, NEW c \in Call, SetChannel(c)
  PROVE  IInv'
<1>1. /\ pc[c] = "setChannel"
      /\ contents' = [contents EXCEPT ![tx[c]].bitchat_channel = ChannelOf[tx[c]]]
      /\ announced' = [announced EXCEPT ![tx[c]] = @ + 1]
      /\ pc' = [pc EXCEPT ![c] = "findChannel"]
      /\ UNCHANGED <<channels, saves, bmaps, tx, actor, knows>>
  BY DEF SetChannel, Goto
<1>2. /\ tx[c] \in Txid /\ TypeOK /\ Stored(tx[c]) /\ contents[tx[c]].bmap
      /\ ChannelOf[tx[c]] \in Channel /\ announced[tx[c]] = 0
      /\ actor[c] => Reply[tx[c]] # None /\ Stored(Reply[tx[c]])
  BY <1>1, ConstantFacts
     DEF IInv, CallInv, AfterBmap, IndexSteps, BeforeLookup, NewsInv, Indexing
<1>3. /\ contents' \in [Txid -> Content]
      /\ contents'[tx[c]].bitchat_channel = ChannelOf[tx[c]]
      /\ \A u \in Txid : /\ contents'[u].kind = contents[u].kind
                         /\ contents'[u].bmap = contents[u].bmap
                         /\ contents'[u].context_txid = contents[u].context_txid
                         /\ u # tx[c] => contents'[u].bitchat_channel = contents[u].bitchat_channel
  <2>1. contents \in [Txid -> Content]
    BY <1>2 DEF TypeOK
  <2>2. QED
    BY <1>1, <1>2, <2>1 DEF Content
<1>4. contents[tx[c]].bitchat_channel \in {None, ChannelOf[tx[c]]}
  BY <1>2 DEF IInv, GoodRows, OwnChannel
<1>5. Gain /\ Linked
  BY <1>3, <1>4 DEF Gain, Linked
<1>6. /\ announced' \in [Txid -> Nat] /\ announced'[tx[c]] = 1
      /\ \A u \in Txid : u # tx[c] => announced'[u] = announced[u]
  BY <1>1, <1>2 DEF TypeOK
<1>7. pc'[c] = "findChannel" /\ Frame(c)
  BY <1>1, <1>2 DEF TypeOK, Frame
<1>8. TypeOK'
  BY <1>1, <1>2, <1>3, <1>6 DEF TypeOK, Step, DbSteps
<1>9. CallInv(c)'
  BY <1>1, <1>2, <1>3, <1>7, ConstantFacts
     DEF CallInv, IndexSteps, AfterBmap, ActorSteps, BeforeLookup, Stored
<1>10. \A d \in Call : CallInv(d)'
  <2>1. \A d \in Call \ {c} : CallInv(d)'
    BY <1>5, <1>7, OthersKeep DEF Frame
  <2>2. QED
    BY <1>9, <2>1
<1>11. NewsInv'
  <2>1. \A d \in Call : Indexing(d)' => d # c /\ Indexing(d) /\ tx'[d] = tx[d]
    BY <1>1, <1>7 DEF Indexing, IndexSteps, Frame
  <2>2. \A d \in Call : d # c /\ Indexing(d) => tx[d] # tx[c] /\ tx[d] \in Txid
    BY <1>1 DEF IInv, NewsInv, Indexing, IndexSteps, CallInv
  <2>3. \A u \in Txid : Stored(u)' <=> Stored(u)
    BY <1>3 DEF Stored
  <2>4. QED
    BY <1>2, <1>6, <2>1, <2>2, <2>3, ConstantFacts DEF IInv, NewsInv
<1>12. GoodRows'
  <2>1. AnnouncedOnce'
    BY <1>6 DEF IInv, GoodRows, AnnouncedOnce
  <2>2. AnnouncedIsListed'
    BY <1>2, <1>3, <1>6 DEF IInv, GoodRows, AnnouncedIsListed, Stored
  <2>3. RepliesHaveOriginals'
    BY <1>3, ConstantFacts DEF IInv, GoodRows, RepliesHaveOriginals, Stored
  <2>4. OwnChannel'
    BY <1>3 DEF IInv, GoodRows, OwnChannel
  <2>5. QED
    BY <2>1, <2>2, <2>3, <2>4 DEF GoodRows
<1>13. ChannelInv'
  BY <1>1, <1>5, ChannelsKeep
<1>14. QED
  BY <1>8, <1>10, <1>11, <1>12, <1>13 DEF IInv

-----------------------------------------------------------------------------
(* The channels.                                                           *)

\* A call that launches a save is done, and changes no row of Contents.
LEMMA LaunchKeeps ==
  ASSUME IInv, NEW c \in Call, NEW i \in DOMAIN channels', LaunchSave(c, i),
         pc[c] \in {"findChannel", "createChannel"},
         channels' \in Seq(ChatChannel), channels'[i].channel = ChannelOf[tx[c]],
         \A k \in DOMAIN channels : k \in DOMAIN channels' /\ channels'[k] = channels[k],
         \A k \in DOMAIN channels' : k \in DOMAIN channels \/ channels'[k].last = None,
         UNCHANGED <<contents, announced, bmaps, tx, actor>>
  PROVE  IInv'
<1>1. /\ saves' = saves \cup {[row |-> i, message |-> tx[c]]}
      /\ Return(c, {"bmap"})
  BY DEF LaunchSave
<1>2. /\ TypeOK /\ tx[c] \in Txid /\ contents[tx[c]].bmap
      /\ contents[tx[c]].bitchat_channel = ChannelOf[tx[c]]
      /\ actor[c] => Reply[tx[c]] # None /\ Stored(Reply[tx[c]])
  BY DEF IInv, CallInv, AfterBmap, BeforeLookup
<1>3. Returnable(c, {"bmap"})
  BY <1>2 DEF Returnable, Stored
<1>4. /\ Frame(c) /\ CallInv(c)' /\ ~Indexing(c)'
      /\ pc' \in [Call -> {"idle"} \cup Step \cup Settled]
      /\ knows' \in [Call -> SUBSET Attribute]
  BY <1>1, <1>2, <1>3, Returned DEF Attribute
<1>5. \A d \in Call : CallInv(d)'
  <2>1. \A d \in Call \ {c} : CallInv(d)'
    BY <1>4, SameRows, OthersKeep DEF Frame
  <2>2. QED
    BY <1>4, <2>1
<1>6. saves' \subseteq [row: DOMAIN channels', message: Txid]
  BY <1>1, <1>2 DEF TypeOK
<1>7. TypeOK'
  BY <1>2, <1>4, <1>6 DEF TypeOK, Frame
<1>8. NewsInv' /\ GoodRows'
  <2>1. \A b \in Call : Indexing(b)' => Indexing(b) /\ tx'[b] = tx[b]
    BY <1>4 DEF Frame, Indexing
  <2>2. QED
    BY <2>1, SameRows, NewsKeeps, GoodRowsKeep
<1>9. ChannelInv'
  <2>1. \A s \in saves : /\ s.row \in DOMAIN channels
                         /\ channels[s.row].channel = ChannelOf[s.message]
                         /\ contents[s.message].bitchat_channel = ChannelOf[s.message]
    BY <1>2, RowTypes DEF IInv, ChannelInv
  <2>2. \A s \in saves' : /\ channels'[s.row].channel = ChannelOf[s.message]
                          /\ contents'[s.message].bitchat_channel = ChannelOf[s.message]
    BY <1>1, <1>2, <2>1
  <2>3. ChannelShowsItsMessage'
    BY DEF IInv, ChannelInv, ChannelShowsItsMessage
  <2>4. QED
    BY <2>2, <2>3 DEF ChannelInv
<1>10. QED
  BY <1>5, <1>7, <1>8, <1>9 DEF IInv

LEMMA FindChannelKeeps ==
  ASSUME IInv, NEW c \in Call, FindChannel(c)
  PROVE  IInv'
<1>1. pc[c] = "findChannel" /\ UNCHANGED <<contents, channels, announced, bmaps, tx, actor>>
  BY DEF FindChannel
<1>2. CASE \E i \in RowsOf(ChannelOf[tx[c]]) : LaunchSave(c, i)
  <2>1. PICK i \in RowsOf(ChannelOf[tx[c]]) : LaunchSave(c, i)
    BY <1>2
  <2>2. i \in DOMAIN channels /\ channels[i].channel = ChannelOf[tx[c]]
    BY DEF RowsOf
  <2>3. QED
    BY <1>1, <2>1, <2>2, LaunchKeeps DEF IInv, TypeOK
<1>3. CASE Goto(c, "createChannel") /\ UNCHANGED <<saves, knows>>
  <2>1. /\ TypeOK /\ tx[c] \in Txid /\ contents[tx[c]].bmap /\ ChannelOf[tx[c]] # None
        /\ contents[tx[c]].bitchat_channel = ChannelOf[tx[c]]
        /\ actor[c] => Reply[tx[c]] # None /\ Stored(Reply[tx[c]])
    BY <1>1 DEF IInv, CallInv, AfterBmap, BeforeLookup
  <2>2. pc' = [pc EXCEPT ![c] = "createChannel"] /\ pc'[c] = "createChannel" /\ Frame(c)
    BY <1>1, <1>3, <2>1 DEF Goto, TypeOK, Frame
  <2>3. TypeOK'
    BY <1>1, <1>3, <2>1, <2>2 DEF TypeOK, Step, DbSteps
  <2>4. CallInv(c)'
    BY <1>1, <2>1, <2>2 DEF CallInv, IndexSteps, AfterBmap, ActorSteps, Stored
  <2>5. ~Indexing(c)'
    BY <2>2 DEF Indexing, IndexSteps
  <2>6. QED
    BY <1>1, <1>3, <2>2, <2>3, <2>4, <2>5, SameRows, QuietStep
<1>4. QED
  BY <1>2, <1>3 DEF FindChannel

LEMMA CreateChannelKeeps ==
  ASSUME IInv, NEW c \in Call, CreateChannel(c)
  PROVE  IInv'
<1> DEFINE row == [channel |-> ChannelOf[tx[c]], last |-> None]
<1>1. /\ pc[c] = "createChannel" /\ channels' = Append(channels, row)
      /\ LaunchSave(c, Len(channels) + 1)
      /\ UNCHANGED <<contents, announced, bmaps, tx, actor>>
  BY DEF CreateChannel
<1>2. /\ channels \in Seq(ChatChannel) /\ row \in ChatChannel
  BY <1>1, ConstantFacts DEF IInv, TypeOK, CallInv, ChatChannel
<1>3. /\ channels' \in Seq(ChatChannel)
      /\ DOMAIN channels' = DOMAIN channels \cup {Len(channels) + 1}
      /\ \A k \in DOMAIN channels : channels'[k] = channels[k]
      /\ channels'[Len(channels) + 1] = row
  <2> HIDE DEF row
  <2>1. QED
    BY <1>1, <1>2
<1>4. row.channel = ChannelOf[tx[c]] /\ row.last = None
  OBVIOUS
<1>5. QED
  <2> HIDE DEF row
  <2>1. QED
    BY <1>1, <1>3, <1>4, LaunchKeeps

LEMMA SavesKeep ==
  ASSUME IInv, NEW s \in saves, SaveLands(s) \/ SaveIsLost(s)
  PROVE  IInv'
<1>1. /\ saves' = saves \ {s}
      /\ UNCHANGED <<contents, announced, bmaps, pc, tx, actor, knows>>
  BY DEF SaveLands, SaveIsLost
<1>2. /\ TypeOK /\ channels \in Seq(ChatChannel)
      /\ s.row \in DOMAIN channels /\ s.message \in Txid
      /\ channels[s.row].channel = ChannelOf[s.message]
      /\ contents[s.message].bitchat_channel = ChannelOf[s.message]
  BY RowTypes DEF IInv, ChannelInv, TypeOK
<1> DEFINE new == [channels[s.row] EXCEPT !.last = s.message]
<1>3. new \in ChatChannel /\ new.channel = channels[s.row].channel /\ new.last = s.message
  <2>1. channels[s.row] \in ChatChannel
    BY <1>2
  <2>2. QED
    BY <1>2, <2>1 DEF ChatChannel
<1>4. /\ channels' \in Seq(ChatChannel) /\ DOMAIN channels' = DOMAIN channels
      /\ \A k \in DOMAIN channels :
           channels'[k] = channels[k] \/ (k = s.row /\ channels'[k] = new)
  <2>1. CASE SaveLands(s)
    <3>1. channels' = [channels EXCEPT ![s.row] = new]
      BY <2>1 DEF SaveLands
    <3> HIDE DEF new
    <3>2. QED
      BY <1>2, <1>3, <3>1, ExceptSeq
  <2>2. CASE SaveIsLost(s)
    BY <1>2, <2>2 DEF SaveIsLost
  <2>3. QED
    BY <2>1, <2>2
<1> HIDE DEF new
<1>5. \A k \in DOMAIN channels : channels'[k].channel = channels[k].channel
  BY <1>3, <1>4
<1>6. TypeOK'
  BY <1>1, <1>2, <1>4 DEF TypeOK
<1>7. ChannelInv'
  <2>1. \A q \in saves : q.row \in DOMAIN channels
    BY <1>2, RowTypes
  <2>2. \A q \in saves' : /\ channels'[q.row].channel = ChannelOf[q.message]
                          /\ contents'[q.message].bitchat_channel = ChannelOf[q.message]
    BY <1>1, <1>5, <2>1 DEF IInv, ChannelInv
  <2>3. ChannelShowsItsMessage'
    BY <1>1, <1>2, <1>3, <1>4 DEF IInv, ChannelInv, ChannelShowsItsMessage
  <2>4. QED
    BY <2>2, <2>3 DEF ChannelInv
<1>8. (\A c \in Call : CallInv(c)') /\ NewsInv' /\ GoodRows'
  <2>1. \A c \in Call : CallInv(c)'
    BY <1>1, SameRows, OthersKeep
  <2>2. NewsInv' /\ GoodRows'
    BY <1>1, SameRows, NewsKeeps, GoodRowsKeep DEF Indexing
  <2>3. QED
    BY <2>1, <2>2
<1>9. QED
  BY <1>6, <1>7, <1>8 DEF IInv

-----------------------------------------------------------------------------
(* The actor's own saves.                                                  *)

LEMMA ActorKeeps ==
  ASSUME IInv, NEW c \in Call, ActorContext(c) \/ ActorBmap(c)
  PROVE  IInv'
<1>1. /\ pc[c] \in {"actorContext", "actorBmap"}
      /\ UNCHANGED <<channels, saves, announced, bmaps, tx, actor>>
  BY DEF ActorContext, ActorBmap
<1>2. /\ TypeOK /\ tx[c] \in Txid /\ actor[c] /\ knows[c] \in SUBSET Attribute
      /\ Reply[tx[c]] # None /\ Stored(Reply[tx[c]])
      /\ "bmap" \in knows[c] => contents[tx[c]].bmap
      /\ "context_txid" \in knows[c] => contents[tx[c]].context_txid = Reply[tx[c]]
      /\ pc[c] = "actorBmap" => "context_txid" \in knows[c]
  BY <1>1 DEF IInv, CallInv, ActorSteps, BeforeLookup, TypeOK
<1>3. CASE ActorContext(c)
  <2>1. /\ contents' \in [Txid -> Content] /\ Gain /\ Linked
        /\ contents'[tx[c]].context_txid = Reply[tx[c]]
        /\ \A u \in Txid : /\ contents'[u].kind = contents[u].kind
                           /\ contents'[u].bmap = contents[u].bmap
    BY <1>2, <1>3, ContextSet DEF ActorContext
  <2> DEFINE shown == knows[c] \cup {"context_txid"}
  <2>2. knows' = [knows EXCEPT ![c] = shown] /\ shown \in SUBSET Attribute
    BY <1>2, <1>3 DEF ActorContext, Attribute
  <2>3. knows'[c] = shown
    BY <2>2 DEF IInv, TypeOK
  <2>4. Return(c, shown)
    BY <1>2, <1>3, <2>2, <2>3 DEF ActorContext, Return
  <2>5. Returnable(c, shown)
    BY <1>2, <2>1, ConstantFacts DEF Returnable, Stored
  <2>6. /\ Frame(c) /\ CallInv(c)' /\ ~Indexing(c)'
        /\ pc' \in [Call -> {"idle"} \cup Step \cup Settled]
        /\ knows' \in [Call -> SUBSET Attribute]
    BY <1>1, <1>2, <2>2, <2>4, <2>5, Returned
  <2>7. TypeOK'
    BY <1>1, <1>2, <2>1, <2>6 DEF TypeOK, Frame
  <2>8. QED
    BY <1>1, <2>1, <2>6, <2>7, QuietStep
<1>4. CASE ActorBmap(c)
  <2>1. /\ contents' = [contents EXCEPT ![tx[c]].bmap = TRUE]
        /\ pc[c] = "actorBmap" /\ pc' = [pc EXCEPT ![c] = "indexed"] /\ knows' = knows
    BY <1>4 DEF ActorBmap, Goto
  <2>2. /\ contents' \in [Txid -> Content] /\ Gain /\ Linked /\ contents'[tx[c]].bmap
        /\ \A u \in Txid : /\ contents'[u].kind = contents[u].kind
                           /\ contents'[u].context_txid = contents[u].context_txid
    BY <1>2, <2>1, BmapSet
  <2>3. pc'[c] = "indexed" /\ Frame(c)
    BY <1>1, <1>2, <2>1 DEF TypeOK, Frame
  <2>4. TypeOK'
    BY <1>1, <1>2, <2>1, <2>2 DEF TypeOK, Settled
  <2>5. CallInv(c)'
    BY <1>1, <1>2, <2>1, <2>2, <2>3, ConstantFacts
       DEF CallInv, IndexSteps, AfterBmap, ActorSteps, Stored
  <2>6. ~Indexing(c)'
    BY <2>3 DEF Indexing, IndexSteps
  <2>7. QED
    BY <1>1, <2>2, <2>3, <2>4, <2>5, <2>6, QuietStep
<1>5. QED
  BY <1>3, <1>4

-----------------------------------------------------------------------------

LEMMA StepIInv == IInv /\ [Next]_vars => IInv'
<1> SUFFICES ASSUME IInv, [Next]_vars PROVE IInv'
  OBVIOUS
<1>1. CASE \E c \in Call, t \in Txid : CacheContent(c, t) \/ Discovered(c, t)
  BY <1>1, EnterKeeps
<1>2. CASE \E c \in Call : CacheStep(c)
  BY <1>2, IngestKeeps, FindKeeps, SourcesKeep, CreatesKeep, SetBmapKeeps,
     FindOriginalKeeps, SetContextKeeps, SetChannelKeeps, FindChannelKeeps,
     CreateChannelKeeps, ActorKeeps DEF CacheStep
<1>3. CASE \E c \in Call : StepRejects(c) \/ Release(c) \/ Crash(c)
  BY <1>3, SourcesKeep, ForgetKeeps DEF Release, Crash
<1>4. CASE \E s \in saves : SaveLands(s) \/ SaveIsLost(s)
  BY <1>4, SavesKeep
<1>5. CASE UNCHANGED vars
  <2>1. TypeOK'
    BY <1>5 DEF IInv, TypeOK, vars, tables
  <2>2. (\A c \in Call : CallInv(c)') /\ NewsInv' /\ ChannelInv' /\ GoodRows'
    BY <1>5, SameRows, OthersKeep, NewsKeeps, ChannelsKeep, GoodRowsKeep
       DEF vars, tables, Indexing
  <2>3. QED
    BY <2>1, <2>2 DEF IInv
<1>6. QED
  BY <1>1, <1>2, <1>3, <1>4, <1>5 DEF Next

LEMMA Always == Spec => []IInv
  BY InitIInv, StepIInv, PTL DEF Spec

\* Type correctness, for any transactions, channels and calls, with failures and
\* stops.
THEOREM ContentTypeCorrect == Spec => []TypeOK
  BY Always, PTL DEF IInv

\* However many calls meet a chat message at once, it is announced at most once.
THEOREM MessagesAnnouncedOnce == Spec => []AnnouncedOnce
  BY Always, PTL DEF IInv, GoodRows

\* No event, reply or channel refers to a row that is missing or is not its own:
\* a message is announced after it is listed, a reply is linked to a stored
\* original, and a channel shows a message of its own, whatever order the calls
\* go on and the saves arrive in.
THEOREM LinksStaySound == Spec => []LinksAreSound
<1>1. IInv => LinksAreSound
  BY DEF IInv, GoodRows, ChannelInv, LinksAreSound
<1>2. QED
  BY <1>1, Always, PTL

\* What the actor was done with is linked and has its bmap.
THEOREM ActorRepairsReplies == Spec => []ActorRepairs
<1>1. IInv => ActorRepairs
  BY DEF IInv, CallInv, ActorRepairs
<1>2. QED
  BY <1>1, Always, PTL

-----------------------------------------------------------------------------
(* What a step writes.                                                     *)

\* The columns a step of call c may write.
Writes(c) ==
  \/ UNCHANGED contents
  \/ ~Stored(tx[c]) /\ \E k \in Kind : contents' = [contents EXCEPT ![tx[c]].kind = k]
  \/ contents' = [contents EXCEPT ![tx[c]].bmap = TRUE]
  \/ Reply[tx[c]] # None /\ contents' = [contents EXCEPT ![tx[c]].context_txid = Reply[tx[c]]]
  \/ ChannelOf[tx[c]] # None
     /\ contents' = [contents EXCEPT ![tx[c]].bitchat_channel = ChannelOf[tx[c]]]

LEMMA CallsWrite ==
  ASSUME IInv, NEW c \in Call, CacheStep(c)
  PROVE  Writes(c) /\ tx[c] \in Txid
<1>1. CallInv(c)
  BY DEF IInv
<1>2. CASE \/ Ingest(c) \/ LookUpOriginal(c) \/ Find(c) \/ Fetch(c) \/ AskVideo(c)
           \/ AskMeeting(c) \/ AskFile(c) \/ FindOriginal(c) \/ FindChannel(c)
           \/ CreateChannel(c)
  BY <1>1, <1>2 DEF CallInv, Writes, tables, Ingest, LookUpOriginal, Find, Fetch, AskVideo,
     AskMeeting, Ask, AskFile, FindOriginal, FindChannel, CreateChannel
<1>3. CASE \/ CreateB(c) \/ CreateEvent(c) \/ CreateVideo(c) \/ CreateMeeting(c)
           \/ CreateFile(c)
  <2>1. tx[c] \in Txid
    BY <1>1, <1>3 DEF CallInv, CreateB, CreateEvent, CreateVideo, CreateMeeting, CreateFile
  <2>2. \E k \in Kind, taken, made \in Step \cup Settled : Create(c, k, taken, made)
    BY <1>3 DEF CreateB, CreateEvent, CreateVideo, CreateMeeting, CreateFile, Kind, Step,
       Settled, DbSteps, CreateSteps, IndexSteps
  <2>3. QED
    BY <2>1, <2>2 DEF Create, Writes
<1>4. CASE SetBmap(c) \/ ActorBmap(c)
  BY <1>1, <1>4 DEF CallInv, Writes, SetBmap, ActorBmap
<1>5. CASE SetContext(c) \/ ActorContext(c)
  BY <1>1, <1>5 DEF CallInv, Writes, SetContext, ActorContext, Link, ActorSteps, BeforeLookup
<1>6. CASE SetChannel(c)
  BY <1>1, <1>6 DEF CallInv, Writes, SetChannel
<1>7. QED
  BY <1>2, <1>3, <1>4, <1>5, <1>6 DEF CacheStep

LEMMA WritesGain ==
  ASSUME IInv, NEW c \in Call, Writes(c), tx[c] \in Txid
  PROVE  Gain
<1>1. PICK u \in Txid : u = tx[c]
  OBVIOUS
<1>2. contents \in [Txid -> Content] /\ contents[u] \in Content
  BY DEF IInv, TypeOK
<1>3. contents[u].context_txid \in {None, Reply[u]}
  BY DEF IInv, GoodRows, RepliesHaveOriginals
<1>4. contents[u].bitchat_channel \in {None, ChannelOf[u]}
  BY DEF IInv, GoodRows, OwnChannel
<1>5. CASE UNCHANGED contents
  BY <1>5, SameRows
<1>6. CASE ~Stored(u) /\ \E k \in Kind : contents' = [contents EXCEPT ![u].kind = k]
  BY <1>2, <1>6 DEF Gain, Content, Stored
<1>7. CASE contents' = [contents EXCEPT ![u].bmap = TRUE]
  BY <1>2, <1>7 DEF Gain, Content
<1>8. CASE contents' = [contents EXCEPT ![u].context_txid = Reply[u]]
  BY <1>2, <1>3, <1>8 DEF Gain, Content
<1>9. CASE contents' = [contents EXCEPT ![u].bitchat_channel = ChannelOf[u]]
  BY <1>2, <1>4, <1>9 DEF Gain, Content
<1>10. QED
  BY <1>1, <1>5, <1>6, <1>7, <1>8, <1>9 DEF Writes

LEMMA StepsGain == IInv /\ [Next]_vars => Gain
<1> SUFFICES ASSUME IInv, [Next]_vars PROVE Gain
  OBVIOUS
<1>1. CASE \E c \in Call : CacheStep(c)
  BY <1>1, CallsWrite, WritesGain
<1>2. CASE \/ \E c \in Call, t \in Txid : CacheContent(c, t) \/ Discovered(c, t)
           \/ \E c \in Call : StepRejects(c) \/ Release(c) \/ Crash(c)
           \/ \E s \in saves : SaveLands(s) \/ SaveIsLost(s)
           \/ UNCHANGED vars
  BY <1>2, SameRows DEF CacheContent, Discovered, Enter, StepRejects, Release, Crash, Forget,
     SaveLands, SaveIsLost, vars, tables
<1>3. QED
  BY <1>1, <1>2 DEF Next

\* A row keeps its source, its bmap, its original and its channel, whatever late
\* saves arrive.
THEOREM NothingIsTakenBack == Spec => RowsOnlyGain
<1>1. IInv /\ [Next]_vars =>
        \A t \in Txid :
          /\ Stored(t) => contents'[t].kind = contents[t].kind
          /\ contents[t].bmap => contents'[t].bmap
          /\ contents[t].context_txid # None =>
               contents'[t].context_txid = contents[t].context_txid
          /\ contents[t].bitchat_channel # None =>
               contents'[t].bitchat_channel = contents[t].bitchat_channel
  BY StepsGain DEF Gain
<1>2. QED
  BY <1>1, Always, PTL DEF Spec, RowsOnlyGain

-----------------------------------------------------------------------------
(* The best source.  While nothing fails, a call is past a source only if  *)
(* the source does not know the transaction or a row of it is there.       *)

SourceSteps == CreateSteps \cup {"askVideo", "askMeeting", "askFile"}
PastVideo   == {"askMeeting", "createMeeting", "askFile", "createFile"}

SourceInv(c) ==
  /\ pc[c] = "createB" => "b" \in Outputs[tx[c]]
  /\ pc[c] = "createEvent" =>
       "event" \in Outputs[tx[c]] /\ ("b" \in Outputs[tx[c]] => Stored(tx[c]))
  /\ pc[c] \in SourceSteps \ {"createB", "createEvent"} =>
       "b" \notin Outputs[tx[c]] /\ "event" \notin Outputs[tx[c]]
  /\ pc[c] = "createVideo" => Hosted[tx[c]] = "video"
  /\ pc[c] = "createMeeting" => Hosted[tx[c]] = "meeting"
  /\ pc[c] \in PastVideo => Hosted[tx[c]] # "video" \/ Stored(tx[c])
  /\ pc[c] \in {"askFile", "createFile"} => Hosted[tx[c]] # "meeting" \/ Stored(tx[c])

SourcesInv == ~MayFail => BestSourceWins /\ \A c \in Call : SourceInv(c)

\* A step of another call, or one that ends outside the sources.
LEMMA SourceStays ==
  ASSUME IInv, Gain, SourcesInv, ~MayFail, NEW c \in Call,
         pc'[c] \in SourceSteps => pc'[c] = pc[c] /\ tx'[c] = tx[c]
  PROVE  SourceInv(c)'
<1>1. CASE pc'[c] \notin SourceSteps
  BY <1>1 DEF SourceInv, SourceSteps, CreateSteps, PastVideo
<1>2. CASE pc'[c] \in SourceSteps
  <2>1. tx[c] \in Txid
    BY <1>2 DEF IInv, CallInv, SourceSteps, CreateSteps
  <2>2. Stored(tx[c]) => Stored(tx[c])'
    BY <1>2, <2>1 DEF Gain, Stored
  <2>3. SourceInv(c)
    BY DEF SourcesInv
  <2>4. QED
    BY <1>2, <2>2, <2>3 DEF SourceInv, Stored
<1>3. QED
  BY <1>1, <1>2

LEMMA KindsStay ==
  ASSUME IInv, SourcesInv, ~MayFail,
         \A t \in Txid : contents'[t].kind = contents[t].kind
  PROVE  BestSourceWins'
  BY DEF SourcesInv, BestSourceWins, Stored, BestSource

\* A create stores the kind its step stands for, which is the best one.
LEMMA CreateBest ==
  ASSUME IInv, SourcesInv, ~MayFail, NEW t \in Txid, NEW k \in Kind,
         \/ UNCHANGED contents
         \/ contents' = [contents EXCEPT ![t].kind = k] /\ BestSource(t) = k
  PROVE  BestSourceWins'
<1>1. contents \in [Txid -> Content] /\ contents[t] \in Content
  BY DEF IInv, TypeOK
<1>2. CASE UNCHANGED contents
  BY <1>2, KindsStay
<1>3. CASE contents' = [contents EXCEPT ![t].kind = k] /\ BestSource(t) = k
  <2>1. /\ contents'[t].kind = k
        /\ \A u \in Txid : u # t => contents'[u] = contents[u]
    BY <1>1, <1>3 DEF Content
  <2>2. QED
    BY <1>3, <2>1 DEF SourcesInv, BestSourceWins, Stored, BestSource
<1>4. QED
  BY <1>2, <1>3

\* What a step of call c does to the others.
LEMMA CallsFrame ==
  ASSUME IInv, NEW c \in Call, CacheStep(c)
  PROVE  \A d \in Call \ {c} : pc'[d] = pc[d] /\ tx'[d] = tx[d]
<1>1. /\ tx' = tx /\ \E step : pc' = [pc EXCEPT ![c] = step]
  BY DEF CacheStep, Ingest, LookUpOriginal, Find, Fetch, CreateB, CreateEvent, AskVideo,
     CreateVideo, AskMeeting, CreateMeeting, AskFile, CreateFile, Ask, Create, SetBmap,
     FindOriginal, SetContext, SetChannel, FindChannel, CreateChannel, LaunchSave, ActorContext,
     ActorBmap, Return, Goto
<1>2. QED
  BY <1>1 DEF IInv, TypeOK

\* The lookup of the row, the fetch and the sources, in their order.
LEMMA SourceStepsKeep ==
  ASSUME IInv, SourcesInv, ~MayFail, Gain, NEW c \in Call,
         \/ Fetch(c) \/ AskVideo(c) \/ AskMeeting(c) \/ AskFile(c)
         \/ CreateB(c) \/ CreateEvent(c) \/ CreateVideo(c) \/ CreateMeeting(c) \/ CreateFile(c)
  PROVE  BestSourceWins' /\ SourceInv(c)'
<1>1. PICK t : t = tx[c]
  OBVIOUS
<1>2. /\ pc \in [Call -> {"idle"} \cup Step \cup Settled] /\ tx' = tx /\ SourceInv(c)
      /\ t \in Txid /\ contents \in [Txid -> Content] /\ contents[t] \in Content
      /\ Outputs[t] \subseteq Parsed /\ Hosted[t] \in Service
  BY <1>1, ContentAssumption DEF IInv, TypeOK, CallInv, SourcesInv, Fetch, AskVideo, AskMeeting,
     AskFile, Ask, CreateB, CreateEvent, CreateVideo, CreateMeeting, CreateFile, Create
<1>3. Stored(t) => contents'[t].kind # "absent"
  BY <1>2 DEF Gain, Stored
<1>4. CASE Fetch(c)
  <2>1. UNCHANGED contents /\ pc'[c] = FirstCreate(t)
    BY <1>1, <1>2, <1>4 DEF Fetch, Goto, tables
  <2>2. SourceInv(c)'
    BY <1>1, <1>2, <2>1 DEF FirstCreate, SourceInv, SourceSteps, CreateSteps, PastVideo
  <2>3. QED
    BY <2>1, <2>2, KindsStay
<1>5. CASE AskVideo(c) \/ AskMeeting(c) \/ AskFile(c)
  <2>1. UNCHANGED contents
    BY <1>5 DEF AskVideo, AskMeeting, AskFile, Ask, tables
  <2>2. \/ /\ pc[c] = "askVideo"
           /\ \/ pc'[c] = "createVideo" /\ Hosted[t] = "video"
              \/ pc'[c] = "askMeeting" /\ Hosted[t] # "video"
        \/ /\ pc[c] = "askMeeting"
           /\ \/ pc'[c] = "createMeeting" /\ Hosted[t] = "meeting"
              \/ pc'[c] = "askFile" /\ Hosted[t] # "meeting"
        \/ pc[c] = "askFile" /\ pc'[c] = "createFile"
    BY <1>1, <1>2, <1>5 DEF AskVideo, AskMeeting, AskFile, Ask, Goto
  <2>3. SourceInv(c)'
    BY <1>1, <1>2, <2>1, <2>2 DEF SourceInv, SourceSteps, CreateSteps, PastVideo, Stored
  <2>4. QED
    BY <2>1, <2>3, KindsStay
<1>6. CASE CreateB(c) \/ CreateEvent(c)
  <2>1. \/ /\ Stored(t) /\ UNCHANGED contents /\ pc'[c] = "failed"
        \/ /\ ~Stored(t) /\ pc[c] = "createB" /\ contents' = [contents EXCEPT ![t].kind = "b"]
           /\ pc'[c] = IF "event" \in Outputs[t] THEN "createEvent" ELSE "setBmap"
        \/ /\ ~Stored(t) /\ pc[c] = "createEvent"
           /\ contents' = [contents EXCEPT ![t].kind = "event"] /\ pc'[c] = "setBmap"
    BY <1>1, <1>2, <1>6 DEF CreateB, CreateEvent, Create, Goto
  <2>2. /\ pc[c] = "createB" => BestSource(t) = "b"
        /\ pc[c] = "createEvent" /\ ~Stored(t) => BestSource(t) = "event"
    BY <1>1, <1>2 DEF SourceInv, BestSource
  <2>3. BestSourceWins'
    <3>1. CASE UNCHANGED contents
      BY <3>1, KindsStay
    <3>2. ASSUME contents' = [contents EXCEPT ![t].kind = "b"], BestSource(t) = "b"
          PROVE  BestSourceWins'
      <4>1. "b" \in Kind
        BY DEF Kind
      <4>2. QED
        BY <1>2, <3>2, <4>1, CreateBest
    <3>3. ASSUME contents' = [contents EXCEPT ![t].kind = "event"], BestSource(t) = "event"
          PROVE  BestSourceWins'
      <4>1. "event" \in Kind
        BY DEF Kind
      <4>2. QED
        BY <1>2, <3>3, <4>1, CreateBest
    <3>4. QED
      BY <2>1, <2>2, <3>1, <3>2, <3>3
  <2>4. contents'[t].kind # "absent"
    BY <1>2, <1>3, <2>1 DEF Stored, Content
  <2>5. SourceInv(c)'
    BY <1>1, <1>2, <2>1, <2>4 DEF SourceInv, SourceSteps, CreateSteps, PastVideo, Stored
  <2>6. QED
    BY <2>3, <2>5
<1>7. CASE CreateVideo(c) \/ CreateMeeting(c) \/ CreateFile(c)
  <2>1. \/ /\ Stored(t) /\ UNCHANGED contents
           /\ \/ pc[c] = "createVideo" /\ pc'[c] = "askMeeting"
              \/ pc[c] = "createMeeting" /\ pc'[c] = "askFile"
              \/ pc'[c] = "failed"
        \/ /\ ~Stored(t) /\ pc'[c] = "setBmap"
           /\ \/ pc[c] = "createVideo" /\ contents' = [contents EXCEPT ![t].kind = "video"]
              \/ pc[c] = "createMeeting" /\ contents' = [contents EXCEPT ![t].kind = "meeting"]
              \/ pc[c] = "createFile" /\ contents' = [contents EXCEPT ![t].kind = "file"]
    BY <1>1, <1>2, <1>7 DEF CreateVideo, CreateMeeting, CreateFile, Create, Goto
  <2>2. /\ pc[c] = "createVideo" => BestSource(t) = "video"
        /\ pc[c] = "createMeeting" => BestSource(t) = "meeting"
        /\ pc[c] = "createFile" /\ ~Stored(t) => BestSource(t) = "file"
    BY <1>1, <1>2 DEF SourceInv, BestSource, SourceSteps, CreateSteps, PastVideo, Service
  <2>3. BestSourceWins'
    <3>1. CASE UNCHANGED contents
      BY <3>1, KindsStay
    <3>2. ASSUME contents' = [contents EXCEPT ![t].kind = "video"], BestSource(t) = "video"
          PROVE  BestSourceWins'
      <4>1. "video" \in Kind
        BY DEF Kind
      <4>2. QED
        BY <1>2, <3>2, <4>1, CreateBest
    <3>3. ASSUME contents' = [contents EXCEPT ![t].kind = "meeting"], BestSource(t) = "meeting"
          PROVE  BestSourceWins'
      <4>1. "meeting" \in Kind
        BY DEF Kind
      <4>2. QED
        BY <1>2, <3>3, <4>1, CreateBest
    <3>4. ASSUME contents' = [contents EXCEPT ![t].kind = "file"], BestSource(t) = "file"
          PROVE  BestSourceWins'
      <4>1. "file" \in Kind
        BY DEF Kind
      <4>2. QED
        BY <1>2, <3>4, <4>1, CreateBest
    <3>5. QED
      BY <2>1, <2>2, <3>1, <3>2, <3>3, <3>4
  <2>4. SourceInv(c)'
    BY <1>1, <1>2, <2>1 DEF SourceInv, SourceSteps, CreateSteps, PastVideo, Stored
  <2>5. QED
    BY <2>3, <2>4
<1>8. QED
  BY <1>4, <1>5, <1>6, <1>7

\* The steps of a call before the fetch and after the create.
LEMMA OutsideSources ==
  ASSUME IInv, SourcesInv, ~MayFail, NEW c \in Call,
         \/ Ingest(c) \/ LookUpOriginal(c) \/ Find(c) \/ SetBmap(c) \/ FindOriginal(c)
         \/ SetContext(c) \/ SetChannel(c) \/ FindChannel(c) \/ CreateChannel(c)
         \/ ActorContext(c) \/ ActorBmap(c)
  PROVE  BestSourceWins' /\ pc'[c] \notin SourceSteps
<1>1. pc \in [Call -> {"idle"} \cup Step \cup Settled]
  BY DEF IInv, TypeOK
<1>2. pc'[c] \notin SourceSteps
  BY <1>1 DEF SourceSteps, CreateSteps, Ingest, LookUpOriginal, Find, SetBmap, FindOriginal,
     SetContext, SetChannel, FindChannel, CreateChannel, LaunchSave, ActorContext, ActorBmap,
     Return, ActorStep, Goto
<1>3. CacheStep(c)
  BY DEF CacheStep
<1>4. PICK u \in Txid : u = tx[c]
  BY <1>3, CallsWrite
<1>5. contents \in [Txid -> Content] /\ contents[u] \in Content
  BY DEF IInv, TypeOK
<1>6. \/ UNCHANGED contents
      \/ contents' = [contents EXCEPT ![u].bmap = TRUE]
      \/ contents' = [contents EXCEPT ![u].context_txid = Reply[u]]
      \/ contents' = [contents EXCEPT ![u].bitchat_channel = ChannelOf[u]]
  BY <1>4 DEF Ingest, LookUpOriginal, Find, SetBmap, FindOriginal, SetContext, SetChannel,
     FindChannel, CreateChannel, ActorContext, ActorBmap, Link, tables
<1>7. \A t \in Txid : contents'[t].kind = contents[t].kind
  BY <1>5, <1>6 DEF Content
<1>8. QED
  BY <1>2, <1>7, KindsStay

LEMMA InitSources == Init => SourcesInv
  BY DEF Init, SourcesInv, BestSourceWins, SourceInv, SourceSteps, CreateSteps, PastVideo,
     Stored, NotStored

LEMMA StepSources == IInv /\ SourcesInv /\ [Next]_vars => SourcesInv'
<1> SUFFICES ASSUME IInv, SourcesInv, [Next]_vars, ~MayFail
             PROVE  BestSourceWins' /\ \A d \in Call : SourceInv(d)'
  BY DEF SourcesInv
<1>1. Gain
  BY StepsGain
<1>2. ASSUME NEW c \in Call, CacheStep(c)
      PROVE  BestSourceWins' /\ \A d \in Call : SourceInv(d)'
  <2>1. BestSourceWins' /\ SourceInv(c)'
    <3>1. CASE \/ Fetch(c) \/ AskVideo(c) \/ AskMeeting(c) \/ AskFile(c) \/ CreateB(c)
               \/ CreateEvent(c) \/ CreateVideo(c) \/ CreateMeeting(c) \/ CreateFile(c)
      BY <1>1, <3>1, SourceStepsKeep
    <3>2. CASE \/ Ingest(c) \/ LookUpOriginal(c) \/ Find(c) \/ SetBmap(c) \/ FindOriginal(c)
               \/ SetContext(c) \/ SetChannel(c) \/ FindChannel(c) \/ CreateChannel(c)
               \/ ActorContext(c) \/ ActorBmap(c)
      BY <1>1, <3>2, OutsideSources, SourceStays
    <3>3. QED
      BY <1>2, <3>1, <3>2 DEF CacheStep
  <2>2. \A d \in Call \ {c} : SourceInv(d)'
    BY <1>1, <1>2, CallsFrame, SourceStays
  <2>3. QED
    BY <2>1, <2>2
<1>3. CASE \/ \E c \in Call, t \in Txid : CacheContent(c, t) \/ Discovered(c, t)
           \/ \E c \in Call : StepRejects(c) \/ Release(c) \/ Crash(c)
           \/ \E s \in saves : SaveLands(s) \/ SaveIsLost(s)
           \/ UNCHANGED vars
  <2>1. UNCHANGED contents
    BY <1>3 DEF CacheContent, Discovered, Enter, StepRejects, Release, Crash, Forget,
       SaveLands, SaveIsLost, vars, tables
  <2>2. ASSUME NEW d \in Call, pc'[d] \in SourceSteps
        PROVE  pc'[d] = pc[d] /\ tx'[d] = tx[d]
    <3>1. /\ pc \in [Call -> {"idle"} \cup Step \cup Settled]
          /\ tx \in [Call -> Txid \cup {None}]
      BY DEF IInv, TypeOK
    <3>2. CASE \E c \in Call, t \in Txid : CacheContent(c, t) \/ Discovered(c, t)
      BY <2>2, <3>1, <3>2 DEF CacheContent, Discovered, Enter, Goto, SourceSteps, CreateSteps
    <3>3. CASE \E c \in Call : StepRejects(c) \/ Release(c) \/ Crash(c)
      BY <2>2, <3>1, <3>3 DEF StepRejects, Release, Crash, Forget, Goto, SourceSteps, CreateSteps
    <3>4. CASE (\E s \in saves : SaveLands(s) \/ SaveIsLost(s)) \/ UNCHANGED vars
      BY <3>4 DEF SaveLands, SaveIsLost, vars
    <3>5. QED
      BY <1>3, <3>2, <3>3, <3>4
  <2>3. QED
    BY <1>1, <2>1, <2>2, KindsStay, SourceStays
<1>4. QED
  BY <1>2, <1>3 DEF Next

\* While no request fails, a row comes from the best source that knows the
\* transaction, also when a call that lost the race asks lesser ones.
THEOREM BestSourcesWin == Spec => []BestSourceWins
<1>1. Spec => []SourcesInv
  BY Always, InitSources, StepSources, PTL DEF Spec
<1>2. SourcesInv => BestSourceWins
  BY DEF SourcesInv, BestSourceWins
<1>3. QED
  BY <1>1, <1>2, PTL
=============================================================================
