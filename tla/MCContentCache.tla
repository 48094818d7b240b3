--------------------------- MODULE MCContentCache ---------------------------
(***************************************************************************)
(* Small instances of ContentCache for TLC.                                *)
(***************************************************************************)
EXTENDS ContentCache, TLC

CONSTANTS reply, msg, msg2, aside, c1, c2, main, other

\* A chat message that is an event and a B output at once, one that is neither, in
\* another channel, and a reply to the second that a collection hosts.
TalkOutputs == (msg :> {"b", "event"}) @@ (msg2 :> {}) @@ (reply :> {})
TalkHosted  == (msg :> "none") @@ (msg2 :> "video") @@ (reply :> "meeting")
TalkReply   == (msg :> None) @@ (msg2 :> None) @@ (reply :> msg2)
TalkChannel == (msg :> main) @@ (msg2 :> other) @@ (reply :> None)

\* Two messages of one channel and an event in another.
ChatOutputs == (msg :> {}) @@ (msg2 :> {"b"}) @@ (aside :> {"event"})
ChatHosted  == (msg :> "meeting") @@ (msg2 :> "none") @@ (aside :> "none")
ChatReply   == [t \in {msg, msg2, aside} |-> None]
ChatChannels == (msg :> main) @@ (msg2 :> main) @@ (aside :> other)

Interchangeable == Permutations(Call)
=============================================================================
