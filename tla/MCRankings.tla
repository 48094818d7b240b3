----------------------------- MODULE MCRankings -----------------------------
(***************************************************************************)
(* A small instance of Rankings for TLC.                                   *)
(***************************************************************************)
EXTENDS Rankings

CONSTANTS x, y, usd, f1, f2

\* Two pieces of work for one content and one for another, by two tags; the
\* miner of one is unknown and one pays nothing.
Mined(name, content, day, tag, difficulty, miner, profit) ==
  [id |-> name, content |-> content, timestamp |-> day, tag |-> tag, difficulty |-> difficulty,
   value |-> 1, minerPubKey |-> miner, script |-> "script", profitability |-> profit,
   createdAt |-> day, bitcoin_signed_message_address |-> "author"]

SomeWork == {Mined("w1", "post", 1, x, 1, "m", 1), Mined("w2", "picture", 0, x, 2, Null, 2),
             Mined("w3", "post", 2, y, 1, "m", 0)}
SomeJobs == {Mined("j1", "post", 3, y, 1, Null, 1), Mined("j2", "post", 4, x, 2, Null, 2)}

\* The picture answers the post.
SomeContents == {[txid |-> "picture", content_type |-> "image", context_txid |-> "post"]}
SomeContract == {[origin |-> "post_o1", origin_txid |-> "post", class_name |-> "Issue"]}

Prices == [currency \in {usd} |-> 3]

SpanInDays == [frame \in Frame |-> CASE frame = "last-day" -> 1
                                     [] OTHER              -> 100]

\* Quotes depend on no state: TLC evaluates them once, before the run.
ASSUME QuotesPay == QuotesPayForDifficulty
=============================================================================
