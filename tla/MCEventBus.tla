----------------------------- MODULE MCEventBus -----------------------------
(* Two processes and a client of a chat channel at one of them, who hears  *)
(* of the jobs too; two jobs, and two messages of the channel.  The shared *)
(* queues are independent of each other: the one the websockets share for  *)
(* the jobs stands for all of them.                                        *)
EXTENDS EventBus, TLC

CONSTANTS p1, p2, room, job, job2, said, said2

MCHome == room :> p1
MCUrl  == room :> "channel"
MCKind == job :> "job" @@ job2 :> "job" @@ said :> "message" @@ said2 :> "message"
MCStarted == {"wsJob"}
=============================================================================
