--------------------------- MODULE MCContentServer ---------------------------
(***************************************************************************)
(* The net layer for TLC: the server that accepts connections, and the     *)
(* queue in which a connection keeps what waits to be written.  A          *)
(* behaviour exercises one of them; the other rests.  There are two queue  *)
(* objects of three slots that may grow to six, and two buffers of         *)
(* different sizes; the bounds of the server are in the cfg file.          *)
(***************************************************************************)
EXTENDS ContentServer, IoQueue, TLC

CONSTANTS q1, q2, b1, b2

VARIABLE part  \* the one exercised

MCQueues == {q1, q2}
MCBuffers == {b1, b2}
MCBytes == (b1 :> 3) @@ (b2 :> 5)

MCInit == part \in {"server", "queue"} /\ Init /\ QueueInit

MCNext ==
  \/ part = "server" /\ Next /\ UNCHANGED <<part, object>>
  \/ part = "queue" /\ QueueNext /\ UNCHANGED <<part, vars>>

MCSpec == MCInit /\ [][MCNext]_<<part, vars, object>> /\ (part = "server" => Fairness)
=============================================================================
