------------------------------- MODULE Relay -------------------------------
(***************************************************************************)
(* What the relays of the client and of the server connection have in      *)
(* common: the chunks their peers send, and the way a call is described.   *)
(* A buffer queue is the sequence of the chunks in it; a chunk is its      *)
(* number, and 0 is what the proxy itself puts in front.                   *)
(***************************************************************************)
EXTENDS Naturals, Sequences

CONSTANTS
  MaxClient,   \* bound: chunks the client sends
  MaxRemote    \* bound: chunks the remote sends

ASSUME MaxClientAssumption == MaxClient \in Nat
ASSUME MaxRemoteAssumption == MaxRemote \in Nat

Chunks == 0 .. (IF MaxClient > MaxRemote THEN MaxClient ELSE MaxRemote)
Peer == {"there", "finished", "gone"}   \* finished: it sent its FIN; gone: reset

\* What a peer has sent after n chunks.
Run(n) == [i \in 1 .. n |-> i]

First(s, n) == SubSeq(s, 1, n)
Rest(s, n) == SubSeq(s, n + 1, Len(s))

When(condition, outcomes) == IF condition THEN outcomes ELSE {}

\* F after every outcome of a call, unless the connection was closed by it.
Then(outcomes, F(_)) ==
  UNION {IF c.closed_ THEN {c} ELSE F(c) : c \in outcomes}
=============================================================================
