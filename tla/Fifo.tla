-------------------------------- MODULE Fifo --------------------------------
(***************************************************************************)
(* What net::IoQueue promises its users (the relay directions of           *)
(* CliConnection and ServerConnection): each queue object holds an         *)
(* unbounded sequence of buffers, buffers leave in the order they entered, *)
(* and a whole queue can be dropped, moved into another one or exchanged   *)
(* with it.                                                                *)
(***************************************************************************)
EXTENDS Naturals, Sequences

CONSTANTS
  Queues,   \* the queue objects of the program
  Buffers   \* the buffers they may hold

VARIABLE content   \* content[q]: the buffers in q, oldest first

Init == content = [q \in Queues |-> << >>]

push_back(q, b) == content' = [content EXCEPT ![q] = Append(@, b)]

pop_front(q) ==
  /\ content[q] # << >>
  /\ content' = [content EXCEPT ![q] = Tail(@)]

clear(q) == content' = [content EXCEPT ![q] = << >>]

\* to = std::move(from): what "to" held is released, "from" is left empty.
move_assign(to, from) ==
  content' = [content EXCEPT ![to] = content[from], ![from] = << >>]

swap(q, r) == content' = [content EXCEPT ![q] = content[r], ![r] = content[q]]

Next ==
  \/ \E q \in Queues, b \in Buffers : push_back(q, b)
  \/ \E q \in Queues : pop_front(q) \/ clear(q)
  \/ \E q, r \in Queues : q # r /\ (move_assign(q, r) \/ swap(q, r))

Spec == Init /\ [][Next]_content
=============================================================================
