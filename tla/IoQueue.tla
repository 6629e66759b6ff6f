------------------------------- MODULE IoQueue -------------------------------
(***************************************************************************)
(* net::IoQueue (src/net/io_queue.hpp): the ring buffer in which a         *)
(* connection keeps the buffers that wait to be written.  A queue object   *)
(* is a vector of slots and two indexes; the slots from idx_ up to         *)
(* end_idx_, read modulo the size, are the content.  One slot is always    *)
(* kept free: push_back doubles the vector as soon as the last free slot   *)
(* is taken, so that idx_ = end_idx_ can only mean "empty".                *)
(***************************************************************************)
EXTENDS Integers, Sequences

CONSTANTS
  Queues,                \* queue objects
  Buffers,               \* buffers (scoped_refptr<GrowableIOBuffer>)
  NULL,                  \* nullptr
  DEFAULT_QUEUE_LENGTH,  \* 16 on the desktop, 8 on the mobile systems
  MaxSize,               \* the DCHECK on "index overflow": no vector is larger
  Bytes                  \* Bytes[b] is b->size()

ASSUME QueueLengthAssumption == DEFAULT_QUEUE_LENGTH \in Nat /\ DEFAULT_QUEUE_LENGTH >= 2
ASSUME NullAssumption == NULL \notin Buffers
ASSUME BytesAssumption == Bytes \in [Buffers -> Nat]

VARIABLE
  object   \* object[q]: the members of queue object q; size is queue_.size()

Slot == Buffers \union {NULL}

\* A queue object as its constructor leaves it.
NewQueue ==
  [queue_   |-> [i \in 0 .. DEFAULT_QUEUE_LENGTH - 1 |-> NULL],
   size     |-> DEFAULT_QUEUE_LENGTH,
   idx_     |-> 0,
   end_idx_ |-> 0]

-----------------------------------------------------------------------------
(* The observers of a queue object o. *)

empty(o) == o.idx_ = o.end_idx_

front(o) == o.queue_[o.idx_]

back(o) == o.queue_[(o.end_idx_ + o.size - 1) % o.size]

\* Mutant: the ring has not wrapped.
length_unwrapped(o) == o.end_idx_ - o.idx_

length(o) == (o.end_idx_ + o.size - o.idx_) % o.size

\* The loop from idx_ to end_idx_ that adds up the sizes of the buffers.
byte_length(o) ==
  LET from[i \in 0 .. o.size - 1] ==
        IF i = o.end_idx_ THEN 0
        ELSE Bytes[o.queue_[i]] + from[(i + 1) % o.size]
  IN  from[o.idx_]

-----------------------------------------------------------------------------
(* The operations, as the object they leave. *)

\* Mutant: the part before idx_ is not copied.
enlarge_first_part_only(o) ==
  [queue_   |-> [i \in 0 .. 2 * o.size - 1 |->
                   IF i < o.size - o.idx_ THEN o.queue_[o.idx_ + i] ELSE NULL],
   size     |-> 2 * o.size,
   idx_     |-> 0,
   end_idx_ |-> o.size]

\* The slots from idx_ to the end of the vector, then those before idx_
\* (idx_ = end_idx_ here), then null slots up to twice the size.
enlarge_queue_by_2x(o) ==
  [queue_   |-> [i \in 0 .. 2 * o.size - 1 |->
                   IF i < o.size - o.idx_ THEN o.queue_[o.idx_ + i]
                   ELSE IF i < o.size THEN o.queue_[i - (o.size - o.idx_)]
                   ELSE NULL],
   size     |-> 2 * o.size,
   idx_     |-> 0,
   end_idx_ |-> o.size]

\* The object once b is in its slot and end_idx_ has moved on.
stored(o, b) ==
  [o EXCEPT !.queue_[o.end_idx_] = b, !.end_idx_ = (o.end_idx_ + 1) % o.size]

push_back(o, b) ==
  IF empty(stored(o, b)) THEN enlarge_queue_by_2x(stored(o, b)) ELSE stored(o, b)

\* Mutant: the slot keeps its reference.
pop_front_keeps_ref(o) == [o EXCEPT !.idx_ = (o.idx_ + 1) % o.size]

pop_front(o) == [o EXCEPT !.queue_[o.idx_] = NULL, !.idx_ = (o.idx_ + 1) % o.size]

-----------------------------------------------------------------------------
(* The operations as steps of the program that owns the objects. *)

QueueInit == object = [q \in Queues |-> NewQueue]

PushBack(q, b) ==
  /\ push_back(object[q], b).size <= MaxSize
  /\ object' = [object EXCEPT ![q] = push_back(@, b)]

PopFront(q) ==
  /\ ~empty(object[q])
  /\ object' = [object EXCEPT ![q] = pop_front(@)]

\* *this = IoQueue(): the old vector leaves with the temporary.
Clear(q) == object' = [object EXCEPT ![q] = NewQueue]

\* to = std::move(from), the move constructor included ("to" is then new):
\* "from" is left with a fresh vector of the default length.
MoveAssign(to, from) ==
  object' = [object EXCEPT ![to] = object[from], ![from] = NewQueue]

Swap(q, r) == object' = [object EXCEPT ![q] = object[r], ![r] = object[q]]

QueueNext ==
  \/ \E q \in Queues, b \in Buffers : PushBack(q, b)
  \/ \E q \in Queues : PopFront(q) \/ Clear(q)
  \/ \E q, r \in Queues : q # r /\ (MoveAssign(q, r) \/ Swap(q, r))

QueueSpec == QueueInit /\ [][QueueNext]_object

-----------------------------------------------------------------------------
(* Properties. *)

\* The number of slots from idx_ to end_idx_, walking the ring.
Distance(o) ==
  IF o.idx_ <= o.end_idx_ THEN o.end_idx_ - o.idx_ ELSE o.end_idx_ + o.size - o.idx_

\* The slot that is k steps after slot idx_.
Nth(o, k) == IF o.idx_ + k < o.size THEN o.idx_ + k ELSE o.idx_ + k - o.size

IsRing(o) ==
  /\ o = [queue_ |-> o.queue_, size |-> o.size, idx_ |-> o.idx_, end_idx_ |-> o.end_idx_]
  /\ o.size \in Nat /\ o.size >= DEFAULT_QUEUE_LENGTH
  /\ o.idx_ \in Nat /\ o.idx_ < o.size
  /\ o.end_idx_ \in Nat /\ o.end_idx_ < o.size
  /\ o.queue_ \in [0 .. o.size - 1 -> Slot]

\* Type invariant of the queue objects: the indexes stay inside the vector,
\* which never shrinks below its default length (the DCHECK_LE at the head of
\* every method).
QueueTypeOK == DOMAIN object = Queues /\ \A q \in Queues : IsRing(object[q])

Occupied(o) == \A k \in 0 .. o.size - 1 : o.queue_[Nth(o, k)] # NULL <=> k < Distance(o)

\* The indexes stay inside the vector, and a slot holds a buffer exactly when
\* it lies between them: no buffer is kept alive by a slot nobody will read
\* again, and no reader of the content meets a null slot.  In particular an
\* empty queue has only null slots, which is what the loop of DCHECKs in
\* empty() asserts.
OccupiedSlots == QueueTypeOK /\ \A q \in Queues : Occupied(object[q])

\* The content of an object as a sequence, and the FIFO specification over it.
Content(o) == [i \in 1 .. Distance(o) |-> o.queue_[Nth(o, i - 1)]]

Contents == [q \in Queues |-> Content(object[q])]

Abstract == INSTANCE Fifo WITH content <- Contents

\* The ring buffer with its wrap-around and its doubling implements the
\* unbounded FIFO: every operation has exactly the effect Fifo states.
Refines == Abstract!Spec

\* length() is the length of the content, front() and back() are its two ends.
EndsAgree ==
  \A q \in Queues :
    LET o == object[q]
        c == Content(o)
    IN  /\ length(o) = Len(c)
        /\ empty(o) <=> c = << >>
        /\ ~empty(o) => front(o) = Head(c) /\ back(o) = c[Len(c)]

\* The sizes of the buffers of a content, added up from the first.
Total(c) ==
  LET upto[k \in 0 .. Len(c)] == IF k = 0 THEN 0 ELSE Bytes[c[k]] + upto[k - 1]
  IN  upto[Len(c)]

\* What the observers answer is true of the content: its ends, its length and,
\* for byte_length(), the sum of the sizes of its buffers.
ObserversAgree ==
  /\ EndsAgree
  /\ \A q \in Queues : byte_length(object[q]) = Total(Content(object[q]))
=============================================================================
