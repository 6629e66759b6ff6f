------------------------- MODULE ContentServerProofs -------------------------
(***************************************************************************)
(* Proofs about ContentServer, for every number of listeners, connections  *)
(* and requests and every limit: the counter of open connections is the    *)
(* size of the map, a parked listener always has a connection to wake it,  *)
(* a drained server in shutdown lets go of its guard, and the accept loop  *)
(* is sound (AcceptSound).                                                 *)
(*                                                                         *)
(* None of these is inductive alone.  That the counter is a natural number *)
(* when it goes down needs the map to be what it counts; that it goes up by *)
(* a connection the map does not hold yet needs ids not to come back.  The *)
(* accept loop needs a second invariant, on the tasks that are posted:     *)
(* which start belongs to which connection, that an accept comes before    *)
(* every request to end, and how many connections the listeners that are   *)
(* not parked may still add.                                               *)
(*                                                                         *)
(* The second half is about IoQueue, the queues of its connections, for    *)
(* every set of queue objects and of buffers and every default length of   *)
(* at least two slots: the indexes stay in range, a slot is occupied       *)
(* exactly when it is part of the content, every operation does to the     *)
(* content what Fifo says, and the observers, byte_length() with its loop  *)
(* included, tell the truth about the content.                             *)
(***************************************************************************)
EXTENDS ContentServer, IoQueue, FiniteSetTheorems, SequenceTheorems,
        WellFoundedInduction, TLAPS

\* The map holds connections that were accepted before.
MapIsPast == \A c \in connection_map_ : c < next_connection_id_

\* The inductive invariant.
IInv == TypeOK /\ Accounting /\ MapIsPast /\ ParkedWillWake /\ DrainedReleasesGuard

-----------------------------------------------------------------------------
(* Counting. *)

\* The number of places at which a finite sequence has a property is a number.
LEMMA CountType ==
  ASSUME NEW S, NEW s \in Seq(S), NEW T \in SUBSET DOMAIN s
  PROVE  Cardinality(T) \in Nat
<1>1. Len(s) \in Nat /\ DOMAIN s = 1 .. Len(s)
  BY LenProperties
<1>2. IsFiniteSet(DOMAIN s)
  BY <1>1, FS_Interval
<1>3. IsFiniteSet(T)
  BY <1>2, FS_Subset
<1> QED BY <1>3, FS_CardinalityType

\* A set of connections is finite.
LEMMA ConnectionsFinite ==
  ASSUME NEW T \in SUBSET Connections
  PROVE  IsFiniteSet(T) /\ Cardinality(T) \in Nat
<1>1. IsFiniteSet(Connections)
  BY MaxConnectionsAssumption, FS_Interval DEF Connections
<1>2. IsFiniteSet(T)
  BY <1>1, FS_Subset
<1> QED BY <1>2, FS_CardinalityType

\* The counter of a map that loses or has lost a connection.
LEMMA RemoveCount ==
  ASSUME NEW T \in SUBSET Connections, NEW c
  PROVE  /\ Cardinality(T \ {c}) = IF c \in T THEN Cardinality(T) - 1 ELSE Cardinality(T)
         /\ Cardinality(T \ {c}) \in Nat
<1>1. IsFiniteSet(T)
  BY ConnectionsFinite
<1>2. T \ {c} \in SUBSET Connections
  OBVIOUS
<1> QED BY <1>1, <1>2, FS_RemoveElement, ConnectionsFinite

\* The counter of a map that gains a connection it did not hold.
LEMMA AddCount ==
  ASSUME NEW T \in SUBSET Connections, NEW c, c \notin T
  PROVE  Cardinality(T \union {c}) = Cardinality(T) + 1
BY ConnectionsFinite, FS_AddElement

-----------------------------------------------------------------------------
(* The posted tasks. *)

\* Every task is of its type.
LEMMA TaskTypes ==
  /\ \A l \in Listeners : AcceptTask(l) \in Tasks
  /\ \A c \in Connections : StartTask(c) \in Tasks
  /\ ShutdownTask \in Tasks /\ StopTask \in Tasks /\ ResetGuardTask \in Tasks
BY DEF Tasks, AcceptTask, StartTask, ShutdownTask, StopTask, ResetGuardTask

\* A release of the guard is posted.
Releasing(s) == \E i \in DOMAIN s : s[i] = ResetGuardTask

\* Posting a task keeps the type and every release of the guard that is posted.
LEMMA PostTask ==
  ASSUME NEW s \in Seq(Tasks), NEW t \in Tasks
  PROVE  /\ Append(s, t) \in Seq(Tasks)
         /\ Releasing(s) => Releasing(Append(s, t))
         /\ t = ResetGuardTask => Releasing(Append(s, t))
<1>1. /\ Append(s, t) \in Seq(Tasks) /\ Len(Append(s, t)) = Len(s) + 1
      /\ \A i \in 1 .. Len(s) : Append(s, t)[i] = s[i]
      /\ Append(s, t)[Len(s) + 1] = t
  BY AppendProperties
<1>2. DOMAIN s = 1 .. Len(s) /\ Len(s) \in Nat /\ DOMAIN Append(s, t) = 1 .. Len(s) + 1
  BY <1>1, LenProperties
<1> QED BY <1>1, <1>2 DEF Releasing

\* Taking the first task keeps the type, and the releases unless it was one.
LEMMA TakeTask ==
  ASSUME NEW s \in Seq(Tasks), s # << >>
  PROVE  /\ Tail(s) \in Seq(Tasks) /\ Head(s) \in Tasks
         /\ Releasing(s) /\ Head(s) # ResetGuardTask => Releasing(Tail(s))
<1>1. /\ Head(s) \in Tasks /\ Tail(s) \in Seq(Tasks) /\ Len(Tail(s)) = Len(s) - 1
      /\ \A i \in 1 .. Len(Tail(s)) : Tail(s)[i] = s[i + 1]
  BY HeadTailProperties
<1>2. DOMAIN s = 1 .. Len(s) /\ Len(s) \in Nat /\ DOMAIN Tail(s) = 1 .. Len(s) - 1
  BY <1>1, LenProperties
<1>3. Head(s) = s[1]
  OBVIOUS
<1>4. ASSUME NEW i \in DOMAIN s, s[i] = ResetGuardTask, Head(s) # ResetGuardTask
      PROVE  Releasing(Tail(s))
  <2>1. i # 1 /\ i - 1 \in DOMAIN Tail(s)
    BY <1>2, <1>3, <1>4
  <2>2. Tail(s)[i - 1] = ResetGuardTask
    BY <1>1, <1>2, <1>4, <2>1
  <2> QED BY <2>1, <2>2 DEF Releasing
<1> QED BY <1>1, <1>4 DEF Releasing

-----------------------------------------------------------------------------
(* The invariant holds initially and is kept by every action. *)

\* Init establishes the invariant.
LEMMA InitInv == Init => IInv
<1> SUFFICES ASSUME Init PROVE IInv
  OBVIOUS
<1>1. TypeOK
  BY MaxListenersAssumption, MaxConnectionsAssumption, MaxRequestsAssumption
     DEF Init, TypeOK, Listeners
<1>2. Accounting
  BY FS_EmptySet DEF Init, Accounting
<1> QED BY <1>1, <1>2 DEF Init, IInv, MapIsPast, ParkedWillWake, DrainedReleasesGuard

\* What the steps that leave the connections alone have to show.
LEMMA ConnectionsKept ==
  ASSUME IInv, UNCHANGED connVars, TypeOK', ParkedWillWake', DrainedReleasesGuard'
  PROVE  IInv'
BY DEF IInv, Accounting, MapIsPast, connVars

\* Calls of the owner.
LEMMA OwnerStep ==
  ASSUME IInv, listen \/ listen_fails \/ shutdown \/ stop
  PROVE  IInv'
<1> USE DEF IInv
<1>1. CASE listen
  <2>1. AcceptTask(next_listen_ctx_) \in Tasks
    BY <1>1, TaskTypes, MaxListenersAssumption DEF TypeOK, listen, Listeners
  <2>2. tasks' \in Seq(Tasks) /\ (Releasing(tasks) => Releasing(tasks'))
    BY <1>1, <2>1, PostTask DEF TypeOK, listen
  <2>3. TypeOK'
    BY <1>1, <2>2, MaxListenersAssumption DEF TypeOK, listen, Listeners, connVars, endVars
  <2>4. DrainedReleasesGuard' /\ ParkedWillWake'
    BY <1>1, <2>2 DEF DrainedReleasesGuard, ParkedWillWake, Releasing, listen, connVars, endVars
  <2> QED BY <1>1, <2>3, <2>4, ConnectionsKept DEF listen
<1>2. CASE listen_fails
  <2>1. TypeOK'
    BY <1>2 DEF TypeOK, listen_fails, Listeners, connVars, endVars
  <2>2. DrainedReleasesGuard' /\ ParkedWillWake'
    BY <1>2 DEF DrainedReleasesGuard, ParkedWillWake, listen_fails, connVars, endVars
  <2> QED BY <1>2, <2>1, <2>2, ConnectionsKept DEF listen_fails
<1>3. CASE shutdown
  <2>1. tasks' \in Seq(Tasks) /\ (Releasing(tasks) => Releasing(tasks'))
    BY <1>3, TaskTypes, PostTask DEF TypeOK, shutdown
  <2>2. TypeOK'
    BY <1>3, <2>1, MaxRequestsAssumption DEF TypeOK, shutdown, listenVars, connVars
  <2>3. DrainedReleasesGuard' /\ ParkedWillWake'
    BY <1>3, <2>1 DEF DrainedReleasesGuard, ParkedWillWake, Releasing, shutdown, listenVars, connVars
  <2> QED BY <1>3, <2>2, <2>3, ConnectionsKept DEF shutdown
<1>4. CASE stop
  <2>1. tasks' \in Seq(Tasks) /\ (Releasing(tasks) => Releasing(tasks'))
    BY <1>4, TaskTypes, PostTask DEF TypeOK, stop
  <2>2. TypeOK'
    BY <1>4, <2>1, MaxRequestsAssumption DEF TypeOK, stop, listenVars, connVars
  <2>3. DrainedReleasesGuard' /\ ParkedWillWake'
    BY <1>4, <2>1 DEF DrainedReleasesGuard, ParkedWillWake, Releasing, stop, listenVars, connVars
  <2> QED BY <1>4, <2>2, <2>3, ConnectionsKept DEF stop
<1> QED BY <1>1, <1>2, <1>3, <1>4

\* Completions of async_accept.
LEMMA AcceptStep ==
  ASSUME IInv, NEW l \in Listeners,
         on_async_accept(l) \/ accept_cancelled(l) \/ accept_error(l)
  PROVE  IInv'
<1> USE DEF IInv
<1>1. CASE on_async_accept(l)
  <2> DEFINE c == next_connection_id_
  <2>1. c \in Connections /\ c \notin connection_map_ /\ c \in Nat
    BY <1>1, MaxConnectionsAssumption DEF TypeOK, MapIsPast, on_async_accept, Connections
  <2>2. /\ connection_map_' = connection_map_ \union {c}
        /\ opened_connections_' = opened_connections_ + 1
        /\ next_connection_id_' = c + 1
    BY <1>1 DEF on_async_accept, on_accept
  <2>3. Accounting'
    BY <2>1, <2>2, AddCount DEF Accounting, TypeOK
  <2>4. MapIsPast'
    BY <2>1, <2>2 DEF MapIsPast, TypeOK, Connections
  <2>5. opened_connections_' \in Nat /\ opened_connections_' > 0
    BY <2>2 DEF TypeOK
  <2>6. tasks' \in Seq(Tasks)
    BY <1>1, <2>1, TaskTypes, PostTask DEF TypeOK, on_async_accept, on_accept
  <2>7. conn' \in [Connections -> {"none", "accepted", "open", "closed"}]
    BY <1>1 DEF TypeOK, on_async_accept, on_accept
  <2>8. accepting' \in [Listeners -> Nat] /\ pending_next_listen_ctxes_' \in Seq(Listeners)
    <3>1. accepting[l] - 1 \in Nat
      BY <1>1 DEF TypeOK, on_async_accept
    <3>2. Append(pending_next_listen_ctxes_, l) \in Seq(Listeners)
      BY AppendProperties DEF TypeOK
    <3> QED BY <1>1, <3>1, <3>2 DEF TypeOK, on_async_accept, accept_more
  <2>9. TypeOK'
    BY <1>1, <2>1, <2>2, <2>5, <2>6, <2>7, <2>8, MaxConnectionsAssumption
       DEF TypeOK, on_async_accept, endVars, Connections
  <2>10. ParkedWillWake' /\ DrainedReleasesGuard'
    BY <2>5 DEF ParkedWillWake, DrainedReleasesGuard
  <2> QED BY <2>3, <2>4, <2>9, <2>10
<1>2. CASE accept_cancelled(l)
  <2>1. accepting[l] - 1 \in Nat
    BY <1>2 DEF TypeOK, accept_cancelled
  <2>2. TypeOK'
    BY <1>2, <2>1 DEF TypeOK, accept_cancelled, connVars, endVars
  <2>3. DrainedReleasesGuard' /\ ParkedWillWake'
    BY <1>2 DEF DrainedReleasesGuard, ParkedWillWake, accept_cancelled, connVars, endVars
  <2> QED BY <1>2, <2>2, <2>3, ConnectionsKept DEF accept_cancelled
<1>3. CASE accept_error(l)
  <2>1. accepting[l] - 1 \in Nat
    BY <1>3 DEF TypeOK, accept_error
  <2>2. TypeOK'
    BY <1>3, <2>1 DEF TypeOK, accept_error, connVars
  <2>3. DrainedReleasesGuard' /\ ParkedWillWake'
    BY <1>3 DEF DrainedReleasesGuard, ParkedWillWake, accept_error, connVars
  <2> QED BY <1>3, <2>2, <2>3, ConnectionsKept DEF accept_error
<1> QED BY <1>1, <1>2, <1>3

\* The end of a connection.
LEMMA DisconnectStep ==
  ASSUME IInv, NEW c \in Connections, on_disconnect(c)
  PROVE  IInv'
<1> USE DEF IInv
<1>1. connection_map_' = connection_map_ \ {c} /\ UNCHANGED next_connection_id_
  BY DEF on_disconnect
<1>2. Accounting' /\ opened_connections_' \in Nat
  <2>1. /\ Cardinality(connection_map_ \ {c}) \in Nat
        /\ Cardinality(connection_map_ \ {c}) =
             IF c \in connection_map_ THEN Cardinality(connection_map_) - 1
                                      ELSE Cardinality(connection_map_)
    BY RemoveCount DEF TypeOK
  <2>2. opened_connections_' =
          IF c \in connection_map_ THEN opened_connections_ - 1 ELSE opened_connections_
    BY DEF on_disconnect
  <2> QED BY <1>1, <2>1, <2>2 DEF Accounting
<1>3. MapIsPast'
  BY <1>1 DEF MapIsPast
<1>4. /\ tasks' \in Seq(Tasks)
      /\ Releasing(tasks) => Releasing(tasks')
      /\ in_shutdown_ /\ opened_connections_' = 0 => Releasing(tasks')
  BY TaskTypes, PostTask DEF on_disconnect, release_when_drained, TypeOK
<1>5. accepting' \in [Listeners -> Nat] /\ pending_next_listen_ctxes_' = << >>
  <2>1. \A l \in Listeners :
          Cardinality({i \in DOMAIN pending_next_listen_ctxes_ :
                         pending_next_listen_ctxes_[i] = l}) \in Nat
    BY CountType DEF TypeOK
  <2>2. \A l \in Listeners : accepting[l] \in Nat
    BY DEF TypeOK
  <2> QED BY <2>1, <2>2 DEF on_disconnect, resume_pending
<1>6. TypeOK'
  BY <1>1, <1>2, <1>4, <1>5 DEF TypeOK, on_disconnect, endVars
<1>7. ParkedWillWake' /\ DrainedReleasesGuard'
  BY <1>4, <1>5 DEF ParkedWillWake, DrainedReleasesGuard, Releasing, on_disconnect, endVars
<1> QED BY <1>2, <1>3, <1>6, <1>7

\* What the handlers of posted tasks have in common.
LEMMA TaskTaken ==
  ASSUME IInv, NEW op, Running(op)
  PROVE  /\ tasks # << >> /\ Tail(tasks) \in Seq(Tasks)
         /\ Head(tasks) \in Tasks /\ Head(tasks).op = op
         /\ Releasing(tasks) /\ op # "reset_guard" => Releasing(Tail(tasks))
<1>1. tasks # << >> /\ Head(tasks).op = op /\ tasks \in Seq(Tasks)
  BY DEF Running, IInv, TypeOK
<1>2. op # "reset_guard" => Head(tasks) # ResetGuardTask
  BY <1>1 DEF ResetGuardTask
<1> QED BY <1>1, <1>2, TakeTask

\* The argument of a task is what its type says.
LEMMA TaskArgument ==
  ASSUME NEW t \in Tasks
  PROVE  /\ t.op = "accept" => t.arg \in Listeners
         /\ t.op = "start" => t.arg \in Connections
BY DEF Tasks, ShutdownTask, StopTask, ResetGuardTask

\* The posted tasks.
LEMMA TaskStep ==
  ASSUME IInv, RunTask
  PROVE  IInv'
<1> USE DEF IInv
<1>1. CASE run_accept
  <2>1. Arg \in Listeners /\ tasks' \in Seq(Tasks) /\ (Releasing(tasks) => Releasing(tasks'))
    BY <1>1, TaskTaken, TaskArgument DEF run_accept, Arg
  <2>2. TypeOK'
    BY <1>1, <2>1 DEF TypeOK, run_accept, connVars, endVars
  <2>3. DrainedReleasesGuard' /\ ParkedWillWake'
    BY <1>1, <2>1 DEF DrainedReleasesGuard, ParkedWillWake, Releasing, run_accept, connVars, endVars
  <2> QED BY <1>1, <2>2, <2>3, ConnectionsKept DEF run_accept
<1>2. CASE run_start
  <2>1. Arg \in Connections /\ tasks' \in Seq(Tasks) /\ (Releasing(tasks) => Releasing(tasks'))
    BY <1>2, TaskTaken, TaskArgument DEF run_start, Arg
  <2>2. TypeOK'
    BY <1>2, <2>1 DEF TypeOK, run_start, listenVars, endVars
  <2>3. DrainedReleasesGuard' /\ ParkedWillWake'
    BY <1>2, <2>1 DEF DrainedReleasesGuard, ParkedWillWake, Releasing, run_start, listenVars, endVars
  <2>4. Accounting' /\ MapIsPast'
    BY <1>2 DEF Accounting, MapIsPast, run_start
  <2> QED BY <2>2, <2>3, <2>4
<1>3. CASE run_shutdown
  <2>1. tasks' \in Seq(Tasks)
    BY <1>3, TaskTaken DEF run_shutdown
  <2>2. TypeOK'
    BY <1>3, <2>1, EmptySeq DEF TypeOK, run_shutdown, close_acceptors, connVars
  <2>3. DrainedReleasesGuard' /\ ParkedWillWake'
    BY <1>3 DEF DrainedReleasesGuard, ParkedWillWake, run_shutdown, close_acceptors, connVars
  <2> QED BY <1>3, <2>2, <2>3, ConnectionsKept DEF run_shutdown
<1>4. CASE run_stop
  <2> DEFINE n == Cardinality({c \in connection_map_ : Live(c)})
             more == [i \in 1 .. n |-> ResetGuardTask]
  <2>1. n \in Nat
    BY ConnectionsFinite DEF TypeOK
  <2> HIDE DEF n
  <2>2. more \in Seq(Tasks)
    BY <2>1, TaskTypes, IsASeq
  <2>3. tasks' = Tail(tasks) \o more
    BY <1>4 DEF run_stop, n
  <2> HIDE DEF more
  <2>4. tasks' \in Seq(Tasks)
    BY <1>4, <2>2, <2>3, TaskTaken, ConcatProperties DEF run_stop
  <2>5. conn' \in [Connections -> {"none", "accepted", "open", "closed"}]
    BY <1>4 DEF TypeOK, run_stop
  <2>6. TypeOK'
    BY <1>4, <2>4, <2>5, EmptySeq DEF TypeOK, run_stop, close_acceptors
  <2>7. Accounting' /\ MapIsPast'
    BY <1>4, FS_EmptySet DEF Accounting, MapIsPast, run_stop
  <2>8. DrainedReleasesGuard' /\ ParkedWillWake'
    BY <1>4 DEF DrainedReleasesGuard, ParkedWillWake, run_stop, close_acceptors
  <2> QED BY <2>6, <2>7, <2>8
<1>5. CASE run_reset_guard
  <2>1. tasks' \in Seq(Tasks)
    BY <1>5, TaskTaken DEF run_reset_guard
  <2>2. TypeOK'
    BY <1>5, <2>1 DEF TypeOK, run_reset_guard, listenVars, connVars
  <2>3. DrainedReleasesGuard' /\ ParkedWillWake'
    BY <1>5 DEF DrainedReleasesGuard, ParkedWillWake, run_reset_guard, listenVars, connVars
  <2> QED BY <1>5, <2>2, <2>3, ConnectionsKept DEF run_reset_guard
<1> QED BY <1>1, <1>2, <1>3, <1>4, <1>5 DEF RunTask

\* Every step keeps the invariant.
LEMMA NextInv == IInv /\ [Next]_vars => IInv'
<1> SUFFICES ASSUME IInv, [Next]_vars PROVE IInv'
  OBVIOUS
<1>1. CASE listen \/ listen_fails \/ shutdown \/ stop
  BY <1>1, OwnerStep
<1>2. CASE \E l \in Listeners : on_async_accept(l) \/ accept_cancelled(l) \/ accept_error(l)
  BY <1>2, AcceptStep
<1>3. CASE \E c \in Connections : on_disconnect(c)
  BY <1>3, DisconnectStep
<1>4. CASE RunTask
  BY <1>4, TaskStep
<1>5. CASE run_returns
  <2>1. TypeOK'
    BY <1>5 DEF IInv, TypeOK, run_returns, listenVars, connVars
  <2>2. DrainedReleasesGuard' /\ ParkedWillWake'
    BY <1>5 DEF IInv, DrainedReleasesGuard, ParkedWillWake, run_returns, listenVars, connVars
  <2> QED BY <1>5, <2>1, <2>2, ConnectionsKept DEF run_returns
<1>6. CASE UNCHANGED vars
  <2>1. TypeOK'
    BY <1>6 DEF IInv, TypeOK, vars, listenVars, connVars, endVars
  <2>2. DrainedReleasesGuard' /\ ParkedWillWake'
    BY <1>6 DEF IInv, DrainedReleasesGuard, ParkedWillWake, vars, listenVars, connVars, endVars
  <2> QED BY <1>6, <2>1, <2>2, ConnectionsKept DEF vars
<1> QED BY <1>1, <1>2, <1>3, <1>4, <1>5, <1>6 DEF Next

\* The invariant holds in every reachable state.
LEMMA Invariance == Spec => []IInv
BY InitInv, NextInv, PTL DEF Spec

-----------------------------------------------------------------------------
(* What follows. *)

\* The DCHECK_EQ of on_accept and on_disconnect: the counter is the size of
\* the map, through accepts, disconnects and stop(), which empties both.
THEOREM AccountingCorrect == Spec => []Accounting
<1>1. IInv => Accounting
  BY DEF IInv
<1> QED BY <1>1, Invariance, PTL

\* The accept loop is never suspended for good: while a listener is parked a
\* connection is open, whose end will wake it.
THEOREM ParkedCorrect == Spec => []ParkedWillWake
<1>1. IInv => ParkedWillWake
  BY DEF IInv
<1> QED BY <1>1, Invariance, PTL

\* A server in shutdown with no connection left has let go of its guard, or
\* the task that will is posted: run() is not kept from returning.
THEOREM DrainedCorrect == Spec => []DrainedReleasesGuard
<1>1. IInv => DrainedReleasesGuard
  BY DEF IInv
<1> QED BY <1>1, Invariance, PTL

-----------------------------------------------------------------------------
(* A second invariant, on top of the first. *)

\* Task t is posted in s.
Has(s, t) == \E i \in DOMAIN s : s[i] = t

\* A connection is started once.
StartsOnce(s) == \A i, j \in DOMAIN s : s[i].op = "start" /\ s[i] = s[j] => i = j

\* The first accept of a listener is posted before any request to end.
AcceptsFirst(s) ==
  \A i, j \in DOMAIN s : s[i].op = "accept" /\ j < i => s[j].op \notin {"shutdown", "stop"}

\* The connections that have been accepted and not started are those whose
\* start is posted; ids are not used twice.
Starts ==
  /\ \A c \in Connections : c >= next_connection_id_ => conn[c] = "none"
  /\ \A c \in Connections : Has(tasks, StartTask(c)) <=> conn[c] = "accepted"
  /\ StartsOnce(tasks)

\* An accept that is posted will find its acceptor: shutdown() and stop(), whose
\* tasks come later, are what resets it.
Accepts ==
  /\ \A l \in Listeners : Has(tasks, AcceptTask(l)) => acceptor[l] = "open" /\ ~in_shutdown_
  /\ AcceptsFirst(tasks)
  /\ requests = 0 => ~in_shutdown_ /\ ~Has(tasks, ShutdownTask) /\ ~Has(tasks, StopTask)

\* After stop() the map stays empty; after run() has returned nothing happens.
Ended ==
  /\ stopped => in_shutdown_ /\ connection_map_ = {}
  /\ returned => OutOfWork

\* The accepts of listener l in their three forms.
AcceptsOf(l) ==
  accepting[l] + Occurrences(tasks, AcceptTask(l)) + Occurrences(pending_next_listen_ctxes_, l)

\* A listener that listens has at most one, another none.
AcceptsInOrder == \A l \in Listeners : AcceptsOf(l) <= IF l < next_listen_ctx_ THEN 1 ELSE 0

\* How many connections have closed.
ClosedCount == Cardinality({c \in Connections : conn[c] = "closed"})

\* What opened_connections_ may come to: the limit, the listeners that are not
\* parked, and as many for each connection that has closed.
Limit ==
  (IF parallel_max = 0 THEN 1 ELSE parallel_max) + (MaxListeners - 1) * (1 + ClosedCount)

\* Every listener that is not parked may add one connection to those that are
\* open, until the server is in shutdown.
Budget ==
  /\ opened_connections_ <= Limit
  /\ ~in_shutdown_ =>
       opened_connections_ + MaxListeners <= Limit + Len(pending_next_listen_ctxes_)

\* The second inductive invariant.
AInv == Starts /\ Accepts /\ Ended /\ AcceptsInOrder /\ Budget /\ Tracked

-----------------------------------------------------------------------------
(* Sequences of tasks. *)

\* A task by its kind.
LEMMA TaskKinds ==
  ASSUME NEW t \in Tasks
  PROVE  /\ t.op = "shutdown" <=> t = ShutdownTask
         /\ t.op = "stop" <=> t = StopTask
         /\ t.op = "reset_guard" <=> t = ResetGuardTask
         /\ t.op = "accept" => t.arg \in Listeners /\ t = AcceptTask(t.arg)
         /\ t.op = "start" => t.arg \in Connections /\ t = StartTask(t.arg)
         /\ t.op \in {"accept", "start", "shutdown", "stop", "reset_guard"}
BY DEF Tasks, AcceptTask, StartTask, ShutdownTask, StopTask, ResetGuardTask

\* The elements of a sequence with one more.
LEMMA AppendElements ==
  ASSUME NEW S, NEW s \in Seq(S), NEW t \in S
  PROVE  /\ Append(s, t) \in Seq(S)
         /\ Len(s) \in Nat /\ DOMAIN s = 1 .. Len(s)
         /\ DOMAIN Append(s, t) = 1 .. Len(s) + 1
         /\ \A i \in 1 .. Len(s) : Append(s, t)[i] = s[i]
         /\ Append(s, t)[Len(s) + 1] = t
<1>1. /\ Append(s, t) \in Seq(S) /\ Len(Append(s, t)) = Len(s) + 1
      /\ \A i \in 1 .. Len(s) : Append(s, t)[i] = s[i]
      /\ Append(s, t)[Len(s) + 1] = t
  BY AppendProperties
<1> QED BY <1>1, LenProperties

\* The elements of a sequence without its first.
LEMMA TailElements ==
  ASSUME NEW S, NEW s \in Seq(S), s # << >>
  PROVE  /\ Tail(s) \in Seq(S) /\ Head(s) \in S
         /\ Len(s) \in Nat \ {0} /\ DOMAIN s = 1 .. Len(s)
         /\ DOMAIN Tail(s) = 1 .. Len(s) - 1
         /\ \A i \in 1 .. Len(s) - 1 : Tail(s)[i] = s[i + 1]
         /\ s[1] = Head(s)
<1>1. /\ Head(s) \in S /\ Tail(s) \in Seq(S) /\ Len(Tail(s)) = Len(s) - 1
      /\ \A i \in 1 .. Len(Tail(s)) : Tail(s)[i] = s[i + 1]
  BY HeadTailProperties
<1>2. Len(s) \in Nat /\ DOMAIN s = 1 .. Len(s) /\ Len(s) # 0
  BY LenProperties, EmptySeq
<1> QED BY <1>1, <1>2, LenProperties

\* Posting a task.
LEMMA HasAppend ==
  ASSUME NEW s \in Seq(Tasks), NEW t \in Tasks
  PROVE  /\ \A u : Has(Append(s, t), u) <=> Has(s, u) \/ u = t
         /\ StartsOnce(s) /\ (t.op = "start" => ~Has(s, t)) => StartsOnce(Append(s, t))
         /\ AcceptsFirst(s) /\ (t.op = "accept" => ~Has(s, ShutdownTask) /\ ~Has(s, StopTask))
              => AcceptsFirst(Append(s, t))
<1> DEFINE a == Append(s, t)
           n == Len(s)
<1>1. /\ n \in Nat /\ DOMAIN s = 1 .. n /\ DOMAIN a = 1 .. n + 1
      /\ \A i \in 1 .. n : a[i] = s[i]
      /\ a[n + 1] = t
  BY AppendElements
<1>2. \A i \in 1 .. n : s[i] \in Tasks
  BY ElementOfSeq
<1> HIDE DEF a, n
<1>3. \A u : Has(a, u) <=> Has(s, u) \/ u = t
  BY <1>1 DEF Has
<1>4. ASSUME StartsOnce(s), t.op = "start" => ~Has(s, t) PROVE StartsOnce(a)
  BY <1>1, <1>4 DEF StartsOnce, Has
<1>5. ASSUME AcceptsFirst(s), t.op = "accept" => ~Has(s, ShutdownTask) /\ ~Has(s, StopTask)
      PROVE  AcceptsFirst(a)
  <2> SUFFICES ASSUME NEW i \in DOMAIN a, NEW j \in DOMAIN a, a[i].op = "accept", j < i
               PROVE  a[j].op \notin {"shutdown", "stop"}
    BY DEF AcceptsFirst
  <2>1. j \in 1 .. n /\ a[j] = s[j]
    BY <1>1
  <2>2. CASE i \in 1 .. n
    BY <1>1, <1>5, <2>1, <2>2 DEF AcceptsFirst
  <2>3. CASE i = n + 1
    <3>1. ~Has(s, ShutdownTask) /\ ~Has(s, StopTask)
      BY <1>1, <1>5, <2>3
    <3> QED BY <1>1, <1>2, <2>1, <3>1, TaskKinds DEF Has
  <2> QED BY <1>1, <2>2, <2>3
<1> QED BY <1>3, <1>4, <1>5 DEF a

\* Taking the first task.
LEMMA HasTail ==
  ASSUME NEW s \in Seq(Tasks), s # << >>
  PROVE  /\ \A u : Has(s, u) <=> Has(Tail(s), u) \/ u = Head(s)
         /\ StartsOnce(s) => /\ StartsOnce(Tail(s))
                             /\ Head(s).op = "start" => ~Has(Tail(s), Head(s))
         /\ AcceptsFirst(s) => /\ AcceptsFirst(Tail(s))
                               /\ Head(s).op \in {"shutdown", "stop"} =>
                                    \A l \in Listeners : ~Has(Tail(s), AcceptTask(l))
<1> DEFINE a == Tail(s)
           h == Head(s)
           n == Len(s)
<1>1. /\ n \in Nat \ {0} /\ DOMAIN s = 1 .. n /\ DOMAIN a = 1 .. n - 1
      /\ \A i \in 1 .. n - 1 : a[i] = s[i + 1]
      /\ s[1] = h
  BY TailElements
<1> HIDE DEF a, n, h
<1>2. ASSUME NEW u PROVE Has(s, u) <=> Has(a, u) \/ u = h
  <2>1. ASSUME Has(a, u) PROVE Has(s, u)
    <3>1. PICK i \in 1 .. n - 1 : a[i] = u
      BY <1>1, <2>1 DEF Has
    <3>2. i + 1 \in DOMAIN s /\ s[i + 1] = u
      BY <1>1, <3>1
    <3> QED BY <3>2 DEF Has
  <2>2. ASSUME Has(s, u), u # h PROVE Has(a, u)
    <3>1. PICK i \in 1 .. n : s[i] = u
      BY <1>1, <2>2 DEF Has
    <3>2. i # 1
      BY <1>1, <2>2, <3>1
    <3>3. i - 1 \in DOMAIN a /\ a[i - 1] = u
      BY <1>1, <3>1, <3>2
    <3> QED BY <3>3 DEF Has
  <2>3. Has(s, h)
    BY <1>1 DEF Has
  <2> QED BY <2>1, <2>2, <2>3
<1>3. ASSUME StartsOnce(s) PROVE StartsOnce(a) /\ (h.op = "start" => ~Has(a, h))
  <2>1. StartsOnce(a)
    <3> SUFFICES ASSUME NEW i \in DOMAIN a, NEW j \in DOMAIN a, a[i].op = "start", a[i] = a[j]
                 PROVE  i = j
      BY DEF StartsOnce
    <3>1. i + 1 \in DOMAIN s /\ j + 1 \in DOMAIN s /\ s[i + 1] = a[i] /\ s[j + 1] = a[j]
      BY <1>1
    <3>2. i + 1 = j + 1
      BY <1>3, <3>1 DEF StartsOnce
    <3> QED BY <1>1, <3>2
  <2>2. ASSUME h.op = "start", NEW i \in DOMAIN a, a[i] = h PROVE FALSE
    <3>1. i + 1 \in DOMAIN s /\ 1 \in DOMAIN s /\ s[i + 1] = s[1] /\ s[1].op = "start" /\ i + 1 # 1
      BY <1>1, <2>2
    <3> QED BY <1>3, <3>1 DEF StartsOnce
  <2> QED BY <2>1, <2>2 DEF Has
<1>4. ASSUME AcceptsFirst(s)
      PROVE  /\ AcceptsFirst(a)
             /\ h.op \in {"shutdown", "stop"} => \A l \in Listeners : ~Has(a, AcceptTask(l))
  <2>1. AcceptsFirst(a)
    <3> SUFFICES ASSUME NEW i \in DOMAIN a, NEW j \in DOMAIN a, a[i].op = "accept", j < i
                 PROVE  a[j].op \notin {"shutdown", "stop"}
      BY DEF AcceptsFirst
    <3>1. /\ i + 1 \in DOMAIN s /\ j + 1 \in DOMAIN s /\ s[i + 1] = a[i] /\ s[j + 1] = a[j]
          /\ j + 1 < i + 1
      BY <1>1
    <3> QED BY <1>4, <3>1 DEF AcceptsFirst
  <2>2. ASSUME h.op \in {"shutdown", "stop"}, NEW l \in Listeners, Has(a, AcceptTask(l)) PROVE FALSE
    <3>1. PICK i \in DOMAIN a : a[i] = AcceptTask(l)
      BY <2>2 DEF Has
    <3>2. i + 1 \in DOMAIN s /\ 1 \in DOMAIN s /\ 1 < i + 1 /\ s[i + 1] = AcceptTask(l)
      BY <1>1, <3>1
    <3>3. s[i + 1].op = "accept"
      BY <3>2 DEF AcceptTask
    <3> QED BY <1>1, <1>4, <2>2, <3>2, <3>3 DEF AcceptsFirst
  <2> QED BY <2>1, <2>2
<1> QED BY <1>2, <1>3, <1>4 DEF a, h

\* What stop() posts.
Releases(n) == [i \in 1 .. n |-> ResetGuardTask]

\* Posting releases of the guard.
LEMMA HasReleases ==
  ASSUME NEW s \in Seq(Tasks), NEW n \in Nat, NEW r, r = s \o Releases(n)
  PROVE  /\ r \in Seq(Tasks) /\ DOMAIN r = 1 .. Len(s) + n
         /\ \A i \in 1 .. Len(s) + n : r[i] = IF i <= Len(s) THEN s[i] ELSE ResetGuardTask
         /\ \A u : u # ResetGuardTask => (Has(r, u) <=> Has(s, u))
         /\ StartsOnce(s) => StartsOnce(r)
         /\ AcceptsFirst(s) => AcceptsFirst(r)
<1> DEFINE m == Len(s)
           q == Releases(n)
<1>1. q \in Seq(Tasks) /\ Len(q) = n /\ \A i \in 1 .. n : q[i] = ResetGuardTask
  BY TaskTypes DEF Releases
<1>2. m \in Nat /\ DOMAIN s = 1 .. m
  BY LenProperties
<1>3. /\ r \in Seq(Tasks) /\ Len(r) = m + n
      /\ \A i \in 1 .. m + n : r[i] = IF i <= m THEN s[i] ELSE q[i - m]
  BY <1>1, ConcatProperties
<1>4. DOMAIN r = 1 .. m + n /\ \A i \in 1 .. m + n : r[i] = IF i <= m THEN s[i] ELSE ResetGuardTask
  BY <1>1, <1>2, <1>3, LenProperties
<1> HIDE DEF m
<1>5. \A u : u # ResetGuardTask => (Has(r, u) <=> Has(s, u))
  BY <1>2, <1>4 DEF Has
<1>6. ResetGuardTask.op = "reset_guard"
  BY DEF ResetGuardTask
<1>7. ASSUME StartsOnce(s) PROVE StartsOnce(r)
  BY <1>2, <1>4, <1>6, <1>7 DEF StartsOnce
<1>8. ASSUME AcceptsFirst(s) PROVE AcceptsFirst(r)
  BY <1>2, <1>4, <1>6, <1>8 DEF AcceptsFirst
<1> QED BY <1>3, <1>4, <1>5, <1>7, <1>8 DEF m

-----------------------------------------------------------------------------
(* Counting the occurrences of an element. *)

\* A count is a number.
LEMMA OccurrencesType ==
  ASSUME NEW S, NEW s \in Seq(S), NEW x
  PROVE  Occurrences(s, x) \in Nat
BY CountType DEF Occurrences

\* Nothing occurs in the empty sequence.
LEMMA OccurrencesEmpty == \A x : Occurrences(<< >>, x) = 0
<1>1. \A x : {i \in DOMAIN << >> : << >>[i] = x} = {}
  OBVIOUS
<1> QED BY <1>1, FS_EmptySet DEF Occurrences

\* One more element occurs once more.
LEMMA OccurrencesAppend ==
  ASSUME NEW S, NEW s \in Seq(S), NEW t \in S, NEW x
  PROVE  Occurrences(Append(s, t), x) = Occurrences(s, x) + IF t = x THEN 1 ELSE 0
<1> DEFINE P == {i \in DOMAIN s : s[i] = x}
           Q == {i \in DOMAIN Append(s, t) : Append(s, t)[i] = x}
           n == Len(s)
<1>1. /\ n \in Nat /\ DOMAIN s = 1 .. n /\ DOMAIN Append(s, t) = 1 .. n + 1
      /\ \A i \in 1 .. n : Append(s, t)[i] = s[i]
      /\ Append(s, t)[n + 1] = t
  BY AppendElements
<1>2. IsFiniteSet(P) /\ Cardinality(P) \in Nat
  <2>1. IsFiniteSet(1 .. n)
    BY <1>1, FS_Interval
  <2>2. P \subseteq 1 .. n
    BY <1>1
  <2> QED BY <2>1, <2>2, FS_Subset, FS_CardinalityType
<1>3. CASE t = x
  <2>1. Q = P \cup {n + 1} /\ n + 1 \notin P
    BY <1>1, <1>3
  <2> HIDE DEF P, Q
  <2>2. Cardinality(Q) = Cardinality(P) + 1
    BY <2>1, <1>2, FS_AddElement
  <2> QED BY <2>2, <1>3 DEF P, Q, Occurrences
<1>4. CASE t # x
  <2>1. Q = P
    BY <1>1, <1>4
  <2> HIDE DEF P, Q
  <2>2. Cardinality(Q) = Cardinality(P) + 0
    BY <2>1, <1>2
  <2> QED BY <2>2, <1>4 DEF P, Q, Occurrences
<1> QED BY <1>3, <1>4

\* The first element occurs once less in the tail.
LEMMA OccurrencesTail ==
  ASSUME NEW S, NEW s \in Seq(S), s # << >>, NEW x
  PROVE  Occurrences(s, x) = Occurrences(Tail(s), x) + IF Head(s) = x THEN 1 ELSE 0
<1> DEFINE P == {i \in DOMAIN s : s[i] = x}
           Q == {i \in DOMAIN Tail(s) : Tail(s)[i] = x}
           R == P \ {1}
           n == Len(s)
           f == [i \in R |-> i - 1]
<1>1. /\ n \in Nat \ {0} /\ DOMAIN s = 1 .. n /\ DOMAIN Tail(s) = 1 .. n - 1
      /\ \A i \in 1 .. n - 1 : Tail(s)[i] = s[i + 1]
      /\ s[1] = Head(s)
  BY TailElements
<1>2. R \subseteq 2 .. n /\ \A i \in R : s[i] = x
  BY <1>1
<1>3. f \in [R -> Q]
  BY <1>1, <1>2
<1>4. f \in Injection(R, Q)
  BY <1>2, <1>3 DEF Injection, IsInjective
<1>5. f \in Surjection(R, Q)
  <2>1. ASSUME NEW j \in Q PROVE \E i \in R : f[i] = j
    <3>1. j \in 1 .. n - 1 /\ s[j + 1] = x
      BY <1>1
    <3>2. j + 1 \in R /\ f[j + 1] = j
      BY <3>1, <1>1
    <3> QED BY <3>2
  <2> QED BY <1>3, <2>1 DEF Surjection
<1>6. ExistsBijection(R, Q)
  BY <1>4, <1>5 DEF ExistsBijection, Bijection
<1>7. IsFiniteSet(P) /\ Cardinality(P) \in Nat
  <2>1. IsFiniteSet(1 .. n)
    BY <1>1, FS_Interval
  <2>2. P \subseteq 1 .. n
    BY <1>1
  <2> QED BY <2>1, <2>2, FS_Subset, FS_CardinalityType
<1>8. 1 \in P <=> Head(s) = x
  BY <1>1
<1> HIDE DEF P, Q
<1>9. IsFiniteSet(R) /\ Cardinality(R) = IF 1 \in P THEN Cardinality(P) - 1 ELSE Cardinality(P)
  BY <1>7, FS_RemoveElement
<1>10. Cardinality(Q) = Cardinality(R)
  BY <1>6, <1>9, FS_Bijection
<1>11. Cardinality(P) = Cardinality(Q) + IF Head(s) = x THEN 1 ELSE 0
  BY <1>7, <1>8, <1>9, <1>10
<1> QED BY <1>11 DEF P, Q, Occurrences

\* Releases of the guard are no accepts.
LEMMA OccurrencesReleases ==
  ASSUME NEW s \in Seq(Tasks), NEW n \in Nat, NEW r, r = s \o Releases(n),
         NEW x, x # ResetGuardTask
  PROVE  Occurrences(r, x) = Occurrences(s, x)
<1>1. /\ DOMAIN r = 1 .. Len(s) + n
      /\ \A i \in 1 .. Len(s) + n : r[i] = IF i <= Len(s) THEN s[i] ELSE ResetGuardTask
  BY HasReleases
<1>2. Len(s) \in Nat /\ DOMAIN s = 1 .. Len(s)
  BY LenProperties
<1>3. {i \in DOMAIN r : r[i] = x} = {i \in DOMAIN s : s[i] = x}
  BY <1>1, <1>2
<1> QED BY <1>3 DEF Occurrences

\* A sequence of listeners in which none occurs twice is no longer than there
\* are listeners.
LEMMA ParkedFew ==
  ASSUME NEW s \in Seq(Listeners), \A l \in Listeners : Occurrences(s, l) <= 1
  PROVE  Len(s) <= MaxListeners
<1>1. Len(s) \in Nat /\ DOMAIN s = 1 .. Len(s) /\ s \in [1 .. Len(s) -> Listeners]
  BY LenProperties
<1>2. s \in Injection(1 .. Len(s), Listeners)
  <2> SUFFICES ASSUME NEW i \in 1 .. Len(s), NEW j \in 1 .. Len(s), s[i] = s[j], i # j
               PROVE  FALSE
    BY <1>1 DEF Injection, IsInjective
  <2> DEFINE P == {k \in DOMAIN s : s[k] = s[i]}
             D == {i} \cup {j}
  <2>1. IsFiniteSet(P) /\ D \subseteq P
    <3>1. IsFiniteSet(1 .. Len(s)) /\ P \subseteq 1 .. Len(s)
      BY <1>1, FS_Interval
    <3> QED BY <1>1, <3>1, FS_Subset
  <2>2. Cardinality(P) <= 1
    <3>1. s[i] \in Listeners
      BY <1>1
    <3> QED BY <3>1 DEF Occurrences
  <2>3. IsFiniteSet({i}) /\ Cardinality({i}) = 1 /\ j \notin {i}
    BY FS_Singleton
  <2>4. Cardinality(D) = Cardinality({i}) + 1
    BY <2>3, FS_AddElement
  <2> HIDE DEF P, D
  <2>5. Cardinality(D) <= Cardinality(P) /\ Cardinality(P) \in Nat
    BY <2>1, FS_Subset, FS_CardinalityType
  <2> QED BY <2>2, <2>3, <2>4, <2>5
<1>3. IsFiniteSet(1 .. Len(s)) /\ Cardinality(1 .. Len(s)) = Len(s)
  BY <1>1, FS_Interval
<1>4. IsFiniteSet(Listeners) /\ Cardinality(Listeners) = MaxListeners
  BY MaxListenersAssumption, FS_Interval DEF Listeners
<1>5. Cardinality(1 .. Len(s)) <= Cardinality(Listeners)
  BY <1>2, <1>3, <1>4, FS_Injection DEF ExistsInjection
<1> QED BY <1>3, <1>4, <1>5

-----------------------------------------------------------------------------
(* The second invariant holds initially and is kept by every action. *)

\* The tasks that are posted are told apart.
LEMMA TasksApart ==
  /\ \A l, m : AcceptTask(l) = AcceptTask(m) <=> l = m
  /\ \A c, d : StartTask(c) = StartTask(d) <=> c = d
  /\ \A l, c : AcceptTask(l) # StartTask(c)
  /\ \A l : AcceptTask(l) \notin {ShutdownTask, StopTask, ResetGuardTask}
  /\ \A c : StartTask(c) \notin {ShutdownTask, StopTask, ResetGuardTask}
  /\ ShutdownTask # StopTask /\ ShutdownTask # ResetGuardTask /\ StopTask # ResetGuardTask
  /\ \A l : AcceptTask(l).op = "accept" /\ \A c : StartTask(c).op = "start"
  /\ ShutdownTask.op = "shutdown" /\ StopTask.op = "stop" /\ ResetGuardTask.op = "reset_guard"
BY DEF AcceptTask, StartTask, ShutdownTask, StopTask, ResetGuardTask

\* The bound is a number, and it is no less than what one listener may reach.
LEMMA LimitType ==
  ASSUME TypeOK
  PROVE  /\ ClosedCount \in Nat /\ Limit \in Nat
         /\ Limit >= (IF parallel_max = 0 THEN 1 ELSE parallel_max) + (MaxListeners - 1)
<1>1. ClosedCount \in Nat
  BY ConnectionsFinite DEF ClosedCount
<1> DEFINE k == MaxListeners - 1
           p == IF parallel_max = 0 THEN 1 ELSE parallel_max
<1>2. k \in Nat /\ p \in Nat
  BY MaxListenersAssumption, ParallelMaxAssumption
<1>3. Limit = p + k * (1 + ClosedCount)
  BY DEF Limit
<1> HIDE DEF k, p
<1>4. k * (1 + ClosedCount) = k + k * ClosedCount /\ k * ClosedCount \in Nat
  BY <1>1, <1>2
<1>5. Limit \in Nat /\ Limit >= p + k
  <2> DEFINE z == k * ClosedCount
  <2>1. Limit = p + (k + z) /\ z \in Nat
    BY <1>3, <1>4
  <2> HIDE DEF z
  <2> QED BY <1>2, <2>1
<1> QED BY <1>1, <1>5 DEF k, p

\* No listener is parked twice.
LEMMA ParkedOnce ==
  ASSUME NEW a \in [Listeners -> Nat], NEW s \in Seq(Tasks), NEW q \in Seq(Listeners),
         \A l \in Listeners : a[l] + Occurrences(s, AcceptTask(l)) + Occurrences(q, l) <= 1
  PROVE  Len(q) \in Nat /\ Len(q) <= MaxListeners
<1>1. \A l \in Listeners : Occurrences(q, l) <= 1
  <2> TAKE l \in Listeners
  <2>1. /\ a[l] \in Nat /\ Occurrences(s, AcceptTask(l)) \in Nat /\ Occurrences(q, l) \in Nat
    BY OccurrencesType
  <2> QED BY <2>1
<1> QED BY <1>1, ParkedFew, LenProperties

\* Init establishes the second invariant.
LEMMA InitAInv == Init => AInv
<1> SUFFICES ASSUME Init PROVE AInv
  OBVIOUS
<1>1. TypeOK
  BY InitInv DEF IInv
<1>2. DOMAIN tasks = {}
  BY DEF Init
<1>3. Starts /\ Accepts /\ Ended
  <2>1. Starts
    BY <1>2 DEF Init, Starts, Has, StartsOnce
  <2>2. Accepts
    BY <1>2 DEF Init, Accepts, Has, AcceptsFirst
  <2>3. Ended
    BY DEF Init, Ended
  <2> QED BY <2>1, <2>2, <2>3
<1>4. AcceptsInOrder
  BY OccurrencesEmpty DEF Init, AcceptsInOrder, AcceptsOf
<1>5. Budget
  <2>1. Limit >= 1 + (MaxListeners - 1)
    BY <1>1, LimitType, ParallelMaxAssumption, MaxListenersAssumption
  <2>2. opened_connections_ = 0 /\ Len(pending_next_listen_ctxes_) = 0
    BY DEF Init
  <2> QED BY <1>1, <2>1, <2>2, LimitType, MaxListenersAssumption DEF Budget
<1>6. Tracked
  BY DEF Init, Tracked
<1> QED BY <1>3, <1>4, <1>5, <1>6 DEF AInv

\* A server whose run() has returned takes no step.
LEMMA NoStepAfterReturn ==
  ASSUME IInv, AInv, Next
  PROVE  ~returned
<1> SUFFICES ASSUME returned PROVE FALSE
  OBVIOUS
<1>1. OutOfWork
  BY DEF AInv, Ended
<1>2. ~RunTask
  BY <1>1 DEF OutOfWork, RunTask, Running, run_accept, run_start, run_shutdown, run_stop,
              run_reset_guard
<1>3. \A l \in Listeners : ~(on_async_accept(l) \/ accept_cancelled(l) \/ accept_error(l))
  <2>1. \A l \in Listeners : ~(accepting[l] > 0)
    BY <1>1 DEF OutOfWork
  <2> QED BY <2>1 DEF on_async_accept, accept_cancelled, accept_error
<1>4. \A c \in Connections : ~on_disconnect(c)
  BY <1>1 DEF OutOfWork, on_disconnect
<1> QED BY <1>2, <1>3, <1>4 DEF Next, listen, listen_fails, shutdown, stop, run_returns

\* Calls of the owner.
LEMMA OwnerStepA ==
  ASSUME IInv, AInv, Next, TypeOK', listen \/ listen_fails \/ shutdown \/ stop
  PROVE  AInv'
<1>0. ~returned /\ TypeOK /\ tasks \in Seq(Tasks) /\ Ended
  BY NoStepAfterReturn DEF IInv, AInv, TypeOK
<1>1. ASSUME UNCHANGED <<connVars, in_shutdown_, stopped, returned, pending_next_listen_ctxes_>>
      PROVE  Ended' /\ Budget' /\ Tracked'
  BY <1>0, <1>1 DEF AInv, Ended, Budget, Limit, ClosedCount, Tracked, connVars
<1>2. CASE listen
  <2> DEFINE n == next_listen_ctx_
  <2>1. n \in Listeners /\ AcceptTask(n) \in Tasks
    BY <1>0, <1>2, TaskTypes, MaxListenersAssumption DEF TypeOK, listen, Listeners
  <2>2. tasks' = Append(tasks, AcceptTask(n)) /\ requests = 0 /\ UNCHANGED requests
    BY <1>2 DEF listen, endVars
  <2>3. ~in_shutdown_ /\ ~Has(tasks, ShutdownTask) /\ ~Has(tasks, StopTask)
    BY <2>2 DEF AInv, Accepts
  <2>4. /\ \A u : Has(tasks', u) <=> Has(tasks, u) \/ u = AcceptTask(n)
        /\ StartsOnce(tasks) => StartsOnce(tasks')
        /\ AcceptsFirst(tasks) => AcceptsFirst(tasks')
    BY <1>0, <2>1, <2>2, <2>3, HasAppend, TasksApart
  <2>5. Starts'
    BY <1>2, <2>4, TasksApart DEF AInv, Starts, listen, connVars
  <2>6. Accepts'
    <3>1. acceptor' = [acceptor EXCEPT ![n] = "open"] /\ UNCHANGED in_shutdown_
      BY <1>2 DEF listen, endVars
    <3>2. \A l \in Listeners : Has(tasks', AcceptTask(l)) => acceptor'[l] = "open" /\ ~in_shutdown_'
      BY <1>0, <2>1, <2>3, <2>4, <3>1, TasksApart DEF AInv, Accepts, TypeOK
    <3> QED BY <2>2, <2>3, <2>4, <3>1, <3>2, TasksApart DEF AInv, Accepts
  <2>7. AcceptsInOrder'
    <3>1. UNCHANGED <<accepting, pending_next_listen_ctxes_>> /\ n' = n + 1
      BY <1>2 DEF listen
    <3> SUFFICES ASSUME NEW l \in Listeners
                 PROVE  AcceptsOf(l)' <= IF l < n + 1 THEN 1 ELSE 0
      BY <3>1 DEF AcceptsInOrder
    <3>2. Occurrences(tasks', AcceptTask(l)) =
            Occurrences(tasks, AcceptTask(l)) + IF n = l THEN 1 ELSE 0
      BY <1>0, <2>1, <2>2, OccurrencesAppend, TasksApart
    <3>3. AcceptsOf(l)' = accepting[l] + Occurrences(tasks', AcceptTask(l))
                            + Occurrences(pending_next_listen_ctxes_, l)
      BY <3>1 DEF AcceptsOf
    <3>4. /\ accepting[l] \in Nat /\ Occurrences(tasks, AcceptTask(l)) \in Nat
          /\ Occurrences(pending_next_listen_ctxes_, l) \in Nat
      BY <1>0, OccurrencesType DEF TypeOK
    <3>5. AcceptsOf(l) <= IF l < n THEN 1 ELSE 0
      BY DEF AInv, AcceptsInOrder
    <3>6. n \in Nat /\ l \in Nat
      BY <1>0, MaxListenersAssumption DEF TypeOK, Listeners
    <3> QED BY <3>2, <3>3, <3>4, <3>5, <3>6 DEF AcceptsOf
  <2> QED BY <1>1, <1>2, <2>5, <2>6, <2>7 DEF AInv, listen, endVars
<1>3. CASE listen_fails
  <2>1. Starts' /\ AcceptsInOrder'
    BY <1>3 DEF AInv, Starts, AcceptsInOrder, AcceptsOf, listen_fails, connVars
  <2>2. Accepts'
    <3>1. acceptor' = [acceptor EXCEPT ![next_listen_ctx_] = "open"]
      BY <1>3 DEF listen_fails
    <3>2. \A l \in Listeners : acceptor[l] = "open" => acceptor'[l] = "open"
      BY <1>0, <3>1 DEF TypeOK
    <3> QED BY <1>3, <3>2 DEF AInv, Accepts, listen_fails, endVars
  <2> QED BY <1>1, <1>3, <2>1, <2>2 DEF AInv, listen_fails, endVars
<1>4. ASSUME NEW t \in {ShutdownTask, StopTask}, tasks' = Append(tasks, t), requests' = requests + 1,
             UNCHANGED <<listenVars, connVars, in_shutdown_, work_guard_, stopped, returned>>
      PROVE  AInv'
  <2>1. /\ \A u : Has(tasks', u) <=> Has(tasks, u) \/ u = t
        /\ StartsOnce(tasks) => StartsOnce(tasks')
        /\ AcceptsFirst(tasks) => AcceptsFirst(tasks')
    BY <1>0, <1>4, HasAppend, TasksApart, TaskTypes
  <2>2. Starts'
    BY <1>4, <2>1, TasksApart DEF AInv, Starts, connVars
  <2>3. Accepts'
    <3>1. requests' # 0
      BY <1>0, <1>4 DEF TypeOK
    <3>2. \A l \in Listeners : Has(tasks', AcceptTask(l)) => Has(tasks, AcceptTask(l))
      BY <2>1, TasksApart
    <3> QED BY <1>4, <2>1, <3>1, <3>2 DEF AInv, Accepts, listenVars
  <2>4. AcceptsInOrder'
    <3>1. \A l \in Listeners :
            Occurrences(tasks', AcceptTask(l)) = Occurrences(tasks, AcceptTask(l)) + 0
      BY <1>0, <1>4, OccurrencesAppend, TasksApart, TaskTypes
    <3>2. \A l \in Listeners : Occurrences(tasks, AcceptTask(l)) \in Nat
      BY <1>0, OccurrencesType
    <3>3. \A l \in Listeners : Occurrences(tasks', AcceptTask(l)) = Occurrences(tasks, AcceptTask(l))
      BY <3>1, <3>2
    <3> QED BY <1>4, <3>3 DEF AInv, AcceptsInOrder, AcceptsOf, listenVars
  <2> QED BY <1>1, <1>4, <2>2, <2>3, <2>4 DEF AInv, listenVars
<1> QED BY <1>2, <1>3, <1>4 DEF shutdown, stop

\* Completions of async_accept.
LEMMA AcceptStepA ==
  ASSUME IInv, AInv, Next, TypeOK', NEW l \in Listeners,
         on_async_accept(l) \/ accept_cancelled(l) \/ accept_error(l)
  PROVE  AInv'
<1>0. ~returned /\ TypeOK /\ tasks \in Seq(Tasks)
  BY NoStepAfterReturn DEF IInv, TypeOK
<1>1. CASE on_async_accept(l)
  <2> DEFINE c == next_connection_id_
             q == pending_next_listen_ctxes_
             full == opened_connections_' >= parallel_max
  <2>1. /\ c \in Connections /\ c \in Nat /\ StartTask(c) \in Tasks /\ conn[c] = "none"
        /\ accepting[l] \in Nat /\ accepting[l] > 0 /\ acceptor[l] = "open" /\ ~in_shutdown_
    <3>1. c \in Connections /\ c \in Nat
      BY <1>0, <1>1, MaxConnectionsAssumption DEF TypeOK, on_async_accept, Connections
    <3> QED BY <1>0, <1>1, <3>1, TaskTypes DEF on_async_accept, AInv, Starts, TypeOK
  <2>2. /\ tasks' = Append(tasks, StartTask(c)) /\ conn' = [conn EXCEPT ![c] = "accepted"]
        /\ connection_map_' = connection_map_ \union {c}
        /\ opened_connections_' = opened_connections_ + 1 /\ next_connection_id_' = c + 1
        /\ UNCHANGED <<acceptor, next_listen_ctx_, in_shutdown_, requests, stopped, returned>>
    BY <1>1 DEF on_async_accept, on_accept, endVars
  <2>3. ~Has(tasks, StartTask(c))
    BY <2>1 DEF AInv, Starts
  <2>4. /\ \A u : Has(tasks', u) <=> Has(tasks, u) \/ u = StartTask(c)
        /\ StartsOnce(tasks) => StartsOnce(tasks')
        /\ AcceptsFirst(tasks) => AcceptsFirst(tasks')
    BY <1>0, <2>1, <2>2, <2>3, HasAppend, TasksApart
  <2>5. Starts'
    <3>1. \A d \in Connections : conn'[d] = IF d = c THEN "accepted" ELSE conn[d]
      BY <1>0, <2>2 DEF TypeOK
    <3>2. \A d \in Connections : Has(tasks', StartTask(d)) <=> conn'[d] = "accepted"
      BY <2>1, <2>4, <3>1, TasksApart DEF AInv, Starts
    <3>3. \A d \in Connections : d >= c + 1 => conn'[d] = "none"
      <4> TAKE d \in Connections
      <4> HAVE d >= c + 1
      <4>1. d \in Nat /\ d >= c /\ d # c
        BY <2>1 DEF Connections
      <4> QED BY <3>1, <4>1 DEF AInv, Starts
    <3> QED BY <2>2, <2>4, <3>2, <3>3 DEF AInv, Starts
  <2>6. Accepts'
    BY <2>2, <2>4, TasksApart DEF AInv, Accepts
  <2>7. Ended'
    <3>1. ~stopped
      BY <2>1 DEF AInv, Ended
    <3> QED BY <1>0, <2>2, <3>1 DEF Ended
  <2>8. Tracked'
    <3>1. connection_map_ = {d \in Connections : conn[d] \in {"accepted", "open"}}
      BY <2>1 DEF AInv, Ended, Tracked
    <3> QED BY <1>0, <2>1, <2>2, <3>1 DEF Tracked, TypeOK
  <2>9. AcceptsInOrder'
    <3> SUFFICES ASSUME NEW k \in Listeners
                 PROVE  AcceptsOf(k)' <= IF k < next_listen_ctx_ THEN 1 ELSE 0
      BY <2>2 DEF AcceptsInOrder
    <3>1. Occurrences(tasks', AcceptTask(k)) = Occurrences(tasks, AcceptTask(k)) + 0
      BY <1>0, <2>1, <2>2, OccurrencesAppend, TasksApart
    <3>2. /\ accepting[k] \in Nat /\ Occurrences(tasks, AcceptTask(k)) \in Nat
          /\ Occurrences(q, k) \in Nat
      BY <1>0, OccurrencesType DEF TypeOK
    <3>3. accepting'[k] + Occurrences(q', k) = accepting[k] + Occurrences(q, k)
      <4>1. CASE full
        <5>1. q' = Append(q, l) /\ accepting' = [accepting EXCEPT ![l] = @ - 1]
          BY <1>1, <4>1 DEF on_async_accept, accept_more
        <5>2. Occurrences(q', k) = Occurrences(q, k) + IF l = k THEN 1 ELSE 0
          BY <1>0, <5>1, OccurrencesAppend DEF TypeOK
        <5>3. accepting'[k] = IF l = k THEN accepting[k] - 1 ELSE accepting[k]
          BY <1>0, <5>1 DEF TypeOK
        <5> QED BY <3>2, <5>2, <5>3
      <4>2. CASE ~full
        BY <1>1, <4>2 DEF on_async_accept, accept_more
      <4> QED BY <4>1, <4>2
    <3>4. accepting'[k] \in Nat /\ Occurrences(q', k) \in Nat
      BY OccurrencesType DEF TypeOK
    <3>5. AcceptsOf(k)' = accepting'[k] + Occurrences(tasks', AcceptTask(k)) + Occurrences(q', k)
      BY DEF AcceptsOf
    <3>6. AcceptsOf(k)' = AcceptsOf(k)
      BY <3>1, <3>2, <3>3, <3>4, <3>5 DEF AcceptsOf
    <3> QED BY <3>6 DEF AInv, AcceptsInOrder
  <2>10. Budget'
    <3>1. UNCHANGED ClosedCount
      BY <1>0, <2>1, <2>2 DEF TypeOK, ClosedCount
    <3>2. Limit' = Limit
      BY <3>1 DEF Limit
    <3>3. /\ Limit \in Nat /\ opened_connections_ \in Nat /\ Len(q) \in Nat /\ Len(q') \in Nat
          /\ Len(q') <= MaxListeners /\ MaxListeners \in Nat \ {0} /\ parallel_max \in Nat
          /\ Limit >= (IF parallel_max = 0 THEN 1 ELSE parallel_max) + (MaxListeners - 1)
      <4>1. \A k \in Listeners : accepting'[k] + Occurrences(tasks', AcceptTask(k))
                                   + Occurrences(q', k) <= 1
        <5> TAKE k \in Listeners
        <5>1. AcceptsOf(k)' <= 1
          <6>1. AcceptsOf(k)' <= IF k < next_listen_ctx_' THEN 1 ELSE 0
            BY <2>9 DEF AcceptsInOrder
          <6>2. AcceptsOf(k)' \in Nat
            BY OccurrencesType DEF AcceptsOf, TypeOK
          <6> QED BY <6>1, <6>2
        <5> QED BY <5>1 DEF AcceptsOf
      <4>2. Len(q') \in Nat /\ Len(q') <= MaxListeners
        BY <4>1, ParkedOnce DEF TypeOK
      <4> QED BY <1>0, <4>2, LimitType, LenProperties, MaxListenersAssumption, ParallelMaxAssumption
                 DEF TypeOK
    <3>4. opened_connections_ + MaxListeners <= Limit + Len(q)
      BY <2>1 DEF AInv, Budget
    <3>5. opened_connections_' + MaxListeners <= Limit + Len(q')
      <4>1. CASE full
        <5>1. Len(q') = Len(q) + 1
          BY <1>0, <1>1, <4>1, AppendProperties DEF on_async_accept, accept_more, TypeOK
        <5> QED BY <2>2, <3>3, <3>4, <5>1
      <4>2. CASE ~full
        <5>1. opened_connections_ + 1 < parallel_max
          BY <2>2, <3>3, <4>2
        <5> QED BY <2>2, <3>3, <5>1
      <4> QED BY <4>1, <4>2
    <3>6. opened_connections_' <= Limit
      BY <2>2, <3>3, <3>5
    <3> QED BY <3>2, <3>5, <3>6 DEF Budget
  <2> QED BY <2>5, <2>6, <2>7, <2>8, <2>9, <2>10 DEF AInv
<1>2. CASE accept_cancelled(l) \/ accept_error(l)
  <2>1. /\ accepting' = [accepting EXCEPT ![l] = @ - 1]
        /\ UNCHANGED <<acceptor, next_listen_ctx_, pending_next_listen_ctxes_, connVars,
                       in_shutdown_, requests, stopped, returned, tasks>>
    BY <1>2 DEF accept_cancelled, accept_error, endVars
  <2>2. Starts' /\ Accepts'
    BY <2>1 DEF AInv, Starts, Accepts, connVars
  <2>3. Ended' /\ Tracked' /\ Budget'
    BY <1>0, <2>1 DEF AInv, Ended, Tracked, Budget, Limit, ClosedCount, connVars
  <2>4. AcceptsInOrder'
    <3> SUFFICES ASSUME NEW k \in Listeners
                 PROVE  AcceptsOf(k)' <= IF k < next_listen_ctx_ THEN 1 ELSE 0
      BY <2>1 DEF AcceptsInOrder
    <3>1. /\ accepting[k] \in Nat /\ Occurrences(tasks, AcceptTask(k)) \in Nat
          /\ Occurrences(pending_next_listen_ctxes_, k) \in Nat
      BY <1>0, OccurrencesType DEF TypeOK
    <3>2. accepting'[k] = IF l = k THEN accepting[k] - 1 ELSE accepting[k]
      BY <1>0, <2>1 DEF TypeOK
    <3>3. AcceptsOf(k)' = accepting'[k] + Occurrences(tasks, AcceptTask(k))
                            + Occurrences(pending_next_listen_ctxes_, k)
      BY <2>1 DEF AcceptsOf
    <3>4. AcceptsOf(k)' <= AcceptsOf(k) /\ AcceptsOf(k) \in Nat /\ AcceptsOf(k)' \in Int
      BY <3>1, <3>2, <3>3 DEF AcceptsOf
    <3>5. AcceptsOf(k) <= IF k < next_listen_ctx_ THEN 1 ELSE 0
      BY DEF AInv, AcceptsInOrder
    <3> QED BY <3>4, <3>5
  <2> QED BY <2>2, <2>3, <2>4 DEF AInv
<1> QED BY <1>1, <1>2

\* The end of a connection.
LEMMA DisconnectStepA ==
  ASSUME IInv, AInv, Next, TypeOK', NEW c \in Connections, on_disconnect(c)
  PROVE  AInv'
<1> DEFINE q == pending_next_listen_ctxes_
<1>0. ~returned /\ TypeOK /\ tasks \in Seq(Tasks)
  BY NoStepAfterReturn DEF IInv, TypeOK
<1>1. /\ conn[c] = "open" /\ conn' = [conn EXCEPT ![c] = "closed"]
      /\ connection_map_' = connection_map_ \ {c}
      /\ opened_connections_' =
           IF c \in connection_map_ THEN opened_connections_ - 1 ELSE opened_connections_
      /\ UNCHANGED <<acceptor, next_listen_ctx_, next_connection_id_,
                     in_shutdown_, requests, stopped, returned>>
  BY DEF on_disconnect, Live, endVars
<1>2. q' = << >> /\ \A l \in Listeners : accepting'[l] = accepting[l] + Occurrences(q, l)
  BY DEF on_disconnect, resume_pending, Occurrences
<1>3. tasks' = tasks \/ tasks' = Append(tasks, ResetGuardTask)
  BY DEF on_disconnect, release_when_drained
<1>4. /\ \A u : u # ResetGuardTask => (Has(tasks', u) <=> Has(tasks, u))
      /\ StartsOnce(tasks) => StartsOnce(tasks')
      /\ AcceptsFirst(tasks) => AcceptsFirst(tasks')
  <2>1. CASE tasks' = tasks
    BY <2>1
  <2>2. CASE tasks' = Append(tasks, ResetGuardTask)
    BY <1>0, <2>2, HasAppend, TasksApart, TaskTypes
  <2> QED BY <1>3, <2>1, <2>2
<1>5. Starts'
  <2>1. \A d \in Connections : conn'[d] = IF d = c THEN "closed" ELSE conn[d]
    BY <1>0, <1>1 DEF TypeOK
  <2>2. \A d \in Connections : Has(tasks', StartTask(d)) <=> Has(tasks, StartTask(d))
    BY <1>4, TasksApart
  <2> QED BY <1>1, <1>4, <2>1, <2>2 DEF AInv, Starts
<1>6. Accepts'
  BY <1>1, <1>4, TasksApart DEF AInv, Accepts
<1>7. Ended'
  BY <1>0, <1>1 DEF AInv, Ended
<1>8. Tracked'
  BY <1>0, <1>1 DEF AInv, Tracked, TypeOK
<1>9. AcceptsInOrder'
  <2> SUFFICES ASSUME NEW k \in Listeners
               PROVE  AcceptsOf(k)' <= IF k < next_listen_ctx_ THEN 1 ELSE 0
    BY <1>1 DEF AcceptsInOrder
  <2>1. Occurrences(tasks', AcceptTask(k)) = Occurrences(tasks, AcceptTask(k))
    <3>1. Occurrences(tasks, AcceptTask(k)) \in Nat
      BY <1>0, OccurrencesType
    <3>2. Occurrences(Append(tasks, ResetGuardTask), AcceptTask(k)) =
            Occurrences(tasks, AcceptTask(k)) + 0
      BY <1>0, OccurrencesAppend, TasksApart, TaskTypes
    <3>3. CASE tasks' = tasks
      BY <3>3
    <3>4. CASE tasks' = Append(tasks, ResetGuardTask)
      BY <3>1, <3>2, <3>4
    <3> QED BY <1>3, <3>3, <3>4
  <2>2. /\ accepting[k] \in Nat /\ Occurrences(tasks, AcceptTask(k)) \in Nat
        /\ Occurrences(q, k) \in Nat
    BY <1>0, OccurrencesType DEF TypeOK
  <2>3. accepting'[k] = accepting[k] + Occurrences(q, k) /\ Occurrences(q', k) = 0
    BY <1>2, OccurrencesEmpty
  <2>4. AcceptsOf(k)' = accepting'[k] + Occurrences(tasks', AcceptTask(k)) + Occurrences(q', k)
    BY DEF AcceptsOf
  <2>5. AcceptsOf(k)' = AcceptsOf(k)
    BY <2>1, <2>2, <2>3, <2>4 DEF AcceptsOf
  <2> QED BY <2>5 DEF AInv, AcceptsInOrder
<1>10. Budget'
  <2> DEFINE k == MaxListeners - 1
             p == IF parallel_max = 0 THEN 1 ELSE parallel_max
  <2>1. ClosedCount' = ClosedCount + 1
    <3> DEFINE T == {d \in Connections : conn[d] = "closed"}
               U == {d \in Connections : conn'[d] = "closed"}
    <3>1. U = T \union {c} /\ c \notin T /\ T \in SUBSET Connections
      BY <1>0, <1>1 DEF TypeOK
    <3>2. ClosedCount' = Cardinality(U) /\ ClosedCount = Cardinality(T)
      BY DEF ClosedCount
    <3> HIDE DEF T, U
    <3> QED BY <3>1, <3>2, AddCount
  <2>2. k \in Nat /\ p \in Nat /\ MaxListeners = k + 1 /\ ClosedCount \in Nat /\ Limit \in Nat
    BY <1>0, LimitType, MaxListenersAssumption, ParallelMaxAssumption
  <2>3. Limit = p + k * (1 + ClosedCount) /\ Limit' = p + k * (1 + (ClosedCount + 1))
    BY <2>1 DEF Limit
  <2> HIDE DEF k, p
  <2>4. Limit' = Limit + k
    <3> DEFINE z == 1 + ClosedCount
    <3>1. z \in Nat /\ Limit = p + k * z /\ Limit' = p + k * (z + 1)
      BY <2>2, <2>3
    <3> HIDE DEF z
    <3>2. k * (z + 1) = k * z + k /\ k * z \in Nat
      BY <2>2, <3>1
    <3> QED BY <2>2, <3>1, <3>2
  <2>5. /\ opened_connections_ \in Nat /\ opened_connections_ <= Limit
        /\ Len(q) \in Nat /\ Len(q) <= MaxListeners /\ Len(q') = 0
    <3>1. \A l \in Listeners : accepting[l] + Occurrences(tasks, AcceptTask(l))
                                 + Occurrences(q, l) <= 1
      <4> TAKE l \in Listeners
      <4>1. AcceptsOf(l) <= IF l < next_listen_ctx_ THEN 1 ELSE 0
        BY DEF AInv, AcceptsInOrder
      <4>2. AcceptsOf(l) \in Nat
        BY <1>0, OccurrencesType DEF AcceptsOf, TypeOK
      <4> QED BY <4>1, <4>2 DEF AcceptsOf
    <3>2. Len(q) \in Nat /\ Len(q) <= MaxListeners
      BY <1>0, <3>1, ParkedOnce DEF TypeOK
    <3> QED BY <1>0, <1>2, <3>2 DEF AInv, Budget, TypeOK
  <2>6. opened_connections_' <= Limit'
    BY <1>1, <2>2, <2>4, <2>5
  <2>7. ASSUME ~in_shutdown_ PROVE opened_connections_' + MaxListeners <= Limit' + Len(q')
    <3>1. c \in connection_map_
      BY <1>1, <2>7 DEF AInv, Ended, Tracked
    <3>2. opened_connections_ + MaxListeners <= Limit + Len(q)
      BY <2>7 DEF AInv, Budget
    <3> QED BY <1>1, <2>2, <2>4, <2>5, <3>1, <3>2
  <2> QED BY <1>1, <2>6, <2>7 DEF Budget
<1> QED BY <1>5, <1>6, <1>7, <1>8, <1>9, <1>10 DEF AInv

\* What the task at the head leaves behind when it is taken.
LEMMA TakenA ==
  ASSUME IInv, AInv, NEW op, Running(op)
  PROVE  /\ Head(tasks) \in Tasks /\ Head(tasks).op = op /\ Tail(tasks) \in Seq(Tasks)
         /\ \A u : Has(tasks, u) <=> Has(Tail(tasks), u) \/ u = Head(tasks)
         /\ StartsOnce(Tail(tasks)) /\ AcceptsFirst(Tail(tasks))
         /\ op = "start" => ~Has(Tail(tasks), Head(tasks))
         /\ op \in {"shutdown", "stop"} => \A l \in Listeners : ~Has(Tail(tasks), AcceptTask(l))
         /\ \A l \in Listeners :
              Occurrences(tasks, AcceptTask(l)) = Occurrences(Tail(tasks), AcceptTask(l))
                + IF Head(tasks) = AcceptTask(l) THEN 1 ELSE 0
<1>1. /\ tasks # << >> /\ Tail(tasks) \in Seq(Tasks) /\ tasks \in Seq(Tasks)
      /\ Head(tasks) \in Tasks /\ Head(tasks).op = op
  BY TaskTaken DEF IInv, TypeOK
<1>2. StartsOnce(tasks) /\ AcceptsFirst(tasks)
  BY DEF AInv, Starts, Accepts
<1>3. /\ \A u : Has(tasks, u) <=> Has(Tail(tasks), u) \/ u = Head(tasks)
      /\ StartsOnce(Tail(tasks)) /\ (Head(tasks).op = "start" => ~Has(Tail(tasks), Head(tasks)))
      /\ AcceptsFirst(Tail(tasks))
      /\ Head(tasks).op \in {"shutdown", "stop"} =>
           \A l \in Listeners : ~Has(Tail(tasks), AcceptTask(l))
  BY <1>1, <1>2, HasTail
<1>4. \A l \in Listeners :
        Occurrences(tasks, AcceptTask(l)) = Occurrences(Tail(tasks), AcceptTask(l))
          + IF Head(tasks) = AcceptTask(l) THEN 1 ELSE 0
  BY <1>1, OccurrencesTail
<1> QED BY <1>1, <1>3, <1>4

\* Taking a task that is no accept leaves the listeners their accepts, or takes
\* the parked ones away.
LEMMA AcceptsLeft ==
  ASSUME IInv, AInv, NEW op, Running(op), op # "accept",
         \A l \in Listeners : Occurrences(tasks', AcceptTask(l)) = Occurrences(Tail(tasks), AcceptTask(l)),
         UNCHANGED <<accepting, next_listen_ctx_>>,
         pending_next_listen_ctxes_' \in {pending_next_listen_ctxes_, << >>}
  PROVE  AcceptsInOrder'
<1> SUFFICES ASSUME NEW k \in Listeners
             PROVE  AcceptsOf(k)' <= IF k < next_listen_ctx_ THEN 1 ELSE 0
  BY DEF AcceptsInOrder
<1> DEFINE q == pending_next_listen_ctxes_
<1>1. Head(tasks) # AcceptTask(k)
  BY TakenA, TasksApart
<1>2. Occurrences(tasks, AcceptTask(k)) = Occurrences(tasks', AcceptTask(k)) + 0
  BY <1>1, TakenA
<1>3. /\ accepting[k] \in Nat /\ Occurrences(tasks', AcceptTask(k)) \in Nat
      /\ Occurrences(q, k) \in Nat
  BY TakenA, OccurrencesType DEF IInv, TypeOK
<1>4. Occurrences(q', k) \in Nat /\ Occurrences(q', k) <= Occurrences(q, k)
  <2>1. CASE q' = q
    BY <1>3, <2>1
  <2>2. CASE q' = << >>
    BY <1>3, <2>2, OccurrencesEmpty
  <2> QED BY <2>1, <2>2
<1>5. AcceptsOf(k)' = accepting[k] + Occurrences(tasks', AcceptTask(k)) + Occurrences(q', k)
  BY DEF AcceptsOf
<1>6. AcceptsOf(k)' <= AcceptsOf(k) /\ AcceptsOf(k) \in Nat /\ AcceptsOf(k)' \in Nat
  BY <1>2, <1>3, <1>4, <1>5 DEF AcceptsOf
<1>7. AcceptsOf(k) <= IF k < next_listen_ctx_ THEN 1 ELSE 0
  BY DEF AInv, AcceptsInOrder
<1> QED BY <1>6, <1>7

\* The posted tasks.
LEMMA TaskStepA ==
  ASSUME IInv, AInv, Next, TypeOK', RunTask
  PROVE  AInv'
<1>0. ~returned /\ TypeOK
  BY NoStepAfterReturn DEF IInv
<1>1. CASE run_accept
  <2>1. /\ Running("accept") /\ tasks' = Tail(tasks) /\ acceptor[Arg] = "open"
        /\ accepting' = [accepting EXCEPT ![Arg] = @ + 1]
        /\ UNCHANGED <<acceptor, next_listen_ctx_, pending_next_listen_ctxes_, connVars, endVars>>
    BY <1>1 DEF run_accept
  <2>2. Arg \in Listeners /\ Head(tasks) = AcceptTask(Arg)
    BY <2>1, TakenA, TaskKinds DEF Arg
  <2>3. Starts'
    BY <2>1, <2>2, TakenA, TasksApart DEF AInv, Starts, connVars
  <2>4. Accepts'
    BY <2>1, TakenA DEF AInv, Accepts, endVars
  <2>5. Ended' /\ Tracked' /\ Budget'
    BY <1>0, <2>1 DEF AInv, Ended, Tracked, Budget, Limit, ClosedCount, connVars, endVars
  <2>6. AcceptsInOrder'
    <3> SUFFICES ASSUME NEW k \in Listeners
                 PROVE  AcceptsOf(k)' <= IF k < next_listen_ctx_ THEN 1 ELSE 0
      BY <2>1 DEF AcceptsInOrder
    <3>1. Occurrences(tasks, AcceptTask(k)) =
            Occurrences(tasks', AcceptTask(k)) + IF Arg = k THEN 1 ELSE 0
      BY <2>1, <2>2, TakenA, TasksApart
    <3>2. /\ accepting[k] \in Nat /\ Occurrences(tasks', AcceptTask(k)) \in Nat
          /\ Occurrences(pending_next_listen_ctxes_, k) \in Nat
      BY <1>0, OccurrencesType DEF TypeOK
    <3>3. accepting'[k] = IF Arg = k THEN accepting[k] + 1 ELSE accepting[k]
      BY <1>0, <2>1 DEF TypeOK
    <3>4. AcceptsOf(k)' = accepting'[k] + Occurrences(tasks', AcceptTask(k))
                            + Occurrences(pending_next_listen_ctxes_, k)
      BY <2>1 DEF AcceptsOf
    <3>5. AcceptsOf(k)' = AcceptsOf(k)
      BY <3>1, <3>2, <3>3, <3>4 DEF AcceptsOf
    <3> QED BY <3>5 DEF AInv, AcceptsInOrder
  <2> QED BY <2>3, <2>4, <2>5, <2>6 DEF AInv
<1>2. CASE run_start
  <2>1. /\ Running("start") /\ tasks' = Tail(tasks) /\ conn' = [conn EXCEPT ![Arg] = "open"]
        /\ UNCHANGED <<listenVars, next_connection_id_, connection_map_, opened_connections_,
                       endVars>>
    BY <1>2 DEF run_start
  <2>2. Arg \in Connections /\ Head(tasks) = StartTask(Arg)
    BY <2>1, TakenA, TaskKinds DEF Arg
  <2>3. conn[Arg] = "accepted"
    BY <2>1, <2>2, TakenA DEF AInv, Starts
  <2>4. \A d \in Connections : conn'[d] = IF d = Arg THEN "open" ELSE conn[d]
    BY <1>0, <2>1 DEF TypeOK
  <2>5. Starts'
    <3>1. \A d \in Connections : Has(tasks', StartTask(d)) <=> conn'[d] = "accepted"
      BY <2>1, <2>2, <2>4, TakenA, TasksApart DEF AInv, Starts
    <3>2. \A d \in Connections : d >= next_connection_id_ => conn'[d] = "none"
      BY <2>3, <2>4 DEF AInv, Starts
    <3> QED BY <2>1, <3>1, <3>2, TakenA DEF Starts
  <2>6. Accepts'
    BY <2>1, TakenA DEF AInv, Accepts, endVars, listenVars
  <2>7. Ended'
    BY <1>0, <2>1 DEF AInv, Ended, endVars
  <2>8. Tracked'
    BY <2>1, <2>3, <2>4 DEF AInv, Tracked, endVars
  <2>9. Budget'
    <3>1. UNCHANGED ClosedCount
      BY <2>3, <2>4 DEF ClosedCount
    <3> QED BY <2>1, <3>1 DEF AInv, Budget, Limit, endVars, listenVars
  <2>10. AcceptsInOrder'
    BY <2>1, AcceptsLeft DEF listenVars
  <2> QED BY <2>5, <2>6, <2>7, <2>8, <2>9, <2>10 DEF AInv
<1>3. CASE run_shutdown
  <2>1. /\ Running("shutdown") /\ tasks' = Tail(tasks) /\ in_shutdown_'
        /\ pending_next_listen_ctxes_' = << >>
        /\ UNCHANGED <<accepting, next_listen_ctx_, connVars, requests, stopped, returned>>
    BY <1>3 DEF run_shutdown, close_acceptors
  <2>2. Head(tasks) = ShutdownTask /\ Has(tasks, ShutdownTask)
    BY <2>1, TakenA, TaskKinds
  <2>3. Starts'
    BY <2>1, <2>2, TakenA, TasksApart DEF AInv, Starts, connVars
  <2>4. Accepts'
    BY <2>1, <2>2, TakenA DEF AInv, Accepts
  <2>5. Ended' /\ Tracked'
    BY <1>0, <2>1 DEF AInv, Ended, Tracked, connVars
  <2>6. Budget'
    BY <2>1 DEF AInv, Budget, Limit, ClosedCount, connVars
  <2>7. AcceptsInOrder'
    BY <2>1, AcceptsLeft
  <2> QED BY <2>3, <2>4, <2>5, <2>6, <2>7 DEF AInv
<1>4. CASE run_stop
  <2> DEFINE n == Cardinality({c \in connection_map_ : Live(c)})
  <2>1. /\ Running("stop") /\ tasks' = Tail(tasks) \o Releases(n) /\ in_shutdown_' /\ stopped'
        /\ connection_map_' = {} /\ opened_connections_' = 0
        /\ conn' = [c \in Connections |->
                      IF c \in connection_map_ /\ Live(c) THEN "closed" ELSE conn[c]]
        /\ pending_next_listen_ctxes_' = << >>
        /\ UNCHANGED <<accepting, next_listen_ctx_, next_connection_id_, requests, returned>>
    BY <1>4 DEF run_stop, close_acceptors, Releases
  <2>2. n \in Nat
    BY <1>0, ConnectionsFinite DEF TypeOK
  <2>3. Tail(tasks) \in Seq(Tasks) /\ Head(tasks) = StopTask /\ Has(tasks, StopTask)
    BY <2>1, TakenA, TaskKinds
  <2>4. StartsOnce(Tail(tasks)) /\ AcceptsFirst(Tail(tasks))
    BY <2>1, TakenA
  <2>5. tasks' = Tail(tasks) \o Releases(n)
    BY <2>1
  <2> HIDE DEF n
  <2>6. /\ \A u : u # ResetGuardTask => (Has(tasks', u) <=> Has(Tail(tasks), u))
        /\ StartsOnce(tasks') /\ AcceptsFirst(tasks')
    BY <2>2, <2>3, <2>4, <2>5, HasReleases
  <2>7. \A l \in Listeners :
          Occurrences(tasks', AcceptTask(l)) = Occurrences(Tail(tasks), AcceptTask(l))
    <3> TAKE l \in Listeners
    <3>1. AcceptTask(l) # ResetGuardTask
      BY TasksApart
    <3> QED BY <2>2, <2>3, <2>5, <3>1, OccurrencesReleases
  <2>8. \A d \in Connections :
          /\ conn'[d] = "accepted" <=> conn[d] = "accepted"
          /\ conn[d] = "none" => conn'[d] = "none"
    BY <2>1 DEF Live
  <2>9. Starts'
    <3>1. \A d \in Connections : Has(tasks', StartTask(d)) <=> Has(tasks, StartTask(d))
      BY <2>1, <2>3, <2>6, TakenA, TasksApart
    <3> QED BY <2>1, <2>6, <2>8, <3>1 DEF AInv, Starts
  <2>10. Accepts'
    <3>1. \A l \in Listeners : ~Has(tasks', AcceptTask(l))
      BY <2>1, <2>6, TakenA, TasksApart
    <3>2. requests' # 0
      BY <2>1, <2>3 DEF AInv, Accepts
    <3> QED BY <2>6, <3>1, <3>2 DEF Accepts
  <2>11. Ended' /\ Tracked'
    BY <1>0, <2>1 DEF Ended, Tracked
  <2>12. Budget'
    <3>1. Limit' \in Nat
      <4>1. ClosedCount' \in Nat
        BY ConnectionsFinite DEF ClosedCount
      <4>2. MaxListeners - 1 \in Nat /\ (IF parallel_max = 0 THEN 1 ELSE parallel_max) \in Nat
        BY MaxListenersAssumption, ParallelMaxAssumption
      <4> QED BY <4>1, <4>2 DEF Limit
    <3> QED BY <2>1, <3>1 DEF Budget
  <2>13. AcceptsInOrder'
    BY <2>1, <2>7, AcceptsLeft
  <2> QED BY <2>9, <2>10, <2>11, <2>12, <2>13 DEF AInv
<1>5. CASE run_reset_guard
  <2>1. /\ Running("reset_guard") /\ tasks' = Tail(tasks)
        /\ UNCHANGED <<listenVars, connVars, in_shutdown_, requests, stopped, returned>>
    BY <1>5 DEF run_reset_guard
  <2>2. Head(tasks) = ResetGuardTask
    BY <2>1, TakenA, TaskKinds
  <2>3. Starts'
    BY <2>1, <2>2, TakenA, TasksApart DEF AInv, Starts, connVars
  <2>4. Accepts'
    BY <2>1, TakenA DEF AInv, Accepts, listenVars
  <2>5. Ended' /\ Tracked' /\ Budget'
    BY <1>0, <2>1 DEF AInv, Ended, Tracked, Budget, Limit, ClosedCount, connVars, listenVars
  <2>6. AcceptsInOrder'
    BY <2>1, AcceptsLeft DEF listenVars
  <2> QED BY <2>3, <2>4, <2>5, <2>6 DEF AInv
<1> QED BY <1>1, <1>2, <1>3, <1>4, <1>5 DEF RunTask

\* Every step keeps the second invariant.
LEMMA NextAInv == IInv /\ AInv /\ IInv' /\ [Next]_vars => AInv'
<1> SUFFICES ASSUME IInv, AInv, TypeOK', [Next]_vars PROVE AInv'
  BY DEF IInv
<1>1. CASE UNCHANGED vars
  BY <1>1 DEF vars, listenVars, connVars, endVars, AInv, Starts, Accepts, Ended, OutOfWork, Live,
              AcceptsInOrder, AcceptsOf, Budget, Limit, ClosedCount, Tracked
<1>2. ASSUME Next, listen \/ listen_fails \/ shutdown \/ stop PROVE AInv'
  BY <1>2, OwnerStepA
<1>3. ASSUME Next, NEW l \in Listeners,
             on_async_accept(l) \/ accept_cancelled(l) \/ accept_error(l)
      PROVE  AInv'
  BY <1>3, AcceptStepA
<1>4. ASSUME Next, NEW c \in Connections, on_disconnect(c) PROVE AInv'
  BY <1>4, DisconnectStepA
<1>5. ASSUME Next, RunTask PROVE AInv'
  BY <1>5, TaskStepA
<1>6. ASSUME run_returns PROVE AInv'
  <2>1. /\ OutOfWork
        /\ UNCHANGED <<listenVars, connVars, in_shutdown_, work_guard_, requests, stopped, tasks>>
    BY <1>6 DEF run_returns
  <2>2. Starts' /\ Accepts'
    BY <2>1 DEF AInv, Starts, Accepts, connVars, listenVars
  <2>3. Tracked' /\ Budget' /\ AcceptsInOrder'
    BY <2>1 DEF AInv, Tracked, Budget, Limit, ClosedCount, AcceptsInOrder, AcceptsOf,
                connVars, listenVars
  <2>4. OutOfWork'
    BY <2>1 DEF OutOfWork, Live, connVars, listenVars
  <2>5. Ended'
    BY <2>1, <2>4 DEF AInv, Ended, connVars
  <2> QED BY <2>2, <2>3, <2>5 DEF AInv
<1> QED BY <1>1, <1>2, <1>3, <1>4, <1>5, <1>6 DEF Next

\* The two invariants give what the accept loop promises.
LEMMA SoundFromInvariants == IInv /\ AInv => AcceptSound
<1> SUFFICES ASSUME IInv, AInv PROVE AcceptSound
  OBVIOUS
<1>0. TypeOK /\ Tracked
  BY DEF IInv, AInv
<1>1. OneAcceptPerListener
  <2> SUFFICES ASSUME NEW l \in Listeners
               PROVE  accepting[l] + Occurrences(tasks, AcceptTask(l))
                        + Occurrences(pending_next_listen_ctxes_, l) <= 1
    BY DEF OneAcceptPerListener
  <2>1. AcceptsOf(l) <= IF l < next_listen_ctx_ THEN 1 ELSE 0
    BY DEF AInv, AcceptsInOrder
  <2>2. AcceptsOf(l) \in Nat
    BY <1>0, OccurrencesType DEF AcceptsOf, TypeOK
  <2> QED BY <2>1, <2>2 DEF AcceptsOf
<1>2. AcceptorThere
  <2> SUFFICES ASSUME Running("accept") PROVE acceptor[Arg] = "open"
    BY DEF AcceptorThere
  <2>1. Arg \in Listeners /\ Head(tasks) = AcceptTask(Arg)
    BY TakenA, TaskKinds DEF Arg
  <2>2. Has(tasks, AcceptTask(Arg))
    BY <2>1, TakenA
  <2> QED BY <2>1, <2>2 DEF AInv, Accepts
<1>3. OvershootBounded
  BY DEF AInv, Budget, Limit, ClosedCount, OvershootBounded
<1>4. FreedClean
  <2> SUFFICES ASSUME returned
               PROVE  /\ ~work_guard_ /\ pending_next_listen_ctxes_ = << >>
                      /\ opened_connections_ = 0 /\ connection_map_ = {}
    BY DEF FreedClean
  <2>1. OutOfWork
    BY DEF AInv, Ended
  <2>2. \A c \in Connections : conn[c] \notin {"accepted", "open"}
    <3>1. \A u : ~Has(tasks, u)
      BY <2>1 DEF OutOfWork, Has
    <3> QED BY <2>1, <3>1 DEF OutOfWork, Live, AInv, Starts
  <2>3. connection_map_ = {}
    BY <2>2 DEF AInv, Ended, Tracked
  <2>4. opened_connections_ = 0
    BY <2>3, FS_EmptySet DEF IInv, Accounting
  <2>5. pending_next_listen_ctxes_ = << >>
    BY <2>4 DEF IInv, ParkedWillWake
  <2> QED BY <2>1, <2>3, <2>4, <2>5 DEF OutOfWork
<1> QED BY <1>0, <1>1, <1>2, <1>3, <1>4 DEF AcceptSound

-----------------------------------------------------------------------------
\* In every behaviour every open connection is known to stop(), a listener has
\* at most one accept (under way, posted or parked) and its acceptor when it
\* runs, the limit is exceeded by no more than the listeners account for, and
\* run() returns to a server that is clean.
THEOREM AcceptCorrect == Spec => []AcceptSound
<1>1. Init => IInv /\ AInv
  BY InitInv, InitAInv
<1>2. IInv /\ AInv /\ [Next]_vars => (IInv /\ AInv)'
  BY NextInv, NextAInv
<1> QED BY <1>1, <1>2, SoundFromInvariants, PTL DEF Spec

-----------------------------------------------------------------------------
(* The queue of buffers: reading an index modulo the size of the vector. *)

\* Incrementing an index modulo the size either moves on by one or wraps to 0.
LEMMA WrapStep ==
  ASSUME NEW n \in Nat, n > 0, NEW i \in Nat, i < n
  PROVE  (i + 1) % n = IF i + 1 < n THEN i + 1 ELSE 0
BY SMT

\* An index less than two sizes is read modulo the size by one subtraction.
LEMMA WrapOnce ==
  ASSUME NEW n \in Nat, n > 0, NEW i \in Nat, i < n + n
  PROVE  i % n = IF i < n THEN i ELSE i - n
BY SMT

\* Append, index by index.
LEMMA AppendTable ==
  ASSUME NEW S, NEW c \in Seq(S), NEW b \in S
  PROVE  Append(c, b) = [k \in 1 .. Len(c) + 1 |-> IF k = Len(c) + 1 THEN b ELSE c[k]]
<1> DEFINE a == Append(c, b)
           f == [k \in 1 .. Len(c) + 1 |-> IF k = Len(c) + 1 THEN b ELSE c[k]]
<1>1. /\ a \in Seq(S) /\ Len(a) = Len(c) + 1
      /\ \A k \in 1 .. Len(c) : a[k] = c[k]
      /\ a[Len(c) + 1] = b
  BY AppendProperties
<1> HIDE DEF a
<1>2. a = [k \in 1 .. Len(c) + 1 |-> a[k]]
  BY <1>1
<1>3. \A k \in 1 .. Len(c) + 1 : a[k] = f[k]
  BY <1>1
<1>4. a = f
  BY <1>2, <1>3
<1> QED BY <1>4 DEF a

\* Induction: a set with 0 and with every number's successor has all numbers.
LEMMA Induct ==
  ASSUME NEW S, 0 \in S, \A n \in Nat : n \in S => n + 1 \in S
  PROVE  Nat \subseteq S
<1> DEFINE R == {p \in Nat \X Nat : p[1] < p[2]}
           X == Nat \ S
<1>1. SUFFICES ASSUME X # {} PROVE FALSE
  OBVIOUS
<1>2. IsWellFoundedOn(R, Nat)
  BY NatLessThanWellFounded DEF OpToRel
<1>3. X \subseteq Nat
  OBVIOUS
<1> HIDE DEF X, R
<1>4. PICK x \in X : \A y \in X : ~(<<y, x>> \in R)
  BY WFMin, <1>1, <1>2, <1>3
<1>5. x \in Nat /\ x \notin S
  BY <1>4 DEF X
<1>6. x - 1 \in Nat
  BY <1>5
<1>7. x - 1 \in S
  <2>1. <<x - 1, x>> \in R
    BY <1>5, <1>6 DEF R
  <2> QED BY <1>4, <1>6, <2>1 DEF X
<1>8. (x - 1) + 1 \in S
  BY <1>6, <1>7
<1> QED BY <1>5, <1>8

\* A ring in which every occupied slot is part of the content, and conversely.
GoodRing(o) == IsRing(o) /\ Occupied(o)

-----------------------------------------------------------------------------
(* Each operation on one object: the ring stays good, and its content is   *)
(* what Fifo says.                                                         *)

\* The constructor makes an empty ring.
LEMMA NewGood == GoodRing(NewQueue) /\ Content(NewQueue) = << >>
<1>1. IsRing(NewQueue)
  BY QueueLengthAssumption DEF IsRing, NewQueue, Slot
<1>2. Occupied(NewQueue)
  BY QueueLengthAssumption DEF Occupied, NewQueue, Nth, Distance
<1>3. Content(NewQueue) = << >>
  BY QueueLengthAssumption DEF Content, NewQueue, Nth, Distance
<1> QED BY <1>1, <1>2, <1>3 DEF GoodRing

\* pop_front() removes the head of the content.
LEMMA PopGood ==
  ASSUME NEW o, GoodRing(o), ~empty(o)
  PROVE  /\ GoodRing(pop_front(o))
         /\ Content(o) # << >>
         /\ Content(pop_front(o)) = Tail(Content(o))
<1> DEFINE p == pop_front(o)
           n == o.size
           i == o.idx_
           e == o.end_idx_
           v == o.queue_
           j == IF i + 1 < n THEN i + 1 ELSE 0
           d == IF i <= e THEN e - i ELSE e + n - i
           at(x, k) == IF x + k < n THEN x + k ELSE x + k - n
<1>1. /\ n \in Nat /\ n >= 2 /\ n >= DEFAULT_QUEUE_LENGTH
      /\ i \in Nat /\ i < n
      /\ e \in Nat /\ e < n
      /\ v \in [0 .. n - 1 -> Slot]
      /\ i # e
  BY QueueLengthAssumption DEF GoodRing, IsRing, empty
<1>2. \A k : Nth(o, k) = at(i, k)
  BY DEF Nth
<1>3. Distance(o) = d
  BY DEF Distance
<1>4. \A k \in 0 .. n - 1 : v[at(i, k)] # NULL <=> k < d
  BY <1>2, <1>3 DEF GoodRing, Occupied
<1>5. o = [queue_ |-> v, size |-> n, idx_ |-> i, end_idx_ |-> e]
  BY DEF GoodRing, IsRing
<1>6. Content(o) = [k \in 1 .. d |-> v[at(i, k - 1)]]
  BY <1>2, <1>3 DEF Content
<1>7. p = [o EXCEPT !.queue_[i] = NULL, !.idx_ = (i + 1) % n]
  BY DEF pop_front
<1> HIDE DEF n, i, e, v, p
<1>8. (i + 1) % n = j
  BY <1>1, WrapStep
<1>9. /\ p = [queue_ |-> [v EXCEPT ![i] = NULL], size |-> n, idx_ |-> j, end_idx_ |-> e]
      /\ p.queue_ = [v EXCEPT ![i] = NULL] /\ p.size = n /\ p.idx_ = j /\ p.end_idx_ = e
  BY <1>5, <1>7, <1>8
<1>10. IsRing(p)
  BY <1>1, <1>9 DEF IsRing, Slot
<1>11. d \in Nat /\ d > 0 /\ d < n /\ Distance(p) = d - 1
  BY <1>1, <1>9 DEF Distance
<1>12. ASSUME NEW k \in Nat, k < n - 1
       PROVE  /\ Nth(p, k) = at(i, k + 1)
              /\ at(i, k + 1) # i /\ at(i, k + 1) \in 0 .. n - 1
              /\ p.queue_[Nth(p, k)] = v[at(i, k + 1)]
  <2>1. Nth(p, k) = at(j, k)
    BY <1>9 DEF Nth
  <2>2. at(j, k) = at(i, k + 1) /\ at(i, k + 1) # i /\ at(i, k + 1) \in 0 .. n - 1
    BY <1>1, <1>12
  <2> QED BY <2>1, <2>2, <1>1, <1>9
<1>13. p.queue_[Nth(p, n - 1)] = NULL
  <2>1. Nth(p, n - 1) = i
    BY <1>1, <1>9 DEF Nth
  <2> QED BY <2>1, <1>1, <1>9
<1>14. Occupied(p)
  <2> SUFFICES ASSUME NEW k \in 0 .. n - 1
               PROVE  p.queue_[Nth(p, k)] # NULL <=> k < Distance(p)
    BY <1>9 DEF Occupied
  <2>1. CASE k = n - 1
    BY <2>1, <1>1, <1>11, <1>13
  <2>2. CASE k # n - 1
    <3>1. p.queue_[Nth(p, k)] = v[at(i, k + 1)]
      BY <2>2, <1>1, <1>12
    <3> HIDE DEF d, at
    <3>2. v[at(i, k + 1)] # NULL <=> k + 1 < d
      BY <2>2, <1>1, <1>4
    <3> QED BY <3>1, <3>2, <1>1, <1>11
  <2> QED BY <2>1, <2>2
<1>15. Content(o) # << >>
  BY <1>6, <1>11
<1>16. Content(p) = Tail(Content(o))
  <2>1. \A k \in 1 .. d : v[at(i, k - 1)] \in Slot
    BY <1>1, <1>11
  <2>2. Content(p) = [k \in 1 .. d - 1 |-> p.queue_[Nth(p, k - 1)]]
    BY <1>11 DEF Content
  <2>3. ASSUME NEW k \in 1 .. d - 1
        PROVE  p.queue_[Nth(p, k - 1)] = v[at(i, k)]
    <3>1. k - 1 \in Nat /\ k - 1 < n - 1 /\ (k - 1) + 1 = k
      BY <1>1, <1>11
    <3> QED BY <3>1, <1>12
  <2>4. Tail(Content(o)) = [k \in 1 .. d - 1 |-> v[at(i, k)]]
    <3> HIDE DEF d, at
    <3> QED BY <1>6, <1>11, <2>1
  <2> QED BY <2>2, <2>3, <2>4
<1> QED BY <1>10, <1>14, <1>15, <1>16 DEF GoodRing, p

\* push_back() appends to the content, whether or not the vector is doubled.
LEMMA PushGood ==
  ASSUME NEW o, GoodRing(o), NEW b \in Buffers
  PROVE  /\ GoodRing(push_back(o, b))
         /\ Content(push_back(o, b)) = Append(Content(o), b)
<1> DEFINE p == push_back(o, b)
           s == stored(o, b)
           n == o.size
           i == o.idx_
           e == o.end_idx_
           v == o.queue_
           j == IF e + 1 < n THEN e + 1 ELSE 0
           w == [v EXCEPT ![e] = b]
           d == IF i <= e THEN e - i ELSE e + n - i
           at(x, k) == IF x + k < n THEN x + k ELSE x + k - n
<1>1. /\ n \in Nat /\ n >= 2 /\ n >= DEFAULT_QUEUE_LENGTH
      /\ i \in Nat /\ i < n
      /\ e \in Nat /\ e < n
      /\ v \in [0 .. n - 1 -> Slot]
  BY QueueLengthAssumption DEF GoodRing, IsRing
<1>2. Content(o) = [k \in 1 .. d |-> v[at(i, k - 1)]]
  BY DEF Nth, Distance, Content
<1>3. \A k \in 0 .. n - 1 : v[at(i, k)] # NULL <=> k < d
  BY DEF GoodRing, Occupied, Nth, Distance
<1>4. o = [queue_ |-> v, size |-> n, idx_ |-> i, end_idx_ |-> e]
  BY DEF GoodRing, IsRing
<1>5. s = [o EXCEPT !.queue_[e] = b, !.end_idx_ = (e + 1) % n]
  BY DEF stored
<1>6. p = IF empty(s) THEN enlarge_queue_by_2x(s) ELSE s
  BY DEF push_back
<1> HIDE DEF n, i, e, v, s, p
<1>7. (e + 1) % n = j
  BY <1>1, WrapStep
<1>8. /\ s = [queue_ |-> w, size |-> n, idx_ |-> i, end_idx_ |-> j]
      /\ s.queue_ = w /\ s.size = n /\ s.idx_ = i /\ s.end_idx_ = j
  BY <1>4, <1>5, <1>7
<1>9. /\ d \in Nat /\ d < n /\ at(i, d) = e
      /\ \A k \in 0 .. n - 1 : at(i, k) \in 0 .. n - 1 /\ (at(i, k) = e <=> k = d)
  BY <1>1
<1>10. w \in [0 .. n - 1 -> Slot]
  BY <1>1 DEF Slot
<1>11. \A k \in 0 .. n - 1 : w[at(i, k)] = IF k = d THEN b ELSE v[at(i, k)]
  <2> HIDE DEF at, d
  <2> QED BY <1>1, <1>9
<1>12. \A k \in 0 .. n - 1 : w[at(i, k)] # NULL <=> k < d + 1
  <2> HIDE DEF at, d, w
  <2> QED BY <1>1, <1>3, <1>9, <1>11, NullAssumption
<1>13. Append(Content(o), b) = [k \in 1 .. d + 1 |-> w[at(i, k - 1)]]
  <2>1. \A k \in 1 .. d : v[at(i, k - 1)] \in Slot
    BY <1>1, <1>9
  <2>2. \A k \in 1 .. d + 1 : w[at(i, k - 1)] = IF k = d + 1 THEN b ELSE v[at(i, k - 1)]
    <3> SUFFICES ASSUME NEW k \in 1 .. d + 1
                 PROVE  w[at(i, k - 1)] = IF k = d + 1 THEN b ELSE v[at(i, k - 1)]
      OBVIOUS
    <3> HIDE DEF at, d, w
    <3>1. k - 1 \in 0 .. n - 1 /\ (k - 1 = d <=> k = d + 1)
      BY <1>1, <1>9
    <3> QED BY <3>1, <1>11
  <2> HIDE DEF at, d, w
  <2>3. Content(o) \in Seq(Slot) /\ Len(Content(o)) = d
    BY <1>2, <1>9, <2>1
  <2>4. Append(Content(o), b) =
          [k \in 1 .. d + 1 |-> IF k = d + 1 THEN b ELSE Content(o)[k]]
    BY <2>3, AppendTable DEF Slot
  <2>5. \A k \in 1 .. d : Content(o)[k] = v[at(i, k - 1)]
    BY <1>2
  <2> HIDE DEF Content
  <2>6. \A k \in 1 .. d + 1 :
          (IF k = d + 1 THEN b ELSE Content(o)[k]) = w[at(i, k - 1)]
    BY <2>2, <2>5, <1>9
  <2> QED BY <2>4, <2>6
<1>14. CASE j # i
  <2>1. p = s
    BY <1>6, <1>8, <1>14 DEF empty
  <2>2. IsRing(p)
    BY <2>1, <1>1, <1>8, <1>10 DEF IsRing
  <2>3. Distance(p) = d + 1 /\ d + 1 < n
    BY <2>1, <1>1, <1>8, <1>14 DEF Distance
  <2>4. \A k : Nth(p, k) = at(i, k)
    BY <2>1, <1>8 DEF Nth
  <2>5. Occupied(p)
    <3> HIDE DEF at, d, w, j
    <3> QED BY <2>1, <2>3, <2>4, <1>8, <1>12 DEF Occupied
  <2>6. Content(p) = [k \in 1 .. d + 1 |-> w[at(i, k - 1)]]
    <3> HIDE DEF at, d, w, j
    <3> QED BY <2>1, <2>3, <2>4, <1>8 DEF Content
  <2> QED BY <2>2, <2>5, <2>6, <1>13 DEF GoodRing, p
<1>15. CASE j = i
  <2> DEFINE u == [k \in 0 .. 2 * n - 1 |->
                     IF k < n - i THEN w[i + k]
                     ELSE IF k < n THEN w[k - (n - i)]
                     ELSE NULL]
  <2>1. p = [queue_ |-> u, size |-> 2 * n, idx_ |-> 0, end_idx_ |-> n]
    <3> HIDE DEF w, j
    <3> QED BY <1>6, <1>8, <1>15 DEF empty, enlarge_queue_by_2x
  <2>2. d + 1 = n
    BY <1>1, <1>15
  <2>3. \A k \in 0 .. 2 * n - 1 : u[k] = IF k < n THEN w[at(i, k)] ELSE NULL
    <3> HIDE DEF w
    <3> QED BY <1>1
  <2>4. u \in [0 .. 2 * n - 1 -> Slot]
    <3> SUFFICES ASSUME NEW k \in 0 .. 2 * n - 1 PROVE u[k] \in Slot
      OBVIOUS
    <3> HIDE DEF u, w, at, d
    <3> QED BY <1>1, <1>9, <1>10, <2>3 DEF Slot
  <2> HIDE DEF u, w, at, d, j
  <2>5. p.queue_ = u /\ p.size = 2 * n /\ p.idx_ = 0 /\ p.end_idx_ = n
    BY <2>1
  <2>6. IsRing(p)
    <3>1. p = [queue_ |-> p.queue_, size |-> p.size, idx_ |-> p.idx_, end_idx_ |-> p.end_idx_]
      BY <2>1, <2>5
    <3>2. /\ 2 * n \in Nat /\ 2 * n >= DEFAULT_QUEUE_LENGTH
          /\ 0 < 2 * n /\ n < 2 * n
      BY <1>1, QueueLengthAssumption
    <3> QED BY <3>1, <3>2, <2>4, <2>5, <1>1 DEF IsRing
  <2>7. Distance(p) = n
    BY <2>5, <1>1 DEF Distance
  <2>8. \A k \in 0 .. 2 * n - 1 : Nth(p, k) = k
    BY <2>5, <1>1 DEF Nth
  <2>9. Occupied(p)
    <3> SUFFICES ASSUME NEW k \in 0 .. 2 * n - 1
                 PROVE  u[k] # NULL <=> k < n
      BY <2>5, <2>7, <2>8 DEF Occupied
    <3> QED BY <1>1, <1>12, <2>2, <2>3
  <2>10. Content(p) = [k \in 1 .. d + 1 |-> w[at(i, k - 1)]]
    <3>1. \A k \in 1 .. n : u[Nth(p, k - 1)] = w[at(i, k - 1)]
      BY <1>1, <2>3, <2>8
    <3> QED BY <3>1, <1>1, <2>2, <2>5, <2>7 DEF Content
  <2> QED BY <2>6, <2>9, <2>10, <1>13 DEF GoodRing, p
<1> QED BY <1>14, <1>15

-----------------------------------------------------------------------------
(* The inductive invariant.  Neither of its parts can do without the       *)
(* other: an index is known to be in range only with the type, and that    *)
(* idx_ = end_idx_ means "empty", not "full", only with the occupation.    *)

QueueInv == DOMAIN object = Queues /\ \A q \in Queues : GoodRing(object[q])

LEMMA QueueInitInv == QueueInit => QueueInv
BY NewGood DEF QueueInit, QueueInv

LEMMA QueueNextInv == QueueInv /\ [QueueNext]_object => QueueInv'
<1> SUFFICES ASSUME QueueInv, [QueueNext]_object PROVE QueueInv'
  OBVIOUS
<1>1. ASSUME NEW q \in Queues, NEW b \in Buffers, PushBack(q, b) PROVE QueueInv'
  BY <1>1, PushGood DEF PushBack, QueueInv
<1>2. ASSUME NEW q \in Queues, PopFront(q) PROVE QueueInv'
  BY <1>2, PopGood DEF PopFront, QueueInv
<1>3. ASSUME NEW q \in Queues, Clear(q) PROVE QueueInv'
  BY <1>3, NewGood DEF Clear, QueueInv
<1>4. ASSUME NEW q \in Queues, NEW r \in Queues, q # r, MoveAssign(q, r) PROVE QueueInv'
  BY <1>4, NewGood DEF MoveAssign, QueueInv
<1>5. ASSUME NEW q \in Queues, NEW r \in Queues, q # r, Swap(q, r) PROVE QueueInv'
  BY <1>5 DEF Swap, QueueInv
<1>6. CASE UNCHANGED object
  BY <1>6 DEF QueueInv
<1> QED BY <1>1, <1>2, <1>3, <1>4, <1>5, <1>6 DEF QueueNext

LEMMA QueueInvariance == QueueSpec => []QueueInv
BY QueueInitInv, QueueNextInv, PTL DEF QueueSpec

\* Whatever the sequence of operations, the indexes of every queue stay inside
\* its vector and a slot holds a buffer exactly when it is part of the content:
\* the DCHECKs of empty() never fail and no buffer is leaked in a dead slot.
THEOREM SlotsCorrect == QueueSpec => []OccupiedSlots
<1>1. QueueInv => OccupiedSlots
  BY DEF QueueInv, OccupiedSlots, QueueTypeOK, GoodRing
<1> QED BY <1>1, QueueInvariance, PTL

\* The last slot of a good ring that is not empty, and how many there are.
LEMMA GoodEnds ==
  ASSUME NEW o, GoodRing(o)
  PROVE  /\ Len(Content(o)) = Distance(o)
         /\ length(o) = Distance(o)
         /\ empty(o) <=> Content(o) = << >>
         /\ ~empty(o) => /\ front(o) = Head(Content(o))
                         /\ back(o) = Content(o)[Len(Content(o))]
<1> DEFINE n == o.size
           i == o.idx_
           e == o.end_idx_
           d == Distance(o)
           c == Content(o)
<1>1. /\ n \in Nat /\ n >= 2 /\ i \in Nat /\ i < n /\ e \in Nat /\ e < n
      /\ o.queue_ \in [0 .. n - 1 -> Slot]
  BY QueueLengthAssumption DEF GoodRing, IsRing
<1>2. d = (IF i <= e THEN e - i ELSE e + n - i) /\ d \in Nat /\ d < n /\ (d = 0 <=> i = e)
  BY <1>1 DEF Distance
<1>n. \A k : Nth(o, k) = IF i + k < n THEN i + k ELSE i + k - n
  BY DEF Nth
<1> HIDE DEF n, i, e, d
<1>3. (e + n - i) % n = d
  <2> DEFINE x == e + n - i
  <2>1. x \in Nat /\ x < n + n /\ (IF x < n THEN x ELSE x - n) = d
    BY <1>1, <1>2
  <2> HIDE DEF x
  <2>2. x % n = d
    BY <1>1, <2>1, WrapOnce
  <2> QED BY <2>2 DEF x
<1>4. (e + n - 1) % n = IF e = 0 THEN n - 1 ELSE e - 1
  <2> DEFINE x == e + n - 1
  <2>1. x \in Nat /\ x < n + n /\ (IF x < n THEN x ELSE x - n) = IF e = 0 THEN n - 1 ELSE e - 1
    BY <1>1
  <2> HIDE DEF x
  <2>2. x % n = IF e = 0 THEN n - 1 ELSE e - 1
    BY <1>1, <2>1, WrapOnce
  <2> QED BY <2>2 DEF x
<1>5. ASSUME NEW k \in 1 .. d PROVE o.queue_[Nth(o, k - 1)] \in Slot
  <2>1. Nth(o, k - 1) \in 0 .. n - 1
    BY <1>1, <1>2, <1>n
  <2> QED BY <1>1, <2>1
<1>6. c \in Seq(Slot) /\ Len(c) = d /\ \A k \in 1 .. d : c[k] = o.queue_[Nth(o, k - 1)]
  BY <1>2, <1>5 DEF Content, d
<1>7. i # e => Head(c) = o.queue_[i] /\ c[d] = o.queue_[(e + n - 1) % n]
  <2> SUFFICES ASSUME i # e PROVE Head(c) = o.queue_[i] /\ c[d] = o.queue_[(e + n - 1) % n]
    OBVIOUS
  <2>1. 1 \in 1 .. d /\ d \in 1 .. d
    BY <1>2
  <2>2. Nth(o, 1 - 1) = i /\ Nth(o, d - 1) = IF e = 0 THEN n - 1 ELSE e - 1
    <3>1. i + (1 - 1) < n /\ i + (1 - 1) = i
      BY <1>1
    <3>2. (IF i + (d - 1) < n THEN i + (d - 1) ELSE i + (d - 1) - n) = IF e = 0 THEN n - 1 ELSE e - 1
      BY <1>1, <1>2
    <3> QED BY <3>1, <3>2, <1>n
  <2>3. c # << >> /\ Head(c) = c[1]
    BY <1>6, <2>1
  <2> QED BY <1>4, <1>6, <2>1, <2>2, <2>3
<1>8. c = << >> <=> d = 0
  BY <1>6, EmptySeq
<1> QED BY <1>2, <1>3, <1>6, <1>7, <1>8 DEF length, empty, front, back, n, i, e, d

\* length(), empty(), front() and back() always tell the truth about the
\* content, wrapped or not: the connections look at the queue only through them.
LEMMA QueueEndsCorrect == QueueSpec => []EndsAgree
<1>1. QueueInv => EndsAgree
  BY GoodEnds DEF QueueInv, EndsAgree
<1> QED BY <1>1, QueueInvariance, PTL

-----------------------------------------------------------------------------
(* byte_length(): the loop, and the sum it is compared with, are recursive *)
(* functions.  Each exists, which is shown by induction on its bound, and  *)
(* the two agree from the last buffer of the content back to the first.    *)

\* The function that adds up the values of B from the first exists.
LEMMA SumExists ==
  ASSUME NEW B, NEW m \in Nat
  PROVE  \E f : f = [k \in 0 .. m |-> IF k = 0 THEN 0 ELSE B[k] + f[k - 1]]
<1> DEFINE S == {n \in Nat : \E f : f = [k \in 0 .. n |-> IF k = 0 THEN 0 ELSE B[k] + f[k - 1]]}
<1>1. 0 \in S
  <2> DEFINE f == [k \in 0 .. 0 |-> 0]
  <2>1. f = [k \in 0 .. 0 |-> IF k = 0 THEN 0 ELSE B[k] + f[k - 1]]
    OBVIOUS
  <2> QED BY <2>1
<1>2. ASSUME NEW n \in Nat, n \in S PROVE n + 1 \in S
  <2>1. PICK f : f = [k \in 0 .. n |-> IF k = 0 THEN 0 ELSE B[k] + f[k - 1]]
    BY <1>2
  <2> DEFINE g == [k \in 0 .. n + 1 |-> IF k = n + 1 THEN B[k] + f[n] ELSE f[k]]
  <2>2. \A k \in 0 .. n + 1 : g[k] = IF k = 0 THEN 0 ELSE B[k] + g[k - 1]
    <3>1. SUFFICES ASSUME NEW k \in 0 .. n + 1 PROVE g[k] = IF k = 0 THEN 0 ELSE B[k] + g[k - 1]
      OBVIOUS
    <3>2. CASE k = 0
      <4>1. g[k] = f[0]
        BY <3>2
      <4>2. f[0] = 0
        BY <2>1
      <4> QED BY <3>2, <4>1, <4>2
    <3>3. CASE k = n + 1
      <4>1. n \in 0 .. n + 1 /\ n # n + 1 /\ k - 1 = n /\ k # 0
        BY <3>3
      <4>2. g[n] = f[n]
        BY <4>1
      <4>3. g[k] = B[k] + f[n]
        BY <3>3
      <4> QED BY <4>1, <4>2, <4>3
    <3>4. CASE k # 0 /\ k # n + 1
      <4>1. k \in 0 .. n /\ k - 1 \in 0 .. n + 1 /\ k - 1 # n + 1
        BY <3>4
      <4>2. g[k] = f[k] /\ g[k - 1] = f[k - 1]
        BY <3>4, <4>1
      <4>3. f[k] = B[k] + f[k - 1]
        BY <2>1, <3>4, <4>1
      <4> QED BY <3>4, <4>2, <4>3
    <3> QED BY <3>2, <3>3, <3>4
  <2> HIDE DEF g
  <2>3. g = [k \in 0 .. n + 1 |-> g[k]]
    BY DEF g
  <2>4. g = [k \in 0 .. n + 1 |-> IF k = 0 THEN 0 ELSE B[k] + g[k - 1]]
    BY <2>2, <2>3
  <2> QED BY <2>4
<1> HIDE DEF S
<1>3. m \in S
  BY <1>1, <1>2, Induct
<1> QED BY <1>3 DEF S

\* What Total adds up.
LEMMA TotalIs ==
  ASSUME NEW c, Len(c) \in Nat
  PROVE  \E upto : /\ Total(c) = upto[Len(c)] /\ upto[0] = 0
                   /\ \A k \in 1 .. Len(c) : upto[k] = Bytes[c[k]] + upto[k - 1]
<1> DEFINE m == Len(c)
           B == [k \in 1 .. m |-> Bytes[c[k]]]
           f == CHOOSE f : f = [k \in 0 .. Len(c) |-> IF k = 0 THEN 0 ELSE Bytes[c[k]] + f[k - 1]]
<1>0. m \in Nat /\ \A k \in 1 .. m : B[k] = Bytes[c[k]]
  OBVIOUS
<1>1. \E g : g = [k \in 0 .. m |-> IF k = 0 THEN 0 ELSE B[k] + g[k - 1]]
  <2> HIDE DEF m, B
  <2> QED BY <1>0, SumExists
<1>2. \E g : g = [k \in 0 .. m |-> IF k = 0 THEN 0 ELSE Bytes[c[k]] + g[k - 1]]
  <2> HIDE DEF m, B
  <2>1. PICK g : g = [k \in 0 .. m |-> IF k = 0 THEN 0 ELSE B[k] + g[k - 1]]
    BY <1>1
  <2>2. \A k \in 0 .. m : (IF k = 0 THEN 0 ELSE B[k] + g[k - 1]) = (IF k = 0 THEN 0 ELSE Bytes[c[k]] + g[k - 1])
    BY <1>0
  <2>3. g = [k \in 0 .. m |-> IF k = 0 THEN 0 ELSE Bytes[c[k]] + g[k - 1]]
    BY <2>1, <2>2
  <2> QED BY <2>3
<1>3. f = [k \in 0 .. m |-> IF k = 0 THEN 0 ELSE Bytes[c[k]] + f[k - 1]]
  BY <1>2
<1>4. Total(c) = f[m]
  BY DEF Total
<1> HIDE DEF f, m
<1>5. f[0] = 0 /\ \A k \in 1 .. m : f[k] = Bytes[c[k]] + f[k - 1]
  BY <1>0, <1>3
<1> QED BY <1>4, <1>5 DEF m

\* What byte_length() adds up: the value at each index is the size of the
\* buffer there and the value at the next index.
LEMMA LoopIs ==
  ASSUME NEW o, IsRing(o)
  PROVE  \E from : /\ byte_length(o) = from[o.idx_]
                   /\ \A i \in 0 .. o.size - 1 :
                        from[i] = IF i = o.end_idx_ THEN 0
                                  ELSE Bytes[o.queue_[i]] + from[(i + 1) % o.size]
<1> DEFINE n == o.size
           e == o.end_idx_
           v == o.queue_
           f == CHOOSE f : f = [i \in 0 .. o.size - 1 |->
                                  IF i = o.end_idx_ THEN 0
                                  ELSE Bytes[o.queue_[i]] + f[(i + 1) % o.size]]
           at(k) == IF e - k >= 0 THEN e - k ELSE e - k + n
           steps(i) == IF i <= e THEN e - i ELSE e + n - i
           B == [k \in 1 .. n |-> Bytes[v[at(k)]]]
<1>1. n \in Nat /\ n >= 2 /\ e \in Nat /\ e < n
  BY QueueLengthAssumption DEF IsRing
<1>2. byte_length(o) = f[o.idx_]
  BY DEF byte_length
<1>3. \E g : g = [i \in 0 .. n - 1 |-> IF i = e THEN 0 ELSE Bytes[v[i]] + g[(i + 1) % n]]
  <2> HIDE DEF n, e, v
  <2>1. \E w : w = [k \in 0 .. n |-> IF k = 0 THEN 0 ELSE B[k] + w[k - 1]]
    <3> HIDE DEF B
    <3> QED BY <1>1, SumExists
  <2>2. PICK w : w = [k \in 0 .. n |-> IF k = 0 THEN 0 ELSE B[k] + w[k - 1]]
    BY <2>1
  <2>3. w[0] = 0 /\ \A k \in 1 .. n : w[k] = B[k] + w[k - 1]
    <3> HIDE DEF B
    <3> QED BY <1>1, <2>2
  <2> DEFINE g == [i \in 0 .. n - 1 |-> w[steps(i)]]
  <2>4. ASSUME NEW i \in 0 .. n - 1
        PROVE  g[i] = IF i = e THEN 0 ELSE Bytes[v[i]] + g[(i + 1) % n]
    <3>1. CASE i = e
      <4>1. steps(i) = 0
        BY <1>1, <3>1
      <4> QED BY <2>3, <3>1, <4>1
    <3>2. CASE i # e
      <4> DEFINE j == (i + 1) % n
                 d == steps(i)
      <4>1. j = IF i + 1 < n THEN i + 1 ELSE 0
        BY <1>1, WrapStep
      <4>2. d \in 1 .. n /\ at(d) = i
        BY <1>1, <3>2
      <4> HIDE DEF j
      <4>3. j \in 0 .. n - 1 /\ steps(j) = d - 1
        BY <1>1, <3>2, <4>1
      <4> HIDE DEF d
      <4>4. B[d] = Bytes[v[i]]
        BY <4>2
      <4> HIDE DEF B
      <4>5. w[d] = Bytes[v[i]] + w[d - 1]
        BY <2>3, <4>2, <4>4
      <4>6. g[i] = w[d] /\ g[j] = w[d - 1]
        BY <4>3 DEF d
      <4> QED BY <3>2, <4>5, <4>6 DEF j
    <3> QED BY <3>1, <3>2
  <2>5. g = [i \in 0 .. n - 1 |-> g[i]]
    OBVIOUS
  <2> HIDE DEF g
  <2>6. g = [i \in 0 .. n - 1 |-> IF i = e THEN 0 ELSE Bytes[v[i]] + g[(i + 1) % n]]
    BY <2>4, <2>5
  <2> QED BY <2>6
<1>4. f = [i \in 0 .. n - 1 |-> IF i = e THEN 0 ELSE Bytes[v[i]] + f[(i + 1) % n]]
  BY <1>3
<1> HIDE DEF f
<1>5. \A i \in 0 .. n - 1 : f[i] = IF i = e THEN 0 ELSE Bytes[v[i]] + f[(i + 1) % n]
  <2> HIDE DEF n, e, v
  <2> QED BY <1>4
<1> QED BY <1>2, <1>5

\* The loop of byte_length() adds up the sizes of the buffers of the content.
LEMMA GoodBytes ==
  ASSUME NEW o, GoodRing(o)
  PROVE  byte_length(o) = Total(Content(o))
<1> DEFINE n == o.size
           i == o.idx_
           e == o.end_idx_
           v == o.queue_
           d == Distance(o)
           c == Content(o)
           at(k) == IF i + k < n THEN i + k ELSE i + k - n
<1>1. /\ n \in Nat /\ n >= 2
      /\ i \in Nat /\ i < n
      /\ e \in Nat /\ e < n
      /\ v \in [0 .. n - 1 -> Slot]
  BY QueueLengthAssumption DEF GoodRing, IsRing
<1>2. d \in Nat /\ d < n /\ d = IF i <= e THEN e - i ELSE e + n - i
  BY <1>1 DEF Distance
<1>3. c = [k \in 1 .. d |-> v[at(k - 1)]]
  BY DEF Content, Nth
<1>4. \A k \in 0 .. n - 1 : v[at(k)] # NULL <=> k < d
  BY DEF GoodRing, Occupied, Nth
<1>5. PICK from : /\ byte_length(o) = from[i]
                  /\ \A x \in 0 .. n - 1 :
                       from[x] = IF x = e THEN 0 ELSE Bytes[v[x]] + from[(x + 1) % n]
  BY LoopIs DEF GoodRing
<1> HIDE DEF n, i, e, v, d, c
<1>6. Len(c) = d
  BY <1>2, <1>3
<1>7. PICK upto : /\ Total(c) = upto[d] /\ upto[0] = 0
                  /\ \A k \in 1 .. d : upto[k] = Bytes[c[k]] + upto[k - 1]
  BY <1>2, <1>6, TotalIs
<1>8. \A k \in 1 .. d : c[k] = v[at(k - 1)] /\ Bytes[c[k]] \in Nat
  <2> SUFFICES ASSUME NEW k \in 1 .. d
               PROVE  c[k] = v[at(k - 1)] /\ Bytes[c[k]] \in Nat
    OBVIOUS
  <2>1. k - 1 \in 0 .. n - 1 /\ k - 1 < d /\ at(k - 1) \in 0 .. n - 1
    BY <1>1, <1>2
  <2>2. c[k] = v[at(k - 1)]
    <3> HIDE DEF at
    <3> QED BY <1>3
  <2>3. v[at(k - 1)] # NULL /\ v[at(k - 1)] \in Slot
    <3> HIDE DEF at
    <3> QED BY <1>1, <1>4, <2>1
  <2>4. c[k] \in Buffers
    BY <2>2, <2>3 DEF Slot
  <2> QED BY <2>2, <2>4, BytesAssumption
<1>9. \A k \in Nat : k <= d => upto[k] \in Nat
  <2> DEFINE S == {k \in Nat : k <= d => upto[k] \in Nat}
  <2>1. 0 \in S
    BY <1>7
  <2>2. ASSUME NEW k \in Nat, k \in S PROVE k + 1 \in S
    <3>1. CASE k + 1 <= d
      <4>1. k + 1 \in 1 .. d /\ (k + 1) - 1 = k /\ k <= d
        BY <3>1, <1>2
      <4>2. upto[k + 1] = Bytes[c[k + 1]] + upto[k]
        BY <1>7, <4>1
      <4>3. Bytes[c[k + 1]] \in Nat
        BY <1>8, <4>1
      <4>4. upto[k] \in Nat
        BY <2>2, <4>1
      <4> QED BY <4>2, <4>3, <4>4
    <3>2. CASE ~(k + 1 <= d)
      BY <3>2
    <3> QED BY <3>1, <3>2
  <2> HIDE DEF S
  <2>3. Nat \subseteq S
    BY <2>1, <2>2, Induct
  <2> QED BY <2>3 DEF S
<1>10. \A j \in Nat : j <= d => from[at(d - j)] = upto[d] - upto[d - j]
  <2> DEFINE S == {j \in Nat : j <= d => from[at(d - j)] = upto[d] - upto[d - j]}
  <2>1. 0 \in S
    <3>1. at(d - 0) = e /\ d - 0 = d /\ upto[d] \in Nat /\ e \in 0 .. n - 1
      BY <1>1, <1>2, <1>9
    <3>2. from[e] = 0
      BY <1>5, <3>1
    <3> HIDE DEF at
    <3> QED BY <3>1, <3>2
  <2>2. ASSUME NEW j \in Nat, j \in S PROVE j + 1 \in S
    <3>1. CASE j + 1 <= d
      <4> DEFINE k == d - (j + 1)
                 x == at(k)
      <4>1. k \in Nat /\ k + 1 \in 1 .. d /\ k < d /\ d - j = k + 1 /\ j <= d /\ k <= d /\ k + 1 <= d
        BY <3>1, <1>2
      <4> HIDE DEF k
      <4>2. x \in 0 .. n - 1 /\ x # e /\ (x + 1 < n => at(k + 1) = x + 1) /\ (x + 1 >= n => at(k + 1) = 0)
        BY <4>1, <1>1, <1>2
      <4> HIDE DEF x
      <4>3. (x + 1) % n = at(k + 1)
        <5>1. (x + 1) % n = IF x + 1 < n THEN x + 1 ELSE 0
          BY <4>2, <1>1, WrapStep
        <5> HIDE DEF at
        <5> QED BY <5>1, <4>2, <1>1
      <4>4. from[x] = Bytes[v[x]] + from[at(k + 1)]
        <5> HIDE DEF at
        <5> QED BY <1>5, <4>2, <4>3
      <4>5. from[at(k + 1)] = upto[d] - upto[k + 1]
        <5> HIDE DEF at
        <5> QED BY <2>2, <4>1
      <4>6. c[k + 1] = v[x] /\ Bytes[c[k + 1]] \in Nat
        <5>1. (k + 1) - 1 = k
          BY <4>1
        <5> HIDE DEF at
        <5> QED BY <1>8, <4>1, <5>1 DEF x
      <4>7. upto[k + 1] = Bytes[c[k + 1]] + upto[k]
        <5>1. (k + 1) - 1 = k
          BY <4>1
        <5> QED BY <1>7, <4>1, <5>1
      <4>8. upto[k] \in Nat /\ upto[k + 1] \in Nat /\ upto[d] \in Nat
        BY <1>2, <1>9, <4>1
      <4>9. from[x] = upto[d] - upto[k]
        BY <4>4, <4>5, <4>6, <4>7, <4>8
      <4> QED BY <4>9, <3>1 DEF x, k
    <3>2. CASE ~(j + 1 <= d)
      BY <3>2
    <3> QED BY <3>1, <3>2
  <2> HIDE DEF S
  <2>3. Nat \subseteq S
    BY <2>1, <2>2, Induct
  <2> QED BY <2>3 DEF S
<1>11. at(d - d) = i /\ d - d = 0 /\ upto[d] \in Nat
  BY <1>1, <1>2, <1>9
<1>12. from[i] = upto[d]
  <2> HIDE DEF at
  <2> QED BY <1>2, <1>7, <1>10, <1>11
<1> QED BY <1>5, <1>7, <1>12 DEF c, i

\* What every observer answers is true of the content, byte_length() included:
\* its loop from idx_ to end_idx_, wrapping at the end of the vector, adds up
\* the sizes of exactly the buffers that wait.
THEOREM ObserversCorrect == QueueSpec => []ObserversAgree
<1>1. QueueInv /\ EndsAgree => ObserversAgree
  BY GoodBytes DEF QueueInv, ObserversAgree
<1> QED BY <1>1, QueueInvariance, QueueEndsCorrect, PTL

-----------------------------------------------------------------------------
(* Refinement. *)

LEMMA QueueStepRefines == QueueInv /\ [QueueNext]_object => [Abstract!Next]_Contents
<1> SUFFICES ASSUME QueueInv, [QueueNext]_object PROVE [Abstract!Next]_Contents
  OBVIOUS
<1> USE DEF Contents
<1>1. ASSUME NEW q \in Queues, NEW b \in Buffers, PushBack(q, b)
      PROVE  Abstract!push_back(q, b)
  BY <1>1, PushGood DEF PushBack, QueueInv, Abstract!push_back
<1>2. ASSUME NEW q \in Queues, PopFront(q) PROVE Abstract!pop_front(q)
  BY <1>2, PopGood DEF PopFront, QueueInv, Abstract!pop_front
<1>3. ASSUME NEW q \in Queues, Clear(q) PROVE Abstract!clear(q)
  BY <1>3, NewGood DEF Clear, QueueInv, Abstract!clear
<1>4. ASSUME NEW q \in Queues, NEW r \in Queues, q # r, MoveAssign(q, r)
      PROVE  Abstract!move_assign(q, r)
  BY <1>4, NewGood DEF MoveAssign, QueueInv, Abstract!move_assign
<1>5. ASSUME NEW q \in Queues, NEW r \in Queues, q # r, Swap(q, r)
      PROVE  Abstract!swap(q, r)
  BY <1>5 DEF Swap, QueueInv, Abstract!swap
<1>6. CASE UNCHANGED object
  BY <1>6
<1> QED BY <1>1, <1>2, <1>3, <1>4, <1>5, <1>6 DEF QueueNext, Abstract!Next

\* The ring buffer implements the unbounded FIFO queue: wrapping, doubling,
\* clearing, moving and swapping never lose, duplicate or reorder a buffer.
THEOREM Refinement == QueueSpec => Refines
<1>1. QueueInit => Abstract!Init
  BY NewGood DEF QueueInit, Abstract!Init, Contents
<1> QED BY <1>1, QueueStepRefines, QueueInvariance, PTL DEF QueueSpec, Refines, Abstract!Spec
=============================================================================
