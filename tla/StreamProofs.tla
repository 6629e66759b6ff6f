---------------------------- MODULE StreamProofs ----------------------------
(***************************************************************************)
(* Proofs about net::stream and net::ssl_stream (Stream), about their rate *)
(* limiter (RateLimit) and about the HTTP/2 tunnel that runs over them     *)
(* (Http2Tunnel), for every set of endpoint lists, every rate, every       *)
(* number of padded chunks and every bound.                                *)
(*                                                                         *)
(* WaitersContinue says that a callback that is kept has an operation      *)
(* behind it.  It is not inductive: an operation can be armed or its       *)
(* handler queued, a handler may be queued when the stream closes, and one *)
(* that was not cancelled in time still runs.  StreamInv therefore counts  *)
(* what is outstanding in each stage of connecting and waiting, and the    *)
(* lemmas on the queue say what a step does to that count.                 *)
(*                                                                         *)
(* RateBounded is about all that was moved since the stream connected,     *)
(* while the code only compares what was moved since a stamp: LimitInv     *)
(* says what the stamps before had paid for.                               *)
(*                                                                         *)
(* TunnelIntact is about what came out of the tunnel, which says nothing   *)
(* of a chunk that is cut in two or of padding that has yet to arrive.     *)
(* TunnelInv reads the tokens of each direction as an automaton does: what *)
(* the reader put aside, what is on the wire and what is still to be sent  *)
(* lead from the place where the reader is to the one where the writer is, *)
(* and the two agree on the padding.                                       *)
(***************************************************************************)
EXTENDS Stream, RateLimit, Http2Tunnel, SequenceTheorems, FiniteSetTheorems,
        WellFoundedInduction, TLAPS

-----------------------------------------------------------------------------
(* The operations that are queued, counted. *)

\* The positions of op in a sequence of handlers.
Places(s, op) == {i \in DOMAIN s : s[i] = op}

\* There are finitely many of them.
LEMMA PlacesFinite ==
  ASSUME NEW s \in Seq(Ops), NEW op
  PROVE  IsFiniteSet(Places(s, op)) /\ Cardinality(Places(s, op)) \in Nat
<1>1. IsFiniteSet(1 .. Len(s)) /\ Len(s) \in Nat
  BY FS_Interval, LenProperties
<1>2. Places(s, op) \in SUBSET (1 .. Len(s))
  BY LenProperties DEF Places
<1>3. IsFiniteSet(Places(s, op))
  BY <1>1, <1>2, FS_Subset
<1> QED BY <1>3, FS_CardinalityType

\* A handler that becomes ready is counted once more.
LEMMA PlacesAppend ==
  ASSUME NEW s \in Seq(Ops), NEW x \in Ops, NEW op
  PROVE  Cardinality(Places(Append(s, x), op)) =
           Cardinality(Places(s, op)) + IF x = op THEN 1 ELSE 0
<1>1. /\ Len(Append(s, x)) = Len(s) + 1 /\ Append(s, x) \in Seq(Ops)
      /\ \A i \in 1 .. Len(s) : Append(s, x)[i] = s[i]
      /\ Append(s, x)[Len(s) + 1] = x
  BY AppendProperties
<1>2. DOMAIN Append(s, x) = 1 .. Len(s) + 1 /\ DOMAIN s = 1 .. Len(s) /\ Len(s) \in Nat
  BY <1>1, LenProperties
<1>3. CASE x = op
  <2>1. Places(Append(s, x), op) = Places(s, op) \cup {Len(s) + 1}
    BY <1>1, <1>2, <1>3 DEF Places
  <2>2. Len(s) + 1 \notin Places(s, op)
    BY <1>2 DEF Places
  <2> QED BY <2>1, <2>2, <1>3, PlacesFinite, FS_AddElement
<1>4. CASE x # op
  <2>1. Places(Append(s, x), op) = Places(s, op)
    BY <1>1, <1>2, <1>4 DEF Places
  <2> QED BY <2>1, <1>4, PlacesFinite
<1> QED BY <1>3, <1>4

\* The handler that runs is counted no more.
LEMMA PlacesTail ==
  ASSUME NEW s \in Seq(Ops), s # << >>, NEW op
  PROVE  /\ Cardinality(Places(Tail(s), op)) =
              Cardinality(Places(s, op)) - IF Head(s) = op THEN 1 ELSE 0
         /\ Head(s) = op => Cardinality(Places(s, op)) >= 1
<1> DEFINE n == Len(s)
           P == Places(s, op) \ {1}
           Q == Places(Tail(s), op)
           f == [i \in P |-> i - 1]
<1>1. /\ n \in Nat \ {0} /\ DOMAIN s = 1 .. n /\ Head(s) = s[1]
      /\ Tail(s) \in Seq(Ops) /\ DOMAIN Tail(s) = 1 .. n - 1
      /\ \A i \in 1 .. n - 1 : Tail(s)[i] = s[i + 1]
  <2>1. n \in Nat /\ DOMAIN s = 1 .. n /\ n # 0
    BY LenProperties, EmptySeq
  <2>2. Tail(s) \in Seq(Ops) /\ Len(Tail(s)) = n - 1
    BY HeadTailProperties
  <2> QED BY <2>1, <2>2, HeadTailProperties, LenProperties
<1>2. P \subseteq 2 .. n /\ \A i \in P : s[i] = op
  BY <1>1 DEF Places
<1>3. f \in [P -> Q]
  BY <1>1, <1>2 DEF Places
<1>4. f \in Injection(P, Q)
  BY <1>2, <1>3 DEF Injection, IsInjective
<1>5. f \in Surjection(P, Q)
  <2>1. ASSUME NEW j \in Q PROVE \E i \in P : f[i] = j
    <3>1. j \in 1 .. n - 1 /\ s[j + 1] = op
      BY <1>1 DEF Places
    <3>2. j + 1 \in P /\ f[j + 1] = j
      BY <3>1, <1>1 DEF Places
    <3> QED BY <3>2
  <2> QED BY <1>3, <2>1 DEF Surjection
<1>6. ExistsBijection(P, Q)
  BY <1>4, <1>5 DEF ExistsBijection, Bijection
<1>7. IsFiniteSet(Places(s, op)) /\ Cardinality(Places(s, op)) \in Nat
  BY PlacesFinite
<1>8. IsFiniteSet(P) /\ Cardinality(P) =
         IF 1 \in Places(s, op) THEN Cardinality(Places(s, op)) - 1 ELSE Cardinality(Places(s, op))
  BY <1>7, FS_RemoveElement
<1>9. Cardinality(Q) = Cardinality(P)
  BY <1>6, <1>8, FS_Bijection
<1>10. 1 \in Places(s, op) <=> Head(s) = op
  BY <1>1 DEF Places
<1>11. Head(s) = op => Cardinality(Places(s, op)) # 0
  BY <1>7, <1>10, FS_EmptySet
<1> QED BY <1>7, <1>8, <1>9, <1>10, <1>11

\* An operation completes: it is queued once more.
LEMMA CompleteQueued ==
  ASSUME ready \in Seq(Ops), NEW x \in Ops, ready' = Append(ready, x), NEW op
  PROVE  /\ ready' \in Seq(Ops) /\ Queued(op) \in Nat
         /\ Queued(op)' = Queued(op) + IF x = op THEN 1 ELSE 0
<1>1. Queued(op) = Cardinality(Places(ready, op)) /\ Queued(op)' = Cardinality(Places(ready', op))
  BY DEF Queued, Places
<1>2. Queued(op) \in Nat
  BY <1>1, PlacesFinite
<1>3. ready' \in Seq(Ops)
  BY AppendProperties
<1> QED BY <1>1, <1>2, <1>3, PlacesAppend

\* A handler runs: it is queued once less.
LEMMA HandlesQueued ==
  ASSUME ready \in Seq(Ops), NEW x, Handles(x), NEW op
  PROVE  /\ ready' \in Seq(Ops) /\ Queued(op) \in Nat
         /\ Queued(op)' = Queued(op) - IF x = op THEN 1 ELSE 0
         /\ x = op => Queued(op) >= 1
<1>1. Queued(op) = Cardinality(Places(ready, op)) /\ Queued(op)' = Cardinality(Places(ready', op))
  BY DEF Queued, Places
<1>2. ready # << >> /\ Head(ready) = x /\ ready' = Tail(ready)
  BY DEF Handles, Running
<1>3. Queued(op) \in Nat
  BY <1>1, PlacesFinite
<1>4. ready' \in Seq(Ops)
  BY <1>2, HeadTailProperties
<1> QED BY <1>1, <1>2, <1>3, <1>4, PlacesTail

\* Nothing else is queued or taken from the queue.
LEMMA SameQueued ==
  ASSUME ready \in Seq(Ops), ready' = ready, NEW op
  PROVE  ready' \in Seq(Ops) /\ Queued(op) \in Nat /\ Queued(op)' = Queued(op)
BY PlacesFinite DEF Queued, Places

-----------------------------------------------------------------------------
(* The inductive invariant. *)

\* The operations that connecting is made of, one after the other.
ConnectStage == {"resolve", "connect", "handshake"}

\* Before async_connect there is nothing.
NotStarted ==
  ~started => armed = {} /\ ready = << >> /\ ~closed_ /\ ~connected_

\* A stream that is closed is not connected, has nothing armed and owes its
\* user no answer; only a closed stream is marked eof.
ClosedState ==
  /\ closed_ => armed = {} /\ ~connected_ /\ ~user_connect_callback_
  /\ eof_ => closed_

\* One step of connecting is under way until the stream is connected, and the
\* user waits for the answer; no timer runs beside the lookup.
ConnectState ==
  started /\ ~closed_ =>
    /\ Outstanding("resolve") + Outstanding("connect") + Outstanding("handshake")
         = IF connected_ THEN 0 ELSE 1
    /\ connected_ <=> ~user_connect_callback_
    /\ Outstanding("resolve") = 1 => "connect_timer" \notin armed

\* Nobody waits for the socket before the stream is connected.
NoEarlyWait ==
  ~connected_ /\ ~closed_ =>
    /\ "confirm" \notin armed
    /\ Outstanding("dl_delay_timer") = 0 /\ Outstanding("read_yield_timer") = 0
    /\ Outstanding("wait_read") = 0
    /\ Outstanding("ul_delay_timer") = 0 /\ Outstanding("wait_write") = 0
    /\ ~write_inprogress_

\* write_inprogress_ is set for the socket's wait and never for the delay timer,
\* of which a closed stream may still have an expiry queued.
WriteProgress ==
  /\ write_inprogress_ => Outstanding("ul_delay_timer") = 0
  /\ Usable /\ write_inprogress_ => Outstanding("wait_write") = 1

\* The inductive invariant.
StreamInv ==
  /\ TypeOK /\ NotStarted /\ ClosedState /\ ConnectState /\ NoEarlyWait
  /\ ReaderContinues /\ WriterContinues /\ WriteProgress
  /\ OneWriter /\ ConnectCallbackSpent

\* The handler of x runs, if x is an operation; nothing is taken from the queue
\* otherwise.
QueueStep(x) ==
  /\ ready' \in Seq(Ops)
  /\ \A op \in Ops : /\ Queued(op) \in Nat /\ Queued(op)' \in Nat
                     /\ Queued(op) = Queued(op)' + IF x = op THEN 1 ELSE 0

\* A handler that runs is taken from the queue.
LEMMA HandlesStep ==
  ASSUME ready \in Seq(Ops), NEW x \in Ops, Handles(x)
  PROVE  QueueStep(x) /\ ready # << >> /\ Queued(x) >= 1 /\ UNCHANGED settings
<1>1. ASSUME NEW op \in Ops
      PROVE  /\ Queued(op) \in Nat /\ Queued(op)' \in Nat
             /\ Queued(op) = Queued(op)' + IF x = op THEN 1 ELSE 0
             /\ x = op => Queued(op) >= 1
  BY HandlesQueued
<1>2. ready' \in Seq(Ops)
  BY HandlesQueued
<1> QED BY <1>1, <1>2 DEF QueueStep, Handles, Running

\* A step that leaves the queue alone.
LEMMA RestStep ==
  ASSUME ready \in Seq(Ops), ready' = ready
  PROVE  QueueStep("none")
BY SameQueued DEF QueueStep, Ops, ConnectOps, ReadOps, WriteOps

\* An operation of an open stream that has not connected is the only one.
LEMMA Alone ==
  ASSUME StreamInv, ~closed_, started, NEW x \in ConnectStage, QueueStep(x), Queued(x) >= 1
  PROVE  /\ ~connected_ /\ user_connect_callback_ /\ ~eof_
         /\ \A op \in ConnectStage : op \notin armed /\ Queued(op)' = 0
         /\ armed \subseteq {"connect_timer"}
         /\ x = "resolve" => armed = {}
<1>1. /\ Queued("resolve") \in Nat /\ Queued("connect") \in Nat /\ Queued("handshake") \in Nat
      /\ Queued("resolve")' \in Nat /\ Queued("connect")' \in Nat /\ Queued("handshake")' \in Nat
      /\ Queued("resolve") = Queued("resolve")' + IF x = "resolve" THEN 1 ELSE 0
      /\ Queued("connect") = Queued("connect")' + IF x = "connect" THEN 1 ELSE 0
      /\ Queued("handshake") = Queued("handshake")' + IF x = "handshake" THEN 1 ELSE 0
      /\ x \in {"resolve", "connect", "handshake"}
  BY DEF QueueStep, Ops, ConnectOps, ConnectStage
<1>2. ~connected_ /\ user_connect_callback_
  <2>1. Outstanding("resolve") + Outstanding("connect") + Outstanding("handshake") >= 1
    BY <1>1 DEF Outstanding
  <2>2. Outstanding("resolve") + Outstanding("connect") + Outstanding("handshake")
         = IF connected_ THEN 0 ELSE 1
    BY DEF StreamInv, ConnectState
  <2>3. ~connected_
    BY <2>1, <2>2
  <2>4. user_connect_callback_
    BY <2>3 DEF StreamInv, ConnectState
  <2> QED BY <2>3, <2>4
<1>3. \A op \in ConnectStage : op \notin armed /\ Queued(op)' = 0
  BY <1>1, <1>2 DEF StreamInv, ConnectState, ConnectStage, Outstanding
<1>4. \A op \in ReadOps \cup WriteOps \cup {"confirm"} : op \notin armed
  <2>1. "confirm" \notin armed /\ \A op \in ReadOps \cup WriteOps : Outstanding(op) = 0
    BY <1>2 DEF StreamInv, NoEarlyWait, ReadOps, WriteOps
  <2>2. \A op \in ReadOps \cup WriteOps : Queued(op) \in Nat
    BY DEF QueueStep, Ops
  <2> QED BY <2>1, <2>2 DEF Outstanding
<1>5. armed \subseteq {"connect_timer"}
  BY <1>3, <1>4 DEF StreamInv, TypeOK, Ops, ConnectOps, ReadOps, WriteOps, ConnectStage
<1>6. x = "resolve" => "connect_timer" \notin armed
  BY <1>1, <1>2, <1>3 DEF StreamInv, ConnectState, ConnectStage, Outstanding
<1> QED BY <1>2, <1>3, <1>5, <1>6 DEF StreamInv, ClosedState

\* What the user can hear.
Answers == {"none", "connected", "failed", "lost"}

\* What is outstanding after a step, from what was before.
LEMMA OutstandingStep ==
  ASSUME NEW x, QueueStep(x), NEW op \in Ops
  PROVE  /\ Outstanding(op) \in Nat /\ Outstanding(op)' \in Nat
         /\ op \notin armed' /\ Outstanding(op) = 0 => Outstanding(op)' = 0
         /\ armed' = armed /\ x # op => Outstanding(op)' = Outstanding(op)
<1>1. /\ Queued(op) \in Nat /\ Queued(op)' \in Nat
      /\ Queued(op) = Queued(op)' + IF x = op THEN 1 ELSE 0
  BY DEF QueueStep
<1>2. Outstanding(op)' = (IF op \in armed' THEN 1 ELSE 0) + Queued(op)'
  BY DEF Outstanding
<1> QED BY <1>1, <1>2 DEF Outstanding

\* The stream is closed while its user hears of it.
LEMMA ClosedByUserKeeps ==
  ASSUME StreamInv, started, NEW x, QueueStep(x), NEW news \in Answers, closed_by_user(news),
         UNCHANGED settings, quit' \in BOOLEAN, failed' = failed
  PROVE  StreamInv'
<1> USE DEF StreamInv, closed_by_user, close
<1>1. TypeOK'
  BY DEF TypeOK, settings, Answers, QueueStep
<1>2. NotStarted' /\ ClosedState' /\ ConnectState' /\ NoEarlyWait'
  BY DEF NotStarted, ClosedState, ConnectState, NoEarlyWait
<1>3. ReaderContinues' /\ WriterContinues'
  BY DEF ReaderContinues, WriterContinues, Usable
<1>4. WriteProgress'
  <2>1. ASSUME write_inprogress_' PROVE Outstanding("ul_delay_timer")' = 0
    <3>1. Outstanding("ul_delay_timer") = 0
      BY <2>1 DEF WriteProgress
    <3> QED BY <3>1, OutstandingStep DEF Ops, WriteOps
  <2> QED BY <2>1 DEF WriteProgress, Usable
<1>5. OneWriter' /\ ConnectCallbackSpent'
  BY DEF OneWriter, ConnectCallbackSpent
<1> QED BY <1>1, <1>2, <1>3, <1>4, <1>5

\* The stream gives up connecting.
LEMMA GiveUpKeeps ==
  ASSUME StreamInv, ~connected_, NEW x, QueueStep(x), give_up, started', armed' = {},
         endpoints_' \in {<< >>, endpoints_}, UNCHANGED <<settings, quit, failed>>
  PROVE  StreamInv'
<1> USE DEF StreamInv, give_up, waitVars
<1>1. TypeOK'
  BY DEF TypeOK, settings, QueueStep
<1>2. NotStarted' /\ ClosedState' /\ ConnectState' /\ NoEarlyWait'
  BY DEF NotStarted, ClosedState, ConnectState, NoEarlyWait
<1>3. ReaderContinues' /\ WriterContinues'
  BY DEF ReaderContinues, WriterContinues, Usable
<1>4. WriteProgress'
  <2>1. ASSUME write_inprogress_' PROVE Outstanding("ul_delay_timer")' = 0
    <3>1. Outstanding("ul_delay_timer") = 0
      BY <2>1 DEF WriteProgress
    <3> QED BY <3>1, OutstandingStep DEF Ops, WriteOps
  <2> QED BY <2>1 DEF WriteProgress, Usable
<1>5. OneWriter' /\ ConnectCallbackSpent'
  BY DEF OneWriter, ConnectCallbackSpent
<1> QED BY <1>1, <1>2, <1>3, <1>4, <1>5

\* What is left of the answer of a lookup.
Left(e) == e = << >> \/ \E list \in Lists : \E i \in 2 .. Len(list) : e = SubSeq(list, i, Len(list))

\* An attempt to connect begins.
LEMMA AttemptKeeps ==
  ASSUME StreamInv, ~connected_, ~closed_, ~eof_, NEW x, QueueStep(x), x \notin ReadOps \cup WriteOps,
         \A op \in ConnectStage : Queued(op)' = 0,
         NEW stage \in ConnectStage, stage \in armed',
         armed' \subseteq {stage, "connect_timer"}, stage = "resolve" => "connect_timer" \notin armed',
         started', user_connect_callback_', UNCHANGED <<closed_, connected_, eof_, waitVars, answer>>,
         Left(endpoints_'), user_connect_callback_' \in BOOLEAN, started' \in BOOLEAN,
         UNCHANGED <<settings, quit, failed>>
  PROVE  StreamInv'
<1> USE DEF StreamInv, waitVars
<1>1. TypeOK'
  BY DEF TypeOK, settings, QueueStep, Ops, ConnectOps, ConnectStage, Left
<1>2. NotStarted' /\ ClosedState'
  BY DEF NotStarted, ClosedState
<1>3. ConnectState'
  <2>1. /\ Outstanding("resolve")' = IF stage = "resolve" THEN 1 ELSE 0
        /\ Outstanding("connect")' = IF stage = "connect" THEN 1 ELSE 0
        /\ Outstanding("handshake")' = IF stage = "handshake" THEN 1 ELSE 0
    BY DEF Outstanding, ConnectStage
  <2>2. Outstanding("resolve")' + Outstanding("connect")' + Outstanding("handshake")' = 1
    BY <2>1 DEF ConnectStage
  <2>3. Outstanding("resolve")' = 1 => "connect_timer" \notin armed'
    BY <2>1
  <2> QED BY <2>2, <2>3 DEF ConnectState
<1>4. /\ \A op \in ReadOps \cup WriteOps : Outstanding(op)' = 0
      /\ "confirm" \notin armed' /\ ~write_inprogress_ /\ ~read_inprogress_
  <2>1. /\ \A op \in ReadOps \cup WriteOps : Outstanding(op) = 0
        /\ ~write_inprogress_
    BY DEF NoEarlyWait, ReadOps, WriteOps
  <2>2. ~read_inprogress_
    BY <2>1 DEF ReaderContinues, ReadOps
  <2>3. \A op \in ReadOps \cup WriteOps : op \in Ops /\ op \notin armed'
    BY DEF Ops, ReadOps, WriteOps, ConnectStage
  <2>4. "confirm" \notin armed'
    BY DEF ConnectStage
  <2> QED BY <2>1, <2>2, <2>3, <2>4, OutstandingStep
<1>5. NoEarlyWait'
  BY <1>4 DEF NoEarlyWait, ReadOps, WriteOps
<1>6. ReaderContinues' /\ WriterContinues' /\ WriteProgress'
  BY <1>4 DEF ReaderContinues, WriterContinues, WriteProgress, Usable, ReadOps, WriteOps
<1>7. OneWriter' /\ ConnectCallbackSpent'
  BY DEF OneWriter, ConnectCallbackSpent
<1> QED BY <1>1, <1>2, <1>3, <1>5, <1>6, <1>7

\* The end of the end of a sequence is an end of it.
LEMMA EndOfEnd ==
  ASSUME NEW S, NEW s \in Seq(S), NEW k \in 1 .. Len(s), NEW i \in Nat, k + i <= Len(s)
  PROVE  SubSeq(SubSeq(s, k, Len(s)), i + 1, Len(s) - k + 1) = SubSeq(s, k + i, Len(s))
<1> DEFINE n == Len(s)
           t == SubSeq(s, k, n)
           a == SubSeq(t, i + 1, n - k + 1)
           b == SubSeq(s, k + i, n)
<1>1. n \in Nat /\ DOMAIN s = 1 .. n /\ \A j \in 1 .. n : s[j] \in S
  BY LenProperties, ElementOfSeq
<1>2. t \in Seq(S) /\ Len(t) = n - k + 1 /\ \A j \in 1 .. n - k + 1 : t[j] = s[k + j - 1]
  BY <1>1, SubSeqProperties
<1> HIDE DEF t
<1>3. a \in Seq(S) /\ Len(a) = n - k - i + 1 /\ \A j \in 1 .. n - k - i + 1 : a[j] = t[i + j]
  <2>1. \A j \in i + 1 .. n - k + 1 : t[j] \in S
    BY <1>1, <1>2
  <2>2. /\ SubSeq(t, i + 1, n - k + 1) \in Seq(S)
        /\ Len(SubSeq(t, i + 1, n - k + 1)) =
             IF i + 1 <= n - k + 1 THEN (n - k + 1) - (i + 1) + 1 ELSE 0
        /\ \A j \in 1 .. (n - k + 1) - (i + 1) + 1 : SubSeq(t, i + 1, n - k + 1)[j] = t[(i + 1) + j - 1]
    BY <1>1, <2>1, SubSeqProperties
  <2> QED BY <1>1, <2>2
<1>4. b \in Seq(S) /\ Len(b) = n - k - i + 1 /\ \A j \in 1 .. n - k - i + 1 : b[j] = s[k + i + j - 1]
  <2>1. \A j \in k + i .. n : s[j] \in S
    BY <1>1
  <2>2. /\ SubSeq(s, k + i, n) \in Seq(S)
        /\ Len(SubSeq(s, k + i, n)) = IF k + i <= n THEN n - (k + i) + 1 ELSE 0
        /\ \A j \in 1 .. n - (k + i) + 1 : SubSeq(s, k + i, n)[j] = s[(k + i) + j - 1]
    BY <1>1, <2>1, SubSeqProperties
  <2> QED BY <1>1, <2>2
<1> HIDE DEF a, b
<1>5. \A j \in 1 .. Len(a) : a[j] = b[j]
  <2> TAKE j \in 1 .. Len(a)
  <2>1. j \in 1 .. n - k - i + 1 /\ i + j \in 1 .. n - k + 1 /\ k + (i + j) - 1 = k + i + j - 1
    BY <1>1, <1>3
  <2>2. a[j] = t[i + j] /\ t[i + j] = s[k + (i + j) - 1] /\ b[j] = s[k + i + j - 1]
    BY <1>2, <1>3, <1>4, <2>1
  <2> QED BY <2>1, <2>2
<1>6. a = b
  BY <1>3, <1>4, <1>5, SeqEqual
<1> QED BY <1>6 DEF a, b, t

\* Endpoints that are passed over leave an end of what was left.
LEMMA LeftAgain ==
  ASSUME NEW list, list \in Lists \/ Left(list), NEW i \in DOMAIN list
  PROVE  Left(SubSeq(list, i + 1, Len(list)))
<1>1. CASE list \in Lists
  <2>1. list \in Seq(EndpointKinds)
    BY <1>1, ListsAssumption
  <2>2. i \in 1 .. Len(list) /\ Len(list) \in Nat
    BY <2>1, LenProperties
  <2>3. CASE i = Len(list)
    BY <2>2, <2>3, SubSeqEmpty DEF Left
  <2>4. CASE i # Len(list)
    <3>1. i + 1 \in 2 .. Len(list)
      BY <2>2, <2>4
    <3> QED BY <1>1, <3>1 DEF Left
  <2> QED BY <2>3, <2>4
<1>2. CASE list = << >>
  BY <1>2
<1>3. CASE \E l \in Lists : \E k \in 2 .. Len(l) : list = SubSeq(l, k, Len(l))
  <2>0. PICK l \in Lists : \E k \in 2 .. Len(l) : list = SubSeq(l, k, Len(l))
    BY <1>3
  <2>1. PICK k \in 2 .. Len(l) : list = SubSeq(l, k, Len(l))
    BY <2>0
  <2>2. l \in Seq(EndpointKinds) /\ Len(l) \in Nat /\ k \in 1 .. Len(l)
    BY ListsAssumption, LenProperties
  <2>3. list \in Seq(EndpointKinds) /\ Len(list) = Len(l) - k + 1
    <3>1. \A j \in k .. Len(l) : l[j] \in EndpointKinds
      BY <2>2, ElementOfSeq
    <3> QED BY <2>1, <2>2, <3>1, SubSeqProperties
  <2>4. i \in 1 .. Len(list)
    BY <2>3, LenProperties
  <2>5. CASE i = Len(list)
    <3>1. SubSeq(list, i + 1, Len(list)) = << >>
      BY <2>2, <2>3, <2>4, <2>5, SubSeqEmpty
    <3> QED BY <3>1 DEF Left
  <2>6. CASE i # Len(list)
    <3>1. k + i <= Len(l) /\ k + i \in 2 .. Len(l) /\ i \in Nat
      BY <2>2, <2>3, <2>4, <2>6
    <3>2. SubSeq(SubSeq(l, k, Len(l)), i + 1, Len(l) - k + 1) = SubSeq(l, k + i, Len(l))
      BY <2>2, <3>1, EndOfEnd
    <3>3. SubSeq(list, i + 1, Len(list)) = SubSeq(l, k + i, Len(l))
      BY <2>1, <2>3, <3>2
    <3> QED BY <3>1, <3>3 DEF Left
  <2> QED BY <2>5, <2>6
<1> QED BY <1>1, <1>2, <1>3 DEF Left

\* on_try_next_endpoint, of a stream that is connecting and has nothing but the
\* timer armed: of the first lookup or of the endpoints that are left.
LEMMA TryNextKeeps ==
  ASSUME StreamInv, ~connected_, ~closed_, ~eof_, NEW x, QueueStep(x), x \notin ReadOps \cup WriteOps,
         \A op \in ConnectStage : Queued(op)' = 0,
         NEW list, list \in Lists \/ (list = endpoints_ /\ endpoints_ # << >>),
         NEW left, left = {},
         user_connect_callback_ \/ ~started, started' = TRUE,
         try_next(list, left), UNCHANGED <<settings, quit, failed>>
  PROVE  StreamInv'
<1>1. PICK i \in Stops(list) :
        IF i = 0
          THEN endpoints_' = << >> /\ armed' = left /\ give_up
          ELSE /\ endpoints_' = SubSeq(list, i + 1, Len(list))
               /\ armed' = left \union {"connect"} \union
                             (IF connect_timeout THEN {"connect_timer"} ELSE {})
               /\ user_connect_callback_' = (user_connect_callback_ \/ ~started)
               /\ UNCHANGED <<closed_, connected_, eof_, waitVars, answer>>
  BY DEF try_next
<1>2. CASE i = 0
  <2>1. endpoints_' = << >> /\ armed' = {} /\ give_up
    BY <1>1, <1>2
  <2> QED BY <2>1, GiveUpKeeps
<1>3. CASE i # 0
  <2>1. /\ endpoints_' = SubSeq(list, i + 1, Len(list))
        /\ armed' = {"connect"} \union (IF connect_timeout THEN {"connect_timer"} ELSE {})
        /\ user_connect_callback_' = (user_connect_callback_ \/ ~started)
        /\ UNCHANGED <<closed_, connected_, eof_, waitVars, answer>>
        /\ i \in DOMAIN list
    BY <1>1, <1>3 DEF Stops
  <2>2. list \in Lists \/ Left(list)
    BY DEF StreamInv, TypeOK, Left
  <2>3. Left(endpoints_')
    BY <2>1, <2>2, LeftAgain
  <2>4. user_connect_callback_' /\ user_connect_callback_' \in BOOLEAN
    BY <2>1
  <2>5. /\ "connect" \in armed' /\ armed' \subseteq {"connect", "connect_timer"}
        /\ "connect" \in ConnectStage
    BY <2>1 DEF ConnectStage
  <2> QED BY <2>1, <2>3, <2>4, <2>5, AttemptKeeps
<1> QED BY <1>2, <1>3

\* A handler that meets a closed stream returns.
LEMMA ClosedReturnKeeps ==
  ASSUME StreamInv, closed_, NEW x, QueueStep(x), ready # << >>, NEW site, closed_return(site),
         UNCHANGED <<settings, quit>>
  PROVE  StreamInv'
<1> USE DEF StreamInv, closed_return, connectVars, waitVars
<1>1. TypeOK'
  BY DEF TypeOK, settings, QueueStep
<1>2. NotStarted' /\ ClosedState' /\ ConnectState' /\ NoEarlyWait'
  BY DEF NotStarted, ClosedState, ConnectState, NoEarlyWait
<1>3. ReaderContinues' /\ WriterContinues'
  BY DEF ReaderContinues, WriterContinues, Usable
<1>4. WriteProgress'
  <2>1. ASSUME write_inprogress_' PROVE Outstanding("ul_delay_timer")' = 0
    <3>1. Outstanding("ul_delay_timer") = 0
      BY <2>1 DEF WriteProgress
    <3>2. "ul_delay_timer" \notin armed'
      BY DEF ClosedState
    <3> QED BY <3>1, <3>2, OutstandingStep DEF Ops, WriteOps
  <2> QED BY <2>1 DEF WriteProgress, Usable
<1>5. failed' = failed
  BY DEF ClosedState, Fails
<1>6. OneWriter' /\ ConnectCallbackSpent'
  BY <1>5 DEF OneWriter, ConnectCallbackSpent
<1> QED BY <1>1, <1>2, <1>3, <1>4, <1>6

\* The stream connects: the user may write, and nobody waits yet.
LEMMA ConnectSucceededKeeps ==
  ASSUME StreamInv, ~connected_, ~closed_, ~eof_, user_connect_callback_, started,
         NEW x, QueueStep(x), x \notin ReadOps \cup WriteOps,
         \A op \in ConnectStage : op \notin armed /\ Queued(op)' = 0,
         NEW more, more \subseteq {"confirm"}, connect_succeeded(more),
         UNCHANGED <<settings, quit, failed>>
  PROVE  StreamInv'
<1> USE DEF StreamInv, connect_succeeded, timer_cancelled
<1>1. TypeOK'
  <2>1. armed' \subseteq Ops
    BY DEF TypeOK, Ops, ConnectOps
  <2>2. answer' \in Answers
    BY DEF TypeOK, Answers
  <2> QED BY <2>1, <2>2 DEF TypeOK, settings, QueueStep, Answers
<1>2. NotStarted' /\ ClosedState'
  BY DEF NotStarted, ClosedState
<1>3. ConnectState'
  <2>1. Outstanding("resolve")' = 0 /\ Outstanding("connect")' = 0 /\ Outstanding("handshake")' = 0
    BY DEF Outstanding, ConnectStage
  <2>2. Outstanding("resolve")' + Outstanding("connect")' + Outstanding("handshake")' = 0
    BY <2>1
  <2>3. Outstanding("resolve")' # 1
    BY <2>1
  <2> QED BY <2>2, <2>3 DEF ConnectState
<1>4. /\ \A op \in ReadOps \cup WriteOps : Outstanding(op)' = 0
      /\ ~write_inprogress_ /\ ~read_inprogress_
  <2>1. /\ \A op \in ReadOps \cup WriteOps : Outstanding(op) = 0
        /\ ~write_inprogress_
    BY DEF NoEarlyWait, ReadOps, WriteOps
  <2>2. ~read_inprogress_
    BY <2>1 DEF ReaderContinues, ReadOps
  <2>3. \A op \in ReadOps \cup WriteOps : op \in Ops /\ op \notin armed
    <3>1. \A op \in ReadOps \cup WriteOps : Queued(op) \in Nat /\ op \in Ops
      BY DEF QueueStep, Ops
    <3> QED BY <2>1, <3>1 DEF Outstanding
  <2>4. \A op \in ReadOps \cup WriteOps : op \notin armed'
    BY <2>3 DEF ReadOps, WriteOps
  <2> QED BY <2>1, <2>2, <2>3, <2>4, OutstandingStep
<1>5. NoEarlyWait'
  BY DEF NoEarlyWait
<1>6. ReaderContinues' /\ WriteProgress'
  BY <1>4 DEF ReaderContinues, WriteProgress, Usable, ReadOps, WriteOps
<1>7. WriterContinues'
  BY <1>4 DEF WriterContinues, Usable, WriteOps
<1>8. OneWriter' /\ ConnectCallbackSpent'
  BY DEF OneWriter, ConnectCallbackSpent
<1> QED BY <1>1, <1>2, <1>3, <1>5, <1>6, <1>7, <1>8

\* What a step has to keep when it only moves a wait: the connection and the
\* answers are as they were, and the step is no handler of connecting.
WaitStep(x) ==
  /\ QueueStep(x) /\ x \notin ConnectStage
  /\ started /\ UNCHANGED <<settings, connectVars, answer, quit>>
  /\ armed' \cap ConnectOps = armed \cap ConnectOps

\* Parts of the invariant that a wait does not touch.
LEMMA WaitStepKeeps ==
  ASSUME StreamInv, NEW x, WaitStep(x), closed_ => armed' = {}, armed' \subseteq Ops
  PROVE  NotStarted' /\ ClosedState' /\ ConnectState'
<1>1. NotStarted' /\ ClosedState'
  BY DEF StreamInv, WaitStep, NotStarted, ClosedState, connectVars
<1>2. ASSUME NEW op \in ConnectStage PROVE Outstanding(op)' = Outstanding(op)
  <2>1. op \in ConnectOps /\ op \in Ops /\ x # op
    BY DEF WaitStep, ConnectStage, ConnectOps, Ops
  <2>2. op \in armed' <=> op \in armed
    BY <2>1 DEF WaitStep
  <2>3. Queued(op)' = Queued(op)
    BY <2>1 DEF WaitStep, QueueStep
  <2>4. Outstanding(op)' = (IF op \in armed' THEN 1 ELSE 0) + Queued(op)'
    BY DEF Outstanding
  <2> QED BY <2>2, <2>3, <2>4 DEF Outstanding
<1>3. /\ Outstanding("resolve")' = Outstanding("resolve")
      /\ Outstanding("connect")' = Outstanding("connect")
      /\ Outstanding("handshake")' = Outstanding("handshake")
  BY <1>2 DEF ConnectStage
<1>4. "connect_timer" \in armed' <=> "connect_timer" \in armed
  BY DEF WaitStep, ConnectOps
<1>5. ConnectState'
  BY <1>3, <1>4 DEF StreamInv, WaitStep, connectVars, ConnectState
<1> QED BY <1>1, <1>5

\* wait_read, entered with no read outstanding but the handler that runs.
LEMMA WaitReadKeeps ==
  ASSUME StreamInv, NEW x, QueueStep(x), x \in ReadOps \cup {"none"}, started, UNCHANGED settings,
         x # "none" => ready # << >>,
         ~closed_ => \A op \in ReadOps : op \notin armed /\ Queued(op)' = 0,
         ~closed_ => connected_,
         NEW callback \in BOOLEAN, NEW yield \in BOOLEAN, wait_read(callback, yield)
  PROVE  StreamInv'
<1> USE DEF StreamInv
<1>1. /\ UNCHANGED connectVars
      /\ UNCHANGED <<wait_write_callback_, write_inprogress_, writable, answer, quit>>
      /\ failed' = failed \union Fails("wait_read_callback", callback)
  BY DEF wait_read
<1>2. PICK op \in ReadOps :
        \/ /\ ~Usable /\ read_inprogress_' = FALSE /\ wait_read_callback_' = FALSE
           /\ armed' = armed
        \/ /\ Usable /\ read_inprogress_' = TRUE /\ wait_read_callback_' = callback
           /\ armed' = armed \cup {op}
  <2>1. CASE ~Usable
    <3>1. read_inprogress_' = FALSE /\ wait_read_callback_' = FALSE /\ armed' = armed
      BY <2>1 DEF wait_read
    <3>2. "wait_read" \in ReadOps
      BY DEF ReadOps
    <3> QED BY <2>1, <3>1, <3>2
  <2>2. CASE Usable
    <3>1. PICK o \in {IF yield THEN "read_yield_timer" ELSE "wait_read"}
                       \union (IF limit_rate THEN {"dl_delay_timer"} ELSE {}) :
             /\ read_inprogress_' = TRUE /\ wait_read_callback_' = callback
             /\ armed' = armed \union {o}
      BY <2>2 DEF wait_read
    <3>2. o \in ReadOps
      BY DEF ReadOps
    <3> QED BY <2>2, <3>1, <3>2
  <2> QED BY <2>1, <2>2
<1>3. WaitStep(x) /\ (closed_ => armed' = {}) /\ armed' \subseteq Ops
  <2>1. armed' \cap ConnectOps = armed \cap ConnectOps
    BY <1>2 DEF ReadOps, ConnectOps
  <2>2. closed_ => armed' = {}
    BY <1>2 DEF ClosedState, Usable
  <2>3. armed' \subseteq Ops
    BY <1>2 DEF TypeOK, Ops
  <2>4. x \notin ConnectStage
    BY DEF ConnectStage, ReadOps
  <2> QED BY <1>1, <2>1, <2>2, <2>3, <2>4 DEF WaitStep
<1>4. NotStarted' /\ ClosedState' /\ ConnectState'
  BY <1>3, WaitStepKeeps
<1>5. TypeOK'
  <2>1. read_inprogress_' \in BOOLEAN /\ wait_read_callback_' \in BOOLEAN
    BY <1>2
  <2> QED BY <1>1, <1>3, <2>1 DEF TypeOK, settings, connectVars, QueueStep
<1>6. NoEarlyWait'
  BY <1>1 DEF NoEarlyWait, connectVars
<1>7. ReaderContinues'
  <2> SUFFICES ASSUME ~closed_ PROVE ReaderContinues'
    BY <1>1 DEF ReaderContinues, connectVars
  <2>1. Usable /\ read_inprogress_' = TRUE /\ armed' = armed \cup {op}
    BY <1>2 DEF Usable
  <2>2. /\ Outstanding("dl_delay_timer")' = IF op = "dl_delay_timer" THEN 1 ELSE 0
        /\ Outstanding("read_yield_timer")' = IF op = "read_yield_timer" THEN 1 ELSE 0
        /\ Outstanding("wait_read")' = IF op = "wait_read" THEN 1 ELSE 0
    BY <2>1 DEF Outstanding, ReadOps
  <2>3. Outstanding("dl_delay_timer")' + Outstanding("read_yield_timer")' + Outstanding("wait_read")' = 1
    BY <2>2 DEF ReadOps
  <2> QED BY <2>1, <2>3 DEF ReaderContinues
<1>8. /\ Outstanding("ul_delay_timer")' = Outstanding("ul_delay_timer")
      /\ Outstanding("wait_write")' = Outstanding("wait_write")
  <2>1. ASSUME NEW o \in WriteOps PROVE Outstanding(o)' = Outstanding(o)
    <3>1. (o \in armed' <=> o \in armed) /\ x # o /\ o \in Ops
      BY <1>2 DEF ReadOps, WriteOps, Ops
    <3>2. Queued(o)' = Queued(o)
      BY <3>1 DEF QueueStep
    <3>3. Outstanding(o)' = (IF o \in armed' THEN 1 ELSE 0) + Queued(o)'
      BY DEF Outstanding
    <3> QED BY <3>1, <3>2, <3>3 DEF Outstanding
  <2> QED BY <2>1 DEF WriteOps
<1>9. WriterContinues' /\ WriteProgress'
  BY <1>1, <1>8 DEF WriterContinues, WriteProgress, Usable, connectVars
<1>10. OneWriter' /\ ConnectCallbackSpent'
  BY <1>1 DEF OneWriter, ConnectCallbackSpent, Fails
<1> QED BY <1>4, <1>5, <1>6, <1>7, <1>9, <1>10

\* wait_write, entered with no write outstanding but the handler that runs.
LEMMA WaitWriteKeeps ==
  ASSUME StreamInv, NEW x, QueueStep(x), x \in {"ul_delay_timer", "none"}, started, UNCHANGED settings,
         ~closed_ => \A op \in WriteOps : op \notin armed /\ Queued(op)' = 0,
         ~closed_ => connected_,
         ~closed_ => writable' = FALSE,
         writable' \in BOOLEAN,
         ~write_inprogress_,
         NEW callback \in BOOLEAN, ~closed_ => callback, wait_write(callback)
  PROVE  StreamInv'
<1> USE DEF StreamInv
<1>1. /\ UNCHANGED connectVars
      /\ UNCHANGED <<wait_read_callback_, read_inprogress_, answer, quit>>
  BY DEF wait_write
<1>2. \/ /\ ~Usable /\ wait_write_callback_' = FALSE /\ armed' = armed
         /\ write_inprogress_' = write_inprogress_
      \/ /\ Usable /\ wait_write_callback_' = callback /\ armed' = armed \cup {"ul_delay_timer"}
         /\ write_inprogress_' = write_inprogress_
      \/ /\ Usable /\ wait_write_callback_' = callback /\ armed' = armed \cup {"wait_write"}
         /\ write_inprogress_' = TRUE
  BY DEF wait_write
<1>3. WaitStep(x) /\ (closed_ => armed' = {}) /\ armed' \subseteq Ops
  <2>1. armed' \cap ConnectOps = armed \cap ConnectOps
    BY <1>2 DEF ConnectOps
  <2>2. closed_ => armed' = {}
    BY <1>2 DEF ClosedState, Usable
  <2>3. armed' \subseteq Ops
    BY <1>2 DEF TypeOK, Ops, WriteOps
  <2>4. x \notin ConnectStage
    BY DEF ConnectStage
  <2> QED BY <1>1, <2>1, <2>2, <2>3, <2>4 DEF WaitStep
<1>4. NotStarted' /\ ClosedState' /\ ConnectState'
  BY <1>3, WaitStepKeeps
<1>5. TypeOK'
  <2>1. write_inprogress_' \in BOOLEAN /\ wait_write_callback_' \in BOOLEAN
    BY <1>2 DEF TypeOK
  <2> QED BY <1>1, <1>3, <2>1 DEF TypeOK, settings, connectVars, QueueStep
<1>6. NoEarlyWait'
  BY <1>1 DEF NoEarlyWait, connectVars
<1>7. ReaderContinues'
  <2>1. ASSUME NEW o \in ReadOps PROVE Outstanding(o)' = Outstanding(o)
    <3>1. (o \in armed' <=> o \in armed) /\ x # o /\ o \in Ops
      BY <1>2 DEF ReadOps, Ops
    <3>2. Queued(o)' = Queued(o)
      BY <3>1 DEF QueueStep
    <3>3. Outstanding(o)' = (IF o \in armed' THEN 1 ELSE 0) + Queued(o)'
      BY DEF Outstanding
    <3> QED BY <3>1, <3>2, <3>3 DEF Outstanding
  <2>2. /\ Outstanding("dl_delay_timer")' = Outstanding("dl_delay_timer")
        /\ Outstanding("read_yield_timer")' = Outstanding("read_yield_timer")
        /\ Outstanding("wait_read")' = Outstanding("wait_read")
    BY <2>1 DEF ReadOps
  <2> QED BY <1>1, <2>2 DEF ReaderContinues, connectVars
<1>8. ASSUME closed_ PROVE WriterContinues' /\ WriteProgress'
  <2>1. closed_' /\ ~write_inprogress_'
    BY <1>1, <1>2, <1>8 DEF Usable, connectVars
  <2>2. WriterContinues'
    BY <2>1 DEF WriterContinues, Usable
  <2>3. WriteProgress'
    BY <2>1 DEF WriteProgress
  <2> QED BY <2>2, <2>3
<1>9. ASSUME ~closed_ PROVE WriterContinues' /\ WriteProgress'
  <2>1. /\ Queued("ul_delay_timer")' = 0 /\ Queued("wait_write")' = 0
        /\ "ul_delay_timer" \notin armed /\ "wait_write" \notin armed /\ Usable /\ callback
    BY <1>9 DEF WriteOps, Usable
  <2>2. CASE armed' = armed \cup {"ul_delay_timer"} /\ write_inprogress_' = write_inprogress_
    <3>1. Outstanding("ul_delay_timer")' = 1 /\ Outstanding("wait_write")' = 0
      BY <2>1, <2>2 DEF Outstanding
    <3>2. wait_write_callback_' = callback
      BY <1>2, <2>1
    <3>3. WriterContinues'
      <4>1. Outstanding("ul_delay_timer")' + Outstanding("wait_write")' = 1
        BY <3>1
      <4>2. ~writable' /\ wait_write_callback_'
        BY <1>9, <2>1, <3>2
      <4> QED BY <4>1, <4>2 DEF WriterContinues
    <3>4. WriteProgress'
      BY <2>2, <3>1 DEF WriteProgress
    <3> QED BY <3>3, <3>4
  <2>3. CASE armed' = armed \cup {"wait_write"} /\ write_inprogress_' = TRUE
    <3>1. Outstanding("ul_delay_timer")' = 0 /\ Outstanding("wait_write")' = 1
      BY <2>1, <2>3 DEF Outstanding
    <3>2. wait_write_callback_' = callback
      BY <1>2, <2>1
    <3>3. WriterContinues'
      <4>1. Outstanding("ul_delay_timer")' + Outstanding("wait_write")' = 1
        BY <3>1
      <4>2. ~writable' /\ wait_write_callback_'
        BY <1>9, <2>1, <3>2
      <4> QED BY <4>1, <4>2 DEF WriterContinues
    <3>4. WriteProgress'
      BY <2>3, <3>1 DEF WriteProgress
    <3> QED BY <3>3, <3>4
  <2> QED BY <1>2, <2>1, <2>2, <2>3
<1>10. failed' \subseteq failed \cup {"wait_write_callback", "ul_delay"}
  BY DEF wait_write, write_checks, Fails
<1>11. OneWriter' /\ ConnectCallbackSpent'
  BY <1>10 DEF OneWriter, ConnectCallbackSpent
<1> QED BY <1>4, <1>5, <1>6, <1>7, <1>8, <1>9, <1>11

\* The handler of a read is the only one there is, while the stream is open.
LEMMA ReadAlone ==
  ASSUME StreamInv, ~closed_, NEW x \in ReadOps, QueueStep(x), Queued(x) >= 1
  PROVE  /\ connected_ /\ read_inprogress_
         /\ \A op \in ReadOps : op \notin armed /\ Queued(op)' = 0
<1>1. /\ Queued("dl_delay_timer") \in Nat /\ Queued("read_yield_timer") \in Nat
      /\ Queued("wait_read") \in Nat
      /\ Queued("dl_delay_timer")' \in Nat /\ Queued("read_yield_timer")' \in Nat
      /\ Queued("wait_read")' \in Nat
      /\ Queued("dl_delay_timer") = Queued("dl_delay_timer")' + IF x = "dl_delay_timer" THEN 1 ELSE 0
      /\ Queued("read_yield_timer") =
           Queued("read_yield_timer")' + IF x = "read_yield_timer" THEN 1 ELSE 0
      /\ Queued("wait_read") = Queued("wait_read")' + IF x = "wait_read" THEN 1 ELSE 0
      /\ x \in {"dl_delay_timer", "read_yield_timer", "wait_read"}
  BY DEF QueueStep, Ops, ReadOps
<1>2. Outstanding("dl_delay_timer") + Outstanding("read_yield_timer") + Outstanding("wait_read") >= 1
  BY <1>1 DEF Outstanding
<1>3. Outstanding("dl_delay_timer") + Outstanding("read_yield_timer") + Outstanding("wait_read")
        = IF read_inprogress_ THEN 1 ELSE 0
  BY DEF StreamInv, ReaderContinues
<1>4. read_inprogress_
  BY <1>2, <1>3
<1>5. Outstanding("dl_delay_timer") + Outstanding("read_yield_timer") + Outstanding("wait_read") = 1
  BY <1>3, <1>4
<1>6. \A op \in ReadOps : op \notin armed /\ Queued(op)' = 0
  BY <1>1, <1>5 DEF Outstanding, ReadOps
<1>7. connected_
  <2>1. ~(/\ Outstanding("dl_delay_timer") = 0 /\ Outstanding("read_yield_timer") = 0
          /\ Outstanding("wait_read") = 0)
    BY <1>5
  <2> QED BY <2>1 DEF StreamInv, NoEarlyWait
<1> QED BY <1>4, <1>6, <1>7

\* The same of a write.
LEMMA WriteAlone ==
  ASSUME StreamInv, ~closed_, NEW x \in WriteOps, QueueStep(x), Queued(x) >= 1
  PROVE  /\ connected_ /\ ~writable /\ wait_write_callback_
         /\ \A op \in WriteOps : op \notin armed /\ Queued(op)' = 0
<1>1. /\ Queued("ul_delay_timer") \in Nat /\ Queued("wait_write") \in Nat
      /\ Queued("ul_delay_timer")' \in Nat /\ Queued("wait_write")' \in Nat
      /\ Queued("ul_delay_timer") = Queued("ul_delay_timer")' + IF x = "ul_delay_timer" THEN 1 ELSE 0
      /\ Queued("wait_write") = Queued("wait_write")' + IF x = "wait_write" THEN 1 ELSE 0
      /\ x \in {"ul_delay_timer", "wait_write"}
  BY DEF QueueStep, Ops, WriteOps
<1>2. Outstanding("ul_delay_timer") + Outstanding("wait_write") >= 1
  BY <1>1 DEF Outstanding
<1>3. connected_
  <2>1. ~(Outstanding("ul_delay_timer") = 0 /\ Outstanding("wait_write") = 0)
    BY <1>2
  <2> QED BY <2>1 DEF StreamInv, NoEarlyWait
<1>4. /\ Outstanding("ul_delay_timer") + Outstanding("wait_write") = IF writable THEN 0 ELSE 1
      /\ ~writable => wait_write_callback_
  BY <1>3 DEF StreamInv, WriterContinues, Usable
<1>5. ~writable
  BY <1>2, <1>4
<1>6. Outstanding("ul_delay_timer") + Outstanding("wait_write") = 1
  BY <1>4, <1>5
<1>7. \A op \in WriteOps : op \notin armed /\ Queued(op)' = 0
  BY <1>1, <1>6 DEF Outstanding, WriteOps
<1> QED BY <1>3, <1>4, <1>5, <1>7

\* A read is over: its handler calls the user, or finds the stream closed.
LEMMA ReadOverKeeps ==
  ASSUME StreamInv, NEW x \in ReadOps, QueueStep(x), Queued(x) >= 1, started, UNCHANGED settings,
         read_inprogress_' = FALSE, wait_read_callback_' = FALSE,
         UNCHANGED <<connectVars, wait_write_callback_, write_inprogress_, writable, armed>>,
         UNCHANGED <<answer, quit>>,
         failed' = failed
  PROVE  StreamInv'
<1> USE DEF StreamInv
<1>1. WaitStep(x) /\ (closed_ => armed' = {}) /\ armed' \subseteq Ops
  BY DEF WaitStep, ConnectStage, ReadOps, ClosedState, TypeOK
<1>2. NotStarted' /\ ClosedState' /\ ConnectState'
  BY <1>1, WaitStepKeeps
<1>3. TypeOK'
  <2>1. read_inprogress_' \in BOOLEAN /\ wait_read_callback_' \in BOOLEAN
    OBVIOUS
  <2> QED BY <1>1, <2>1 DEF TypeOK, settings, connectVars, QueueStep
<1>4. \A op \in WriteOps : Outstanding(op)' = Outstanding(op)
  BY OutstandingStep DEF Ops, WriteOps, ReadOps
<1>5. WriterContinues' /\ WriteProgress'
  BY <1>4 DEF WriterContinues, WriteProgress, Usable, connectVars, WriteOps
<1>6. ReaderContinues'
  <2> SUFFICES ASSUME ~closed_
               PROVE  Outstanding("dl_delay_timer")' + Outstanding("read_yield_timer")'
                        + Outstanding("wait_read")' = 0
    BY DEF ReaderContinues, connectVars
  <2>1. \A op \in ReadOps : op \notin armed /\ Queued(op)' = 0
    BY ReadAlone
  <2>2. /\ Outstanding("dl_delay_timer")' = 0 /\ Outstanding("read_yield_timer")' = 0
        /\ Outstanding("wait_read")' = 0
    BY <2>1 DEF Outstanding, ReadOps
  <2> QED BY <2>2
<1>7. NoEarlyWait'
  BY ReadAlone DEF NoEarlyWait, connectVars
<1>8. OneWriter' /\ ConnectCallbackSpent'
  BY DEF OneWriter, ConnectCallbackSpent
<1> QED BY <1>2, <1>3, <1>5, <1>6, <1>7, <1>8

\* A write is over: the user may write again.
LEMMA WriteOverKeeps ==
  ASSUME StreamInv, QueueStep("wait_write"), Queued("wait_write") >= 1, started, UNCHANGED settings,
         write_inprogress_' = FALSE, wait_write_callback_' = FALSE,
         writable' = (writable \/ (Usable /\ wait_write_callback_)),
         UNCHANGED <<connectVars, wait_read_callback_, read_inprogress_, armed, answer, quit>>,
         failed' = failed
  PROVE  StreamInv'
<1> USE DEF StreamInv
<1>0. "wait_write" \in WriteOps
  BY DEF WriteOps
<1>1. WaitStep("wait_write") /\ (closed_ => armed' = {}) /\ armed' \subseteq Ops
  BY DEF WaitStep, ConnectStage, ClosedState, TypeOK
<1>2. NotStarted' /\ ClosedState' /\ ConnectState'
  BY <1>1, WaitStepKeeps
<1>3. TypeOK'
  <2>1. /\ write_inprogress_' \in BOOLEAN /\ wait_write_callback_' \in BOOLEAN
        /\ writable' \in BOOLEAN
    OBVIOUS
  <2> QED BY <1>1, <2>1 DEF TypeOK, settings, connectVars, QueueStep
<1>4. \A op \in ReadOps : Outstanding(op)' = Outstanding(op)
  BY OutstandingStep DEF Ops, ReadOps
<1>5. ReaderContinues'
  BY <1>4 DEF ReaderContinues, connectVars, ReadOps
<1>6. WriteProgress'
  BY DEF WriteProgress
<1>7. WriterContinues'
  <2> SUFFICES ASSUME ~closed_
               PROVE  /\ Outstanding("ul_delay_timer")' + Outstanding("wait_write")' = 0
                      /\ writable'
    BY DEF WriterContinues, Usable, connectVars
  <2>1. \A op \in WriteOps : op \notin armed /\ Queued(op)' = 0
    BY <1>0, WriteAlone
  <2>2. connected_ /\ wait_write_callback_
    BY <1>0, WriteAlone
  <2>3. Outstanding("ul_delay_timer")' = 0 /\ Outstanding("wait_write")' = 0
    BY <2>1 DEF Outstanding, WriteOps
  <2>4. writable'
    BY <2>2 DEF Usable
  <2>5. Outstanding("ul_delay_timer")' + Outstanding("wait_write")' = 0
    BY <2>3
  <2> QED BY <2>4, <2>5
<1>8. NoEarlyWait'
  BY <1>0, WriteAlone DEF NoEarlyWait, connectVars
<1>9. OneWriter' /\ ConnectCallbackSpent'
  BY DEF OneWriter, ConnectCallbackSpent
<1> QED BY <1>2, <1>3, <1>5, <1>6, <1>7, <1>8, <1>9


-----------------------------------------------------------------------------
(* The steps. *)

\* The beginning.
LEMMA StreamInvInit == Init => StreamInv
<1> SUFFICES ASSUME Init PROVE StreamInv
  OBVIOUS
<1> USE DEF Init
<1>1. \A op : Queued(op) = 0
  <2>1. DOMAIN << >> = {}
    OBVIOUS
  <2>2. \A op : {i \in DOMAIN ready : ready[i] = op} = {}
    BY <2>1
  <2> QED BY <2>2, FS_EmptySet DEF Queued
<1>2. \A op : Outstanding(op) = 0
  BY <1>1 DEF Outstanding
<1>3. TypeOK
  <2>1. ready \in Seq(Ops)
    BY EmptySeq
  <2> QED BY <2>1 DEF TypeOK
<1>4. NotStarted /\ ClosedState /\ ConnectState
  BY DEF NotStarted, ClosedState, ConnectState
<1>5. NoEarlyWait
  BY <1>2 DEF NoEarlyWait
<1>6. ReaderContinues
  BY <1>2 DEF ReaderContinues
<1>7. WriterContinues /\ WriteProgress
  BY DEF WriterContinues, WriteProgress, Usable
<1>8. OneWriter /\ ConnectCallbackSpent
  BY DEF OneWriter, ConnectCallbackSpent
<1> QED BY <1>3, <1>4, <1>5, <1>6, <1>7, <1>8 DEF StreamInv

\* async_connect.
LEMMA AsyncConnectKeeps ==
  ASSUME StreamInv, async_connect_fails \/ async_connect_addresses \/ async_connect_name
  PROVE  StreamInv'
<1>0. ready' = ready /\ ready \in Seq(Ops) /\ ~started /\ ~closed_ /\ started' = TRUE
  BY DEF StreamInv, TypeOK, async_connect_fails, async_connect_addresses, async_connect_name
<1>1. QueueStep("none") /\ "none" \notin ReadOps \cup WriteOps
  BY <1>0, RestStep DEF ReadOps, WriteOps
<1>2. armed = {} /\ ready = << >> /\ ~connected_ /\ ~eof_
  BY <1>0 DEF StreamInv, NotStarted, ClosedState
<1>3. \A op \in ConnectStage : Queued(op)' = 0
  <2>1. DOMAIN << >> = {}
    OBVIOUS
  <2>2. \A op : {i \in DOMAIN ready' : ready'[i] = op} = {}
    BY <1>0, <1>2, <2>1
  <2>3. \A op : Queued(op)' = Cardinality({i \in DOMAIN ready' : ready'[i] = op})
    BY DEF Queued
  <2> QED BY <2>2, <2>3, FS_EmptySet
<1>4. CASE async_connect_fails
  <2>1. give_up /\ armed' = {} /\ endpoints_' = endpoints_ /\ UNCHANGED <<settings, quit, failed>>
    BY <1>2, <1>4 DEF async_connect_fails
  <2> QED BY <1>0, <1>1, <1>2, <2>1, GiveUpKeeps
<1>5. CASE async_connect_addresses
  <2>1. PICK list \in Lists : list # << >> /\ try_next(list, armed)
    BY <1>5 DEF async_connect_addresses
  <2>2. UNCHANGED <<settings, quit, failed>>
    BY <1>5 DEF async_connect_addresses
  <2> QED BY <1>0, <1>1, <1>2, <1>3, <2>1, <2>2, TryNextKeeps
<1>6. CASE async_connect_name
  <2>1. /\ user_connect_callback_' /\ user_connect_callback_' \in BOOLEAN
        /\ armed' = {"resolve"} /\ endpoints_' = endpoints_
        /\ UNCHANGED <<closed_, connected_, eof_, waitVars, answer, settings, quit, failed>>
    BY <1>2, <1>6 DEF async_connect_name, ghostVars
  <2>2. Left(endpoints_')
    BY <2>1 DEF StreamInv, TypeOK, Left
  <2>3. started' /\ started' \in BOOLEAN /\ "resolve" \in ConnectStage
    BY <1>0 DEF ConnectStage
  <2> QED BY <1>0, <1>1, <1>2, <1>3, <2>1, <2>2, <2>3, AttemptKeeps
<1> QED BY <1>4, <1>5, <1>6

\* A handler runs only after async_connect.
LEMMA HandlesMeansStarted ==
  ASSUME StreamInv, NEW x \in Ops, Handles(x)
  PROVE  started /\ QueueStep(x) /\ ready # << >> /\ Queued(x) >= 1 /\ UNCHANGED settings
<1>1. ready \in Seq(Ops)
  BY DEF StreamInv, TypeOK
<1>2. QueueStep(x) /\ ready # << >> /\ Queued(x) >= 1 /\ UNCHANGED settings
  BY <1>1, HandlesStep
<1> QED BY <1>2 DEF StreamInv, NotStarted

\* The next endpoint, or the end, after an attempt that failed.
LEMMA ConnectFailedKeeps ==
  ASSUME StreamInv, NEW x \in ConnectStage, Handles(x), ~closed_, connect_failed,
         UNCHANGED <<quit, failed>>
  PROVE  StreamInv'
<1>1. x \in Ops /\ x \notin ReadOps \cup WriteOps
  BY DEF ConnectStage, Ops, ConnectOps, ReadOps, WriteOps
<1>2. started /\ QueueStep(x) /\ ready # << >> /\ Queued(x) >= 1 /\ UNCHANGED settings
  BY <1>1, HandlesMeansStarted
<1>3. /\ ~connected_ /\ user_connect_callback_ /\ ~eof_
      /\ \A op \in ConnectStage : op \notin armed /\ Queued(op)' = 0
      /\ armed \subseteq {"connect_timer"}
  BY <1>2, Alone
<1>4. timer_cancelled = {}
  BY <1>3 DEF timer_cancelled
<1>5. CASE endpoints_ # << >>
  <2>1. try_next(endpoints_, timer_cancelled) /\ started' = started
    BY <1>5 DEF connect_failed
  <2>2. started' = TRUE
    BY <1>2, <2>1 DEF StreamInv, TypeOK
  <2> QED BY <1>1, <1>2, <1>3, <1>4, <1>5, <2>1, <2>2, TryNextKeeps
<1>6. CASE endpoints_ = << >>
  <2>1. closed_by_user("failed")
    BY <1>3, <1>6 DEF connect_failed
  <2>2. quit' \in BOOLEAN /\ "failed" \in Answers
    BY DEF StreamInv, TypeOK, Answers
  <2> QED BY <1>2, <2>1, <2>2, ClosedByUserKeeps
<1> QED BY <1>5, <1>6

\* The handler of AsyncResolve.
LEMMA ResolvedKeeps == ASSUME StreamInv, on_resolved PROVE StreamInv'
<1>1. Handles("resolve") /\ quit' = quit /\ "resolve" \in ConnectStage /\ "resolve" \in Ops
  BY DEF on_resolved, ConnectStage, Ops, ConnectOps
<1>2. started /\ QueueStep("resolve") /\ ready # << >> /\ Queued("resolve") >= 1 /\ UNCHANGED settings
  BY <1>1, HandlesMeansStarted
<1>3. CASE closed_ /\ closed_return("resolve")
  BY <1>1, <1>2, <1>3, ClosedReturnKeeps
<1>4. CASE ~closed_ /\ connect_failed /\ UNCHANGED failed
  BY <1>1, <1>4, ConnectFailedKeeps
<1>5. CASE ~closed_ /\ (\E list \in Lists : list # << >> /\ try_next(list, armed))
           /\ UNCHANGED <<started, failed>>
  <2>1. PICK list \in Lists : list # << >> /\ try_next(list, armed)
    BY <1>5
  <2>2. /\ ~connected_ /\ user_connect_callback_ /\ ~eof_
        /\ \A op \in ConnectStage : op \notin armed /\ Queued(op)' = 0
        /\ armed = {}
    BY <1>1, <1>2, <1>5, Alone
  <2>3. started' = TRUE
    BY <1>2, <1>5 DEF StreamInv, TypeOK
  <2>4. "resolve" \notin ReadOps \cup WriteOps
    BY DEF ReadOps, WriteOps
  <2> QED BY <1>1, <1>2, <1>5, <2>1, <2>2, <2>3, <2>4, TryNextKeeps
<1> QED BY <1>3, <1>4, <1>5 DEF on_resolved

\* The handler of socket_.async_connect.
LEMMA SocketConnectedKeeps == ASSUME StreamInv, on_socket_connected PROVE StreamInv'
<1>1. Handles("connect") /\ quit' = quit /\ "connect" \in ConnectStage /\ "connect" \in Ops
  BY DEF on_socket_connected, ConnectStage, Ops, ConnectOps
<1>2. started /\ QueueStep("connect") /\ ready # << >> /\ Queued("connect") >= 1 /\ UNCHANGED settings
  BY <1>1, HandlesMeansStarted
<1>3. "connect" \notin ReadOps \cup WriteOps
  BY DEF ReadOps, WriteOps
<1>4. CASE closed_ /\ closed_return("connect")
  BY <1>1, <1>2, <1>4, ClosedReturnKeeps
<1>5. CASE ~closed_ /\ connect_failed /\ UNCHANGED failed
  BY <1>1, <1>5, ConnectFailedKeeps
<1>6. CASE ~closed_ /\ connect_succeeded({}) /\ UNCHANGED failed
  <2>1. /\ ~connected_ /\ user_connect_callback_ /\ ~eof_
        /\ \A op \in ConnectStage : op \notin armed /\ Queued(op)' = 0
    BY <1>1, <1>2, <1>6, Alone
  <2>2. {} \subseteq {"confirm"}
    OBVIOUS
  <2> QED BY <1>1, <1>2, <1>3, <1>6, <2>1, <2>2, ConnectSucceededKeeps
<1>7. CASE ~closed_ /\ armed' = armed \union {"handshake"}
           /\ UNCHANGED <<connectVars, waitVars, answer, failed>>
  <2>1. /\ ~connected_ /\ user_connect_callback_ /\ ~eof_
        /\ \A op \in ConnectStage : op \notin armed /\ Queued(op)' = 0
        /\ armed \subseteq {"connect_timer"}
    BY <1>1, <1>2, <1>7, Alone
  <2>2. Left(endpoints_')
    BY <1>7 DEF StreamInv, TypeOK, Left, connectVars
  <2>3. /\ "handshake" \in armed' /\ armed' \subseteq {"handshake", "connect_timer"}
        /\ "handshake" \in ConnectStage
    BY <1>7, <2>1 DEF ConnectStage
  <2>4. user_connect_callback_' /\ started'
    BY <1>2, <1>7, <2>1 DEF connectVars
  <2>5. user_connect_callback_' \in BOOLEAN /\ started' \in BOOLEAN
    BY <1>7 DEF StreamInv, TypeOK, connectVars
  <2>6. UNCHANGED <<closed_, connected_, eof_, waitVars, answer>> /\ UNCHANGED <<settings, quit, failed>>
    BY <1>1, <1>2, <1>7 DEF connectVars
  <2> QED BY <1>2, <1>3, <1>7, <2>1, <2>2, <2>3, <2>4, <2>5, <2>6, AttemptKeeps
<1> QED BY <1>4, <1>5, <1>6, <1>7 DEF on_socket_connected

\* The callback of SSLSocket::Connect.
LEMMA HandshakeKeeps == ASSUME StreamInv, on_handshake PROVE StreamInv'
<1>1. Handles("handshake") /\ quit' = quit /\ "handshake" \in ConnectStage /\ "handshake" \in Ops
  BY DEF on_handshake, ConnectStage, Ops, ConnectOps
<1>2. /\ started /\ QueueStep("handshake") /\ ready # << >> /\ Queued("handshake") >= 1
      /\ UNCHANGED settings
  BY <1>1, HandlesMeansStarted
<1>3. "handshake" \notin ReadOps \cup WriteOps
  BY DEF ReadOps, WriteOps
<1>4. CASE closed_ /\ closed_return("handshake")
  BY <1>1, <1>2, <1>4, ClosedReturnKeeps
<1>5. CASE ~closed_ /\ connect_failed /\ UNCHANGED failed
  BY <1>1, <1>5, ConnectFailedKeeps
<1>6. CASE ~closed_ /\ closed_by_user("lost") /\ UNCHANGED failed
  <2>1. quit' \in BOOLEAN /\ "lost" \in Answers
    BY <1>1 DEF StreamInv, TypeOK, Answers
  <2> QED BY <1>2, <1>6, <2>1, ClosedByUserKeeps
<1>7. ASSUME NEW more, more \subseteq {"confirm"}, ~closed_, connect_succeeded(more), UNCHANGED failed
      PROVE  StreamInv'
  <2>1. /\ ~connected_ /\ user_connect_callback_ /\ ~eof_
        /\ \A op \in ConnectStage : op \notin armed /\ Queued(op)' = 0
    BY <1>1, <1>2, <1>7, Alone
  <2> QED BY <1>1, <1>2, <1>3, <1>7, <2>1, ConnectSucceededKeeps
<1>8. CASE ~closed_ /\ connect_succeeded({}) /\ UNCHANGED failed
  <2>1. {} \subseteq {"confirm"}
    OBVIOUS
  <2> QED BY <1>7, <1>8, <2>1
<1>9. CASE ~closed_ /\ connect_succeeded({"confirm"}) /\ UNCHANGED failed
  BY <1>7, <1>9
<1> QED BY <1>4, <1>5, <1>6, <1>8, <1>9 DEF on_handshake

\* A handler that changes nothing but its queue, and is no wait.
LEMMA IdleKeeps ==
  ASSUME StreamInv, NEW x, QueueStep(x), x \notin ConnectStage \cup ReadOps \cup WriteOps, started,
         UNCHANGED <<settings, connectVars, waitVars, armed, ghostVars>>
  PROVE  StreamInv'
<1> USE DEF StreamInv, connectVars, waitVars, ghostVars
<1>1. TypeOK'
  BY DEF TypeOK, settings, QueueStep
<1>2. \A op \in ConnectStage \cup ReadOps \cup WriteOps : Outstanding(op)' = Outstanding(op)
  <2>1. \A op \in ConnectStage \cup ReadOps \cup WriteOps : op \in Ops /\ x # op
    BY DEF Ops, ConnectStage, ConnectOps
  <2> QED BY <2>1, OutstandingStep
<1>3. NotStarted' /\ ClosedState'
  BY DEF NotStarted, ClosedState
<1>4. ConnectState'
  BY <1>2 DEF ConnectState, ConnectStage
<1>5. NoEarlyWait'
  BY <1>2 DEF NoEarlyWait, ReadOps, WriteOps
<1>6. ReaderContinues'
  BY <1>2 DEF ReaderContinues, ReadOps
<1>7. WriterContinues' /\ WriteProgress'
  BY <1>2 DEF WriterContinues, WriteProgress, WriteOps, Usable
<1>8. OneWriter' /\ ConnectCallbackSpent'
  BY DEF OneWriter, ConnectCallbackSpent
<1> QED BY <1>1, <1>3, <1>4, <1>5, <1>6, <1>7, <1>8

\* The callback of ConfirmHandshake.
LEMMA ConfirmKeeps == ASSUME StreamInv, on_confirm PROVE StreamInv'
<1>1. Handles("confirm") /\ quit' = quit /\ "confirm" \in Ops
  BY DEF on_confirm, Ops, ConnectOps
<1>2. started /\ QueueStep("confirm") /\ ready # << >> /\ Queued("confirm") >= 1 /\ UNCHANGED settings
  BY <1>1, HandlesMeansStarted
<1>3. CASE closed_ /\ closed_return("confirm")
  BY <1>1, <1>2, <1>3, ClosedReturnKeeps
<1>4. CASE ~closed_ /\ closed_by_user("lost") /\ UNCHANGED failed
  <2>1. quit' \in BOOLEAN /\ "lost" \in Answers
    BY <1>1 DEF StreamInv, TypeOK, Answers
  <2> QED BY <1>2, <1>4, <2>1, ClosedByUserKeeps
<1>5. CASE ~closed_ /\ UNCHANGED <<connectVars, waitVars, armed, answer, failed>>
  <2>1. "confirm" \notin ConnectStage \cup ReadOps \cup WriteOps
    BY DEF ConnectStage, ReadOps, WriteOps
  <2>2. UNCHANGED ghostVars
    BY <1>1, <1>5 DEF ghostVars
  <2> QED BY <1>2, <1>5, <2>1, <2>2, IdleKeeps
<1> QED BY <1>3, <1>4, <1>5 DEF on_confirm

\* The connect timer.
LEMMA ExpiredKeeps == ASSUME StreamInv, on_async_connect_expired PROVE StreamInv'
<1>1. Handles("connect_timer") /\ quit' = quit /\ "connect_timer" \in Ops
  BY DEF on_async_connect_expired, Ops, ConnectOps
<1>2. /\ started /\ QueueStep("connect_timer") /\ ready # << >> /\ Queued("connect_timer") >= 1
      /\ UNCHANGED settings
  BY <1>1, HandlesMeansStarted
<1>3. "connect_timer" \notin ConnectStage \cup ReadOps \cup WriteOps
  BY DEF ConnectStage, ReadOps, WriteOps
<1>4. CASE connected_ /\ failed' = failed \union Fails("expired", ~user_connect_callback_)
           /\ UNCHANGED <<connectVars, waitVars, armed, answer>>
  <2>1. ~closed_
    BY <1>4 DEF StreamInv, ClosedState
  <2>2. ~user_connect_callback_
    BY <1>2, <1>4, <2>1 DEF StreamInv, ConnectState
  <2>3. UNCHANGED ghostVars
    BY <1>1, <1>4, <2>2 DEF Fails, ghostVars
  <2> QED BY <1>2, <1>3, <1>4, <2>3, IdleKeeps
<1>5. CASE closed_by_user("failed") /\ UNCHANGED failed
  <2>1. quit' \in BOOLEAN /\ "failed" \in Answers
    BY <1>1 DEF StreamInv, TypeOK, Answers
  <2> QED BY <1>2, <1>5, <2>1, ClosedByUserKeeps
<1>6. CASE /\ ~connected_ /\ ~user_connect_callback_ /\ eof_' = TRUE
           /\ UNCHANGED <<started, connected_, closed_, user_connect_callback_, endpoints_,
                          waitVars, armed, answer, failed>>
  <2>1. closed_
    BY <1>2, <1>6 DEF StreamInv, ConnectState
  <2> USE DEF StreamInv, waitVars
  <2>2. TypeOK'
    <3>1. eof_' \in BOOLEAN
      BY <1>6
    <3> QED BY <1>1, <1>2, <1>6, <3>1 DEF TypeOK, settings, QueueStep
  <2>3. NotStarted' /\ ClosedState' /\ ConnectState' /\ NoEarlyWait'
    BY <1>2, <1>6, <2>1 DEF NotStarted, ClosedState, ConnectState, NoEarlyWait
  <2>4. ReaderContinues' /\ WriterContinues'
    BY <1>6, <2>1 DEF ReaderContinues, WriterContinues, Usable
  <2>5. WriteProgress'
    <3>1. "ul_delay_timer" \in Ops /\ "connect_timer" # "ul_delay_timer"
      BY DEF Ops, WriteOps
    <3>2. Outstanding("ul_delay_timer")' = Outstanding("ul_delay_timer")
      BY <1>2, <1>6, <3>1, OutstandingStep
    <3> QED BY <1>6, <2>1, <3>2 DEF WriteProgress, Usable
  <2>6. OneWriter' /\ ConnectCallbackSpent'
    BY <1>6 DEF OneWriter, ConnectCallbackSpent
  <2> QED BY <2>2, <2>3, <2>4, <2>5, <2>6
<1> QED BY <1>4, <1>5, <1>6 DEF on_async_connect_expired

\* The handlers of a read: the delay timer, the yield timer, the socket's wait.
LEMMA ReadHandlersKeep ==
  ASSUME StreamInv, on_dl_delay \/ on_read_yield \/ on_readable
  PROVE  StreamInv'
<1>1. /\ "dl_delay_timer" \in ReadOps /\ "read_yield_timer" \in ReadOps /\ "wait_read" \in ReadOps
      /\ ReadOps \subseteq Ops
  BY DEF ReadOps, Ops
<1>2. ASSUME NEW x \in ReadOps, Handles(x), wait_read(wait_read_callback_, FALSE)
      PROVE  StreamInv'
  <2>1. started /\ QueueStep(x) /\ ready # << >> /\ Queued(x) >= 1 /\ UNCHANGED settings
    BY <1>1, <1>2, HandlesMeansStarted
  <2>2. ~closed_ => connected_ /\ \A op \in ReadOps : op \notin armed /\ Queued(op)' = 0
    BY <1>2, <2>1, ReadAlone
  <2>3. wait_read_callback_ \in BOOLEAN
    BY DEF StreamInv, TypeOK
  <2>4. x \in ReadOps \cup {"none"} /\ FALSE \in BOOLEAN
    BY <1>2
  <2> QED BY <1>2, <2>1, <2>2, <2>3, <2>4, WaitReadKeeps
<1>3. ASSUME NEW x \in ReadOps, Handles(x), read_inprogress_' = FALSE, wait_read_callback_' = FALSE,
             NEW site,
             failed' = failed \cup (IF Usable THEN {} ELSE Fails(site, ~user_connect_callback_)),
             UNCHANGED <<connectVars, wait_write_callback_, write_inprogress_, writable, armed,
                         answer, quit>>
      PROVE  StreamInv'
  <2>1. started /\ QueueStep(x) /\ ready # << >> /\ Queued(x) >= 1 /\ UNCHANGED settings
    BY <1>1, <1>3, HandlesMeansStarted
  <2>2. ~Usable => ~user_connect_callback_
    <3>1. ~closed_ => Usable
      BY <1>3, <2>1, ReadAlone DEF Usable
    <3> QED BY <3>1 DEF StreamInv, ClosedState
  <2>3. failed' = failed
    BY <1>3, <2>2 DEF Fails
  <2> QED BY <1>3, <2>1, <2>3, ReadOverKeeps
<1>4. CASE on_dl_delay
  BY <1>1, <1>2, <1>4 DEF on_dl_delay
<1>5. CASE on_read_yield
  <2>1. CASE Usable /\ wait_read(wait_read_callback_, FALSE)
    BY <1>1, <1>2, <1>5, <2>1 DEF on_read_yield
  <2>2. CASE /\ ~Usable
             /\ read_inprogress_' = FALSE /\ wait_read_callback_' = FALSE
             /\ failed' = failed \union Fails("yield", ~user_connect_callback_)
             /\ UNCHANGED <<connectVars, wait_write_callback_, write_inprogress_, writable, armed,
                            answer, quit>>
    <3>1. failed' = failed \cup (IF Usable THEN {} ELSE Fails("yield", ~user_connect_callback_))
      BY <2>2
    <3>2. Handles("read_yield_timer")
      BY <1>5 DEF on_read_yield
    <3> QED BY <1>1, <1>3, <2>2, <3>1, <3>2
  <2> QED BY <1>5, <2>1, <2>2 DEF on_read_yield
<1>6. CASE on_readable
  BY <1>1, <1>3, <1>6 DEF on_readable
<1> QED BY <1>4, <1>5, <1>6

\* The handlers of a write: the delay timer and the socket's wait.
LEMMA WriteHandlersKeep ==
  ASSUME StreamInv, on_ul_delay \/ on_writable
  PROVE  StreamInv'
<1>1. "ul_delay_timer" \in WriteOps /\ "wait_write" \in WriteOps /\ WriteOps \subseteq Ops
  BY DEF WriteOps, Ops
<1>2. CASE on_ul_delay
  <2>0. /\ Handles("ul_delay_timer") /\ wait_write(wait_write_callback_) /\ writable' = writable
        /\ wait_write_callback_ \in BOOLEAN /\ writable' \in BOOLEAN
    BY <1>2 DEF on_ul_delay, StreamInv, TypeOK
  <2>1. /\ started /\ QueueStep("ul_delay_timer") /\ ready # << >> /\ Queued("ul_delay_timer") >= 1
        /\ UNCHANGED settings
    BY <1>1, <2>0, HandlesMeansStarted
  <2>2. ~closed_ => /\ connected_ /\ ~writable /\ wait_write_callback_
                    /\ \A op \in WriteOps : op \notin armed /\ Queued(op)' = 0
    BY <1>1, <2>1, WriteAlone
  <2>3. ~write_inprogress_
    <3>1. Outstanding("ul_delay_timer") # 0
      <4>1. Queued("ul_delay_timer") \in Nat
        BY <1>1, <2>1 DEF QueueStep
      <4> QED BY <2>1, <4>1 DEF Outstanding
    <3> QED BY <3>1 DEF StreamInv, WriteProgress
  <2>4. ~closed_ => writable' = FALSE
    BY <2>0, <2>2
  <2> QED BY <2>0, <2>1, <2>2, <2>3, <2>4, WaitWriteKeeps
<1>3. CASE on_writable
  <2>0. /\ Handles("wait_write")
        /\ write_inprogress_' = FALSE /\ wait_write_callback_' = FALSE
        /\ writable' = (writable \/ (Usable /\ wait_write_callback_))
        /\ failed' = failed \union (IF Usable THEN {} ELSE Fails("writable", ~user_connect_callback_))
        /\ UNCHANGED <<connectVars, wait_read_callback_, read_inprogress_, armed, answer, quit>>
    BY <1>3 DEF on_writable
  <2>1. /\ started /\ QueueStep("wait_write") /\ ready # << >> /\ Queued("wait_write") >= 1
        /\ UNCHANGED settings
    BY <1>1, <2>0, HandlesMeansStarted
  <2>2. ~Usable => ~user_connect_callback_
    <3>1. ~closed_ => Usable
      BY <1>1, <2>1, WriteAlone DEF Usable
    <3> QED BY <3>1 DEF StreamInv, ClosedState
  <2>3. failed' = failed
    BY <2>0, <2>2 DEF Fails
  <2> QED BY <2>0, <2>1, <2>3, WriteOverKeeps
<1> QED BY <1>2, <1>3

\* The user asks to read or to write.
LEMMA AsksKeep ==
  ASSUME StreamInv, ask_read \/ ask_write
  PROVE  StreamInv'
<1>1. /\ Usable /\ connected_ /\ ~closed_ /\ ready' = ready /\ UNCHANGED settings
      /\ ready \in Seq(Ops)
  BY DEF ask_read, ask_write, Usable, StreamInv, TypeOK
<1>2. QueueStep("none")
  BY <1>1, RestStep
<1>3. started
  BY <1>1 DEF StreamInv, NotStarted
<1>4. \A op \in Ops : Queued(op) \in Nat /\ Queued(op)' = Queued(op)
  BY <1>2 DEF QueueStep, Ops, ConnectOps, ReadOps, WriteOps
<1>5. CASE ask_read
  <2>1. PICK yield \in BOOLEAN : wait_read(TRUE, yield)
    BY <1>5 DEF ask_read
  <2>2. ~read_inprogress_
    BY <1>5 DEF ask_read
  <2>3. Outstanding("dl_delay_timer") + Outstanding("read_yield_timer") + Outstanding("wait_read") = 0
    BY <1>1, <2>2 DEF StreamInv, ReaderContinues
  <2>4. /\ Queued("dl_delay_timer") \in Nat /\ Queued("read_yield_timer") \in Nat
        /\ Queued("wait_read") \in Nat
        /\ Queued("dl_delay_timer")' = Queued("dl_delay_timer")
        /\ Queued("read_yield_timer")' = Queued("read_yield_timer")
        /\ Queued("wait_read")' = Queued("wait_read")
    BY <1>4 DEF Ops, ReadOps
  <2>5. /\ "dl_delay_timer" \notin armed /\ Queued("dl_delay_timer") = 0
        /\ "read_yield_timer" \notin armed /\ Queued("read_yield_timer") = 0
        /\ "wait_read" \notin armed /\ Queued("wait_read") = 0
    <3>1. /\ Outstanding("dl_delay_timer") \in Nat /\ Outstanding("read_yield_timer") \in Nat
          /\ Outstanding("wait_read") \in Nat
      BY <1>2, OutstandingStep DEF Ops, ReadOps
    <3>2. /\ Outstanding("dl_delay_timer") = 0 /\ Outstanding("read_yield_timer") = 0
          /\ Outstanding("wait_read") = 0
      BY <2>3, <3>1
    <3> QED BY <2>4, <3>2 DEF Outstanding
  <2>6. \A op \in ReadOps : op \notin armed /\ Queued(op)' = 0
    BY <2>4, <2>5 DEF ReadOps
  <2>7. TRUE \in BOOLEAN /\ "none" \in ReadOps \cup {"none"}
    OBVIOUS
  <2> QED BY <1>1, <1>2, <1>3, <2>1, <2>6, <2>7, WaitReadKeeps
<1>6. CASE ask_write
  <2>1. wait_write(TRUE) /\ writable /\ writable' = FALSE
    BY <1>6 DEF ask_write
  <2>2. Outstanding("ul_delay_timer") + Outstanding("wait_write") = 0
    BY <1>1, <2>1 DEF StreamInv, WriterContinues
  <2>3. /\ Queued("ul_delay_timer") \in Nat /\ Queued("wait_write") \in Nat
        /\ Queued("ul_delay_timer")' = Queued("ul_delay_timer")
        /\ Queued("wait_write")' = Queued("wait_write")
    BY <1>4 DEF Ops, WriteOps
  <2>4. /\ "ul_delay_timer" \notin armed /\ Queued("ul_delay_timer") = 0
        /\ "wait_write" \notin armed /\ Queued("wait_write") = 0
    BY <2>2, <2>3 DEF Outstanding
  <2>6. \A op \in WriteOps : op \notin armed /\ Queued(op)' = 0
    BY <2>3, <2>4 DEF WriteOps
  <2>5. ~write_inprogress_
    <3>1. Outstanding("wait_write") # 1
      BY <2>2, <2>3 DEF Outstanding
    <3> QED BY <1>1, <3>1 DEF StreamInv, WriteProgress
  <2> QED BY <1>1, <1>2, <1>3, <2>1, <2>5, <2>6, WaitWriteKeeps
<1> QED BY <1>5, <1>6

\* A hard error, and the owner's close.
LEMMA ClosesKeep ==
  ASSUME StreamInv, io_error \/ owner_closes
  PROVE  StreamInv'
<1>1. ready' = ready /\ ready \in Seq(Ops) /\ UNCHANGED settings /\ failed' = failed /\ ~closed_
  BY DEF io_error, owner_closes, StreamInv, TypeOK, Usable
<1>2. QueueStep("none")
  BY <1>1, RestStep
<1>3. started
  BY DEF io_error, owner_closes, StreamInv, NotStarted, Usable
<1>4. PICK news \in Answers : closed_by_user(news)
  BY DEF io_error, owner_closes, StreamInv, TypeOK, Answers
<1>5. quit' \in BOOLEAN
  BY DEF io_error, owner_closes, StreamInv, TypeOK
<1> QED BY <1>1, <1>2, <1>3, <1>4, <1>5, ClosedByUserKeeps

\* An operation completes: it is still outstanding, now as a handler.
LEMMA CompleteKeeps ==
  ASSUME StreamInv, NEW x \in Ops, Complete(x)
  PROVE  StreamInv'
<1> USE DEF StreamInv
<1>1. /\ x \in armed /\ armed' = armed \ {x} /\ ready' = Append(ready, x) /\ ready \in Seq(Ops)
      /\ UNCHANGED <<settings, connectVars, waitVars, ghostVars>>
  BY DEF Complete, TypeOK
<1>2. ASSUME NEW op \in Ops PROVE Outstanding(op)' = Outstanding(op)
  <2>1. Queued(op) \in Nat /\ Queued(op)' = Queued(op) + IF x = op THEN 1 ELSE 0
    BY <1>1, CompleteQueued
  <2>2. Outstanding(op)' = (IF op \in armed' THEN 1 ELSE 0) + Queued(op)'
    BY DEF Outstanding
  <2> QED BY <1>1, <2>1, <2>2 DEF Outstanding
<1>3. ready' \in Seq(Ops)
  BY <1>1, CompleteQueued
<1>4. TypeOK'
  BY <1>1, <1>3 DEF TypeOK, settings, connectVars, waitVars, ghostVars
<1>5. NotStarted' /\ ClosedState'
  BY <1>1 DEF NotStarted, ClosedState, connectVars
<1>6. ConnectState'
  BY <1>1, <1>2 DEF ConnectState, connectVars, Ops, ConnectOps
<1>7. NoEarlyWait'
  BY <1>1, <1>2 DEF NoEarlyWait, connectVars, waitVars, Ops, ReadOps, WriteOps
<1>8. ReaderContinues'
  BY <1>1, <1>2 DEF ReaderContinues, connectVars, waitVars, Ops, ReadOps
<1>9. WriterContinues' /\ WriteProgress'
  BY <1>1, <1>2 DEF WriterContinues, WriteProgress, Usable, connectVars, waitVars, Ops, WriteOps
<1>10. OneWriter' /\ ConnectCallbackSpent'
  BY <1>1 DEF OneWriter, ConnectCallbackSpent, ghostVars
<1> QED BY <1>4, <1>5, <1>6, <1>7, <1>8, <1>9, <1>10

\* Every step keeps the invariant.
LEMMA StreamInvNext == StreamInv /\ [Next]_vars => StreamInv'
<1> SUFFICES ASSUME StreamInv, [Next]_vars PROVE StreamInv'
  OBVIOUS
<1>1. CASE async_connect_fails \/ async_connect_addresses \/ async_connect_name
  BY <1>1, AsyncConnectKeeps
<1>2. CASE on_resolved
  BY <1>2, ResolvedKeeps
<1>3. CASE on_socket_connected
  BY <1>3, SocketConnectedKeeps
<1>4. CASE on_handshake
  BY <1>4, HandshakeKeeps
<1>5. CASE on_confirm
  BY <1>5, ConfirmKeeps
<1>6. CASE on_async_connect_expired
  BY <1>6, ExpiredKeeps
<1>7. CASE on_dl_delay \/ on_read_yield \/ on_readable
  BY <1>7, ReadHandlersKeep
<1>8. CASE on_ul_delay \/ on_writable
  BY <1>8, WriteHandlersKeep
<1>9. CASE ask_read \/ ask_write
  BY <1>9, AsksKeep
<1>10. CASE io_error \/ owner_closes
  BY <1>10, ClosesKeep
<1>11. CASE \E op \in Ops : Complete(op)
  BY <1>11, CompleteKeeps
<1>12. CASE UNCHANGED vars
  <2>1. \A op : Outstanding(op)' = Outstanding(op)
    BY <1>12 DEF Outstanding, Queued, vars
  <2> USE <1>12 DEF StreamInv, vars, settings, connectVars, waitVars, ghostVars
  <2>2. TypeOK' /\ NotStarted' /\ ClosedState'
    BY DEF TypeOK, NotStarted, ClosedState
  <2>3. ConnectState' /\ NoEarlyWait'
    BY <2>1 DEF ConnectState, NoEarlyWait
  <2>4. ReaderContinues' /\ WriterContinues' /\ WriteProgress'
    BY <2>1 DEF ReaderContinues, WriterContinues, WriteProgress, Usable
  <2>5. OneWriter' /\ ConnectCallbackSpent'
    BY DEF OneWriter, ConnectCallbackSpent
  <2> QED BY <2>2, <2>3, <2>4, <2>5
<1> QED BY <1>1, <1>2, <1>3, <1>4, <1>5, <1>6, <1>7, <1>8, <1>9, <1>10, <1>11, <1>12
  DEF Next, Handler

\* The invariant holds in every behaviour of a stream, for every set of endpoint
\* lists a lookup may give.
THEOREM StreamInvariant == Spec => []StreamInv
BY StreamInvInit, StreamInvNext, PTL DEF Spec

\* On every stream that is open a reader that waits has exactly one timer or
\* socket wait that will call it back, and so has a writer; wait_write is never
\* entered with a write under way (stream::wait_read, wait_write and their
\* handlers).
THEOREM WaitersCorrect == Spec => []WaitersContinue
<1>1. StreamInv => WaitersContinue
  BY DEF StreamInv, WaitersContinue
<1> QED BY <1>1, StreamInvariant, PTL

\* However a stream ends, nothing is armed on it, the DCHECKs on its connect
\* callback hold, and a stream marked eof is not connected (stream::close,
\* on_async_connect_expired and the handlers that find closed_ set).
THEOREM EndsCorrect == Spec => []EndsClean
<1>1. StreamInv => EndsClean
  BY DEF StreamInv, EndsClean, ClosedState, ClosedIsQuiet, EofMeansGone
<1> QED BY <1>1, StreamInvariant, PTL

-----------------------------------------------------------------------------
(* The rate limiter. *)

\* What is left of a number when it is divided.
LEMMA DivisionBounds ==
  ASSUME NEW a \in Nat, NEW b \in Nat \ {0}
  PROVE  a \div b \in Nat /\ a < b * ((a \div b) + 1)
OBVIOUS

\* A product grows with its factor.
LEMMA TimesMonotone ==
  ASSUME NEW a \in Int, NEW b \in Int, NEW c \in Nat, a <= b
  PROVE  c * a <= c * b
OBVIOUS

\* The time minimum asks for is enough, but for a second that the division of
\* the large sizes may lose, as long as it is not cut off at Int64Max.
LEMMA MinimumIsEnough ==
  ASSUME NEW size \in Nat, NEW t \in Int, t < Int64Max, minimum(size, Rate) <= t
  PROVE  1000 * size <= Rate * (t + 1000)
<1>1. CASE size < Int64Max \div 1000
  <2> DEFINE q == (1000 * size) \div Rate
  <2>1. q \in Nat /\ 1000 * size < Rate * (q + 1)
    BY DivisionBounds, 1000 * size \in Nat, RateAssumption
  <2>2. q <= t
    BY <1>1 DEF minimum
  <2>3. Rate * (q + 1) <= Rate * (t + 1000)
    BY <2>1, <2>2, TimesMonotone, RateAssumption, q + 1 <= t + 1000, q + 1 \in Int, t + 1000 \in Int
  <2> QED BY <2>1, <2>3, RateAssumption
<1>2. CASE ~(size < Int64Max \div 1000)
  <2> DEFINE q == size \div Rate
  <2>1. q \in Nat /\ size < Rate * (q + 1)
    BY DivisionBounds, RateAssumption
  <2>2. q * 1000 <= t
    BY <1>2, <2>1, RateAssumption DEF minimum
  <2> HIDE DEF q
  <2>3. 1000 * size <= 1000 * (Rate * (q + 1))
    BY <2>1, RateAssumption
  <2>4. 1000 * (Rate * (q + 1)) = Rate * (1000 * q + 1000)
    BY <2>1, RateAssumption
  <2>5. Rate * (1000 * q + 1000) <= Rate * (t + 1000)
    BY <2>1, <2>2, TimesMonotone, RateAssumption, 1000 * q + 1000 \in Int, t + 1000 \in Int
  <2> QED BY <2>3, <2>4, <2>5, <2>1, RateAssumption
<1> QED BY <1>1, <1>2

\* The time minimum asks for is a number.
LEMMA MinimumIsNat ==
  ASSUME NEW size \in Nat
  PROVE  minimum(size, Rate) \in Nat
<1>1. (1000 * size) \div Rate \in Nat /\ size \div Rate \in Nat
  BY DivisionBounds, RateAssumption, 1000 * size \in Nat
<1> QED BY <1>1, RateAssumption DEF minimum

\* A stamp lies in the past, on both clocks; the stamps of a direction are
\* MIN_RATE_LIMIT_PERIOD apart.
StampInOrder(d) ==
  /\ limit_size[d] <= transferred[d]
  /\ stamped[d] <= mono
  /\ wall - limit_start[d] <= mono - stamped[d]
  /\ MIN_RATE_LIMIT_PERIOD * (windows[d] - 1) <= stamped[d]

\* What was moved up to the stamp had its time, but for a second and a burst
\* for each stamp.
StampPaid(d) ==
  1000 * limit_size[d] <= Rate * (stamped[d] + 1000 * (windows[d] - 1))
                            + 1000 * (Burst * (windows[d] - 1))

\* A wait that was let through last had waited for what was moved since the
\* stamp; at most a burst was moved after it.
WaitPaid(d) ==
  /\ passed[d] <= transferred[d] /\ transferred[d] <= passed[d] + Burst
  /\ passed[d] >= limit_size[d] =>
       1000 * (passed[d] - limit_size[d]) <= Rate * (mono - stamped[d] + 1000)

\* A delay that nothing has disturbed ends when the time is enough.
TimerIsEnough(d) ==
  delayed[d] /\ ~disturbed[d] =>
    \/ transferred[d] = limit_size[d]
    \/ minimum(transferred[d] - limit_size[d], Rate) <= wall - mono + due[d] - limit_start[d]

\* The inductive invariant of the limiter.
LimitInv ==
  /\ LimitTypeOK
  /\ \A d \in Directions : StampInOrder(d) /\ StampPaid(d) /\ WaitPaid(d) /\ TimerIsEnough(d)

\* It holds when the stream connects.
LEMMA LimitInvInit == LimitInit => LimitInv
<1> SUFFICES ASSUME LimitInit PROVE LimitInv
  OBVIOUS
<1>1. LimitTypeOK
  BY RateAssumption DEF LimitInit, LimitTypeOK
<1>2. ASSUME NEW d \in Directions
      PROVE  StampInOrder(d) /\ StampPaid(d) /\ WaitPaid(d) /\ TimerIsEnough(d)
  BY <1>2, RateAssumption
     DEF LimitInit, StampInOrder, StampPaid, WaitPaid, TimerIsEnough, MIN_RATE_LIMIT_PERIOD
<1> QED BY <1>1, <1>2 DEF LimitInv

\* What was moved up to now is what the stamp had paid for, what was let through
\* since, and a burst.
LEMMA MovedWithinRate ==
  ASSUME LimitInv, NEW d \in Directions
  PROVE  1000 * transferred[d] <= Rate * (mono + 1000 * windows[d]) + 1000 * (Burst * windows[d])
<1> USE DEF LimitInv
<1> DEFINE w == windows[d]
           s == stamped[d]
           a == Rate * (s + 1000 * (w - 1))
           b == Rate * (mono - s + 1000)
           c == 1000 * (Burst * (w - 1))
<1>1. /\ w \in Nat \ {0} /\ s \in Nat /\ mono \in Nat /\ transferred[d] \in Nat
      /\ limit_size[d] \in Nat /\ passed[d] \in Nat /\ Rate \in Nat /\ Burst \in Nat
  BY RateAssumption DEF LimitTypeOK
<1>2. 1000 * (transferred[d] - limit_size[d]) <= b + 1000 * Burst
  <2>1. CASE passed[d] >= limit_size[d]
    BY <2>1, <1>1 DEF WaitPaid
  <2>2. CASE passed[d] < limit_size[d]
    <3>1. 1000 * (transferred[d] - limit_size[d]) <= 1000 * Burst
      BY <2>2, <1>1 DEF WaitPaid
    <3>2. 0 <= b
      BY <1>1 DEF StampInOrder
    <3> QED BY <3>1, <3>2, <1>1
  <2> QED BY <2>1, <2>2, <1>1
<1>3. 1000 * limit_size[d] <= a + c
  BY DEF StampPaid
<1>4. a \in Int /\ b \in Int /\ c \in Int
  BY <1>1
<1>5. a + b = Rate * (mono + 1000 * w)
  BY <1>1
<1>6. c + 1000 * Burst = 1000 * (Burst * w)
  BY <1>1
<1>7. 1000 * transferred[d] <= (a + b) + (c + 1000 * Burst)
  <2> HIDE DEF a, b, c
  <2> QED BY <1>1, <1>2, <1>3, <1>4
<1> HIDE DEF a, b, c
<1> QED BY <1>5, <1>6, <1>7

\* Renewing a stamp keeps what the stamps say.
LEMMA RenewKeeps ==
  ASSUME LimitInv, ratelimit, UNCHANGED <<mono, wall, transferred>>,
         NEW d \in Directions
  PROVE  /\ limit_start' \in [Directions -> Int] /\ limit_size' \in [Directions -> Nat]
         /\ stamped' \in [Directions -> Nat] /\ windows' \in [Directions -> Nat \ {0}]
         /\ StampInOrder(d)' /\ StampPaid(d)'
         /\ \/ limit_size'[d] = transferred[d] /\ limit_start'[d] = wall /\ stamped'[d] = mono
            \/ /\ limit_size'[d] = limit_size[d] /\ limit_start'[d] = limit_start[d]
               /\ stamped'[d] = stamped[d]
<1> USE DEF LimitInv
<1>1. /\ limit_start' \in [Directions -> Int] /\ limit_size' \in [Directions -> Nat]
      /\ stamped' \in [Directions -> Nat] /\ windows' \in [Directions -> Nat \ {0}]
  BY RateAssumption DEF LimitTypeOK, ratelimit
<1>2. CASE ~old_stamp(d)
  <2>1. /\ limit_size'[d] = limit_size[d] /\ limit_start'[d] = limit_start[d]
        /\ stamped'[d] = stamped[d] /\ windows'[d] = windows[d]
    BY <1>2 DEF ratelimit
  <2>2. StampInOrder(d)' /\ StampPaid(d)'
    BY <2>1 DEF StampInOrder, StampPaid
  <2> QED BY <1>1, <2>1, <2>2
<1>3. CASE old_stamp(d)
  <2>1. /\ limit_size'[d] = transferred[d] /\ limit_start'[d] = wall
        /\ stamped'[d] = mono /\ windows'[d] = windows[d] + 1
    BY <1>3 DEF ratelimit
  <2>2. mono - stamped[d] >= MIN_RATE_LIMIT_PERIOD
    BY <1>3 DEF LimitTypeOK, StampInOrder, old_stamp, MIN_RATE_LIMIT_PERIOD
  <2>3. StampInOrder(d)'
    BY <2>1, <2>2 DEF LimitTypeOK, StampInOrder, MIN_RATE_LIMIT_PERIOD
  <2>4. windows'[d] - 1 = windows[d]
    BY <2>1 DEF LimitTypeOK
  <2>5. StampPaid(d)'
    BY <2>1, <2>4, MovedWithinRate DEF StampPaid
  <2> QED BY <1>1, <2>1, <2>3, <2>5
<1> QED BY <1>2, <1>3

\* It is kept by every step.
LEMMA LimitInvNext == LimitInv /\ [LimitNext]_limitVars => LimitInv'
<1> SUFFICES ASSUME LimitInv, [LimitNext]_limitVars PROVE LimitInv'
  OBVIOUS
<1> USE DEF LimitInv
<1>t. /\ mono \in Nat /\ mono <= MaxTime /\ wall \in Int /\ Rate \in Nat \ {0} /\ Burst \in Nat
      /\ MaxTime \in Nat /\ Int64Max \in Nat /\ MaxTime < Int64Max
      /\ \A d \in Directions :
           /\ transferred[d] \in Nat /\ limit_size[d] \in Nat /\ passed[d] \in Nat
           /\ limit_start[d] \in Int /\ stamped[d] \in Nat /\ windows[d] \in Nat \ {0}
           /\ due[d] \in Nat
  BY RateAssumption DEF LimitTypeOK
<1>w. ASSUME NEW d \in Directions, WaitTime(d) > 0
      PROVE  /\ WaitTime(d) = minimum(transferred[d] - limit_size[d], Rate) - (wall - limit_start[d])
             /\ minimum(transferred[d] - limit_size[d], Rate) \in Nat
             /\ WaitTime(d) \in Nat
  <2>1. transferred[d] - limit_size[d] \in Nat
    BY <1>t DEF StampInOrder
  <2>2. minimum(transferred[d] - limit_size[d], Rate) \in Nat
    BY <2>1, MinimumIsNat
  <2> QED BY <1>t, <1>w, <2>1, <2>2 DEF WaitTime, pgrsLimitWaitTime
<1>1. ASSUME NEW d \in Directions, delay(d) PROVE LimitInv'
  <2>1. LimitTypeOK'
    <3>1. WaitTime(d) \in Nat
      BY <1>1, <1>w DEF delay
    <3>2. /\ limit_start' \in [Directions -> Int] /\ limit_size' \in [Directions -> Nat]
          /\ stamped' \in [Directions -> Nat] /\ windows' \in [Directions -> Nat \ {0}]
      <4>1. CASE \E e \in Directions : limit_state[e]
        BY <1>1, <4>1 DEF delay, stamps, LimitTypeOK
      <4>2. CASE ~ \E e \in Directions : limit_state[e]
        BY <1>1, <4>2, RenewKeeps DEF delay
      <4> QED BY <4>1, <4>2
    <3>3. due' \in [Directions -> Nat]
      BY <1>1, <3>1, <1>t, mono + WaitTime(d) \in Nat DEF delay, LimitTypeOK
    <3> QED BY <1>1, <3>2, <3>3, <1>t DEF delay, LimitTypeOK
  <2>2. ASSUME NEW e \in Directions
        PROVE  /\ StampInOrder(e)' /\ StampPaid(e)'
               /\ \/ limit_size'[e] = transferred[e] /\ limit_start'[e] = wall /\ stamped'[e] = mono
                  \/ /\ limit_size'[e] = limit_size[e] /\ limit_start'[e] = limit_start[e]
                     /\ stamped'[e] = stamped[e]
    <3>1. CASE \E f \in Directions : limit_state[f]
      BY <1>1, <3>1 DEF delay, stamps, StampInOrder, StampPaid
    <3>2. CASE ~ \E f \in Directions : limit_state[f]
      BY <1>1, <3>2, RenewKeeps DEF delay
    <3> QED BY <3>1, <3>2
  <2>3. ASSUME NEW e \in Directions PROVE WaitPaid(e)'
    <3>1. CASE limit_size'[e] = limit_size[e] /\ stamped'[e] = stamped[e]
      BY <1>1, <3>1 DEF delay, WaitPaid
    <3>2. CASE limit_size'[e] = transferred[e] /\ stamped'[e] = mono
      <4>1. 0 <= Rate * (mono - mono + 1000)
        BY <1>t
      <4> QED BY <1>1, <3>2, <4>1, <1>t DEF delay, WaitPaid
    <3> QED BY <2>2, <3>1, <3>2
  <2>4. ASSUME NEW e \in Directions PROVE TimerIsEnough(e)'
    <3>1. CASE e = d
      BY <1>1, <1>w, <2>2, <1>t, <3>1 DEF delay, TimerIsEnough, LimitTypeOK
    <3>2. CASE e # d
      BY <1>1, <2>2, <1>t, <3>2 DEF delay, TimerIsEnough, LimitTypeOK
    <3> QED BY <3>1, <3>2
  <2> QED BY <2>1, <2>2, <2>3, <2>4
<1>2. ASSUME NEW d \in Directions, let_through(d) PROVE LimitInv'
  <2>1. ASSUME NEW e \in Directions
        PROVE  /\ StampInOrder(e)' /\ StampPaid(e)'
               /\ \/ limit_size'[e] = transferred[e] /\ limit_start'[e] = wall /\ stamped'[e] = mono
                  \/ /\ limit_size'[e] = limit_size[e] /\ limit_start'[e] = limit_start[e]
                     /\ stamped'[e] = stamped[e]
               /\ limit_start' \in [Directions -> Int] /\ limit_size' \in [Directions -> Nat]
               /\ stamped' \in [Directions -> Nat] /\ windows' \in [Directions -> Nat \ {0}]
    <3>1. CASE limit_state[d] /\ ~limit_state[Other(d)]
      BY <1>2, <3>1, RenewKeeps DEF let_through
    <3>2. CASE ~(limit_state[d] /\ ~limit_state[Other(d)])
      BY <1>2, <3>2 DEF let_through, stamps, StampInOrder, StampPaid, LimitTypeOK
    <3> QED BY <3>1, <3>2
  <2>2. LimitTypeOK'
    BY <1>2, <2>1, <1>t DEF let_through, LimitTypeOK
  <2>3. 1000 * (transferred[d] - limit_size[d]) <= Rate * (mono - stamped[d] + 1000)
    <3> DEFINE z == transferred[d] - limit_size[d]
               t == wall - limit_start[d]
               u == mono - stamped[d]
    <3>1. z \in Nat /\ t \in Int /\ u \in Nat /\ t <= u /\ u < Int64Max
      BY <1>t DEF StampInOrder
    <3>2. CASE z = 0
      <4>1. 0 <= Rate * (u + 1000)
        BY <3>1, <1>t
      <4> QED BY <3>2, <4>1
    <3>3. CASE z # 0
      <4>1. minimum(z, Rate) <= t
        BY <1>2, <3>3, <3>1, <1>t, MinimumIsNat DEF let_through, WaitTime, pgrsLimitWaitTime
      <4> HIDE DEF z, t, u
      <4>2. 1000 * z <= Rate * (t + 1000)
        BY <4>1, <3>1, <1>t, MinimumIsEnough
      <4>3. Rate * (t + 1000) <= Rate * (u + 1000)
        BY <3>1, <1>t, TimesMonotone, t + 1000 <= u + 1000, t + 1000 \in Int, u + 1000 \in Int
      <4>4. 1000 * z <= Rate * (u + 1000)
        BY <4>2, <4>3, <3>1, <1>t
      <4> QED BY <4>4 DEF z, u
    <3> QED BY <3>2, <3>3
  <2>4. ASSUME NEW e \in Directions PROVE WaitPaid(e)'
    BY <1>2, <2>1, <2>3, <1>t DEF let_through, WaitPaid, StampInOrder, LimitTypeOK
  <2>5. ASSUME NEW e \in Directions PROVE TimerIsEnough(e)'
    BY <1>2, <2>1, <1>t DEF let_through, TimerIsEnough, LimitTypeOK
  <2> QED BY <2>1, <2>2, <2>4, <2>5
<1>3. ASSUME NEW d \in Directions, NEW n \in Amounts, move_some(d, n) PROVE LimitInv'
  <2>1. n \in Nat
    BY RateAssumption
  <2>2. LimitTypeOK'
    BY <1>3, <2>1, <1>t DEF move_some, LimitTypeOK, stamps
  <2>3. ASSUME NEW e \in Directions
        PROVE  StampInOrder(e)' /\ StampPaid(e)' /\ WaitPaid(e)' /\ TimerIsEnough(e)'
    BY <1>3, <2>1, <1>t 
       DEF move_some, LimitTypeOK, stamps, StampInOrder, StampPaid, WaitPaid, TimerIsEnough
  <2> QED BY <2>2, <2>3
<1>4. ASSUME NEW n \in Steps, Tick(n) PROVE LimitInv'
  <2>1. n \in Nat
    BY RateAssumption
  <2>2. LimitTypeOK'
    BY <1>4, <2>1, <1>t DEF Tick, LimitTypeOK, stamps
  <2>3. ASSUME NEW e \in Directions
        PROVE  StampInOrder(e)' /\ StampPaid(e)' /\ TimerIsEnough(e)'
    BY <1>4, <2>1, <1>t DEF Tick, LimitTypeOK, stamps, StampInOrder, StampPaid, TimerIsEnough
  <2>4. ASSUME NEW e \in Directions PROVE WaitPaid(e)'
    <3>1. Rate * (mono - stamped[e] + 1000) <= Rate * (mono' - stamped[e] + 1000)
      <4>1. mono' \in Int /\ mono - stamped[e] + 1000 \in Int /\ mono' - stamped[e] + 1000 \in Int
            /\ mono - stamped[e] + 1000 <= mono' - stamped[e] + 1000
        BY <1>4, <2>1, <1>t DEF Tick
      <4> QED BY <4>1, TimesMonotone, <1>t
    <3> QED BY <1>4, <2>1, <3>1, <1>t DEF Tick, stamps, WaitPaid
  <2> QED BY <2>2, <2>3, <2>4
<1>5. ASSUME NEW n \in Steps, SetBack(n) PROVE LimitInv'
  <2>1. n \in Nat
    BY RateAssumption
  <2>2. LimitTypeOK'
    BY <1>5, <2>1, <1>t DEF SetBack, LimitTypeOK, stamps
  <2>3. ASSUME NEW e \in Directions
        PROVE  StampInOrder(e)' /\ StampPaid(e)' /\ WaitPaid(e)' /\ TimerIsEnough(e)'
    BY <1>5, <2>1, <1>t 
       DEF SetBack, LimitTypeOK, stamps, StampInOrder, StampPaid, WaitPaid, TimerIsEnough
  <2> QED BY <2>2, <2>3
<1>6. CASE UNCHANGED limitVars
  BY <1>6 DEF limitVars, stamps, LimitTypeOK, StampInOrder, StampPaid, WaitPaid, TimerIsEnough
<1> QED BY <1>1, <1>2, <1>3, <1>4, <1>5, <1>6 DEF LimitNext, ask_wait, on_delay

\* It gives what the limiter promises.
LEMMA LimitInvSuffices == LimitInv => LimitKept
<1> SUFFICES ASSUME LimitInv PROVE RateBounded /\ DelayedOnce
  BY DEF LimitInv, LimitKept
<1> USE DEF LimitInv
<1>t. /\ mono \in Nat /\ mono <= MaxTime /\ wall \in Int /\ Rate \in Nat \ {0} /\ Burst \in Nat
      /\ \A d \in Directions :
           /\ transferred[d] \in Nat /\ limit_size[d] \in Nat /\ passed[d] \in Nat
           /\ limit_start[d] \in Int /\ stamped[d] \in Nat /\ windows[d] \in Nat \ {0}
           /\ due[d] \in Nat
  BY RateAssumption DEF LimitTypeOK
<1>1. ASSUME NEW d \in Directions
      PROVE  1000 * transferred[d] <= Rate * (mono + 1000 * windows[d]) + 1000 * (Burst * windows[d])
  BY <1>t, MovedWithinRate
<1>2. ASSUME NEW d \in Directions
      PROVE  MIN_RATE_LIMIT_PERIOD * (windows[d] - 1) <= mono
  BY <1>t DEF StampInOrder, MIN_RATE_LIMIT_PERIOD
<1>3. DelayedOnce
  <2> SUFFICES ASSUME NEW d \in Directions, delayed[d], ~disturbed[d], mono >= due[d]
               PROVE  WaitTime(d) = 0
    BY DEF DelayedOnce
  <2>1. transferred[d] - limit_size[d] \in Nat
    BY <1>t DEF StampInOrder
  <2>2. CASE transferred[d] = limit_size[d]
    BY <2>2, <1>t DEF WaitTime, pgrsLimitWaitTime
  <2>3. CASE minimum(transferred[d] - limit_size[d], Rate) <= wall - mono + due[d] - limit_start[d]
    BY <2>1, <2>3, <1>t, MinimumIsNat DEF WaitTime, pgrsLimitWaitTime
  <2> QED BY <2>2, <2>3 DEF TimerIsEnough
<1> QED BY <1>1, <1>2, <1>3 DEF RateBounded

\* For every rate, every burst and every behaviour of the clocks, the bytes a
\* direction has moved stay within the rate but for one second and one burst for
\* each stamp, and a delayed wait that nothing disturbs is not delayed again
\* (pgrsLimitWaitTime, ratelimit and the delays of wait_read and wait_write).
THEOREM LimitCorrect == LimitSpec => []LimitKept
<1>1. LimitInit => LimitInv
  BY LimitInvInit
<1>2. LimitInv /\ [LimitNext]_limitVars => LimitInv'
  BY LimitInvNext
<1>3. LimitInv => LimitKept
  BY LimitInvSuffices
<1> QED BY <1>1, <1>2, <1>3, PTL DEF LimitSpec

-----------------------------------------------------------------------------
(* The stream of tokens between two endpoints, read as an automaton does.  *)
(* A place in it says how many padded chunks have begun, how much payload  *)
(* has passed, and how much payload and padding the chunk still has.       *)

Tokens == [kind : {"data", "head", "pad", "headers", "window", "end"}, n : Nat, pad : Nat]
Spots == [n : Nat, k : Nat, a : Nat, b : Nat]
At(n, k, a, b) == [n |-> n, k |-> k, a |-> a, b |-> b]
Between(n, k) == At(n, k, 0, 0)    \* between two chunks

\* One token.  What is no data changes nothing.
Passes(s, x, t) ==
  \/ ~IsData(x) /\ t = s
  \/ /\ s.a = 0 /\ s.b = 0 /\ s.n < kFirstPaddings
     /\ x.kind = "head" /\ x.n > 0 /\ t = At(s.n + 1, s.k, x.n, x.pad)
  \/ s.a > 0 /\ x = Payload(s.k + 1) /\ t = At(s.n, s.k + 1, s.a - 1, s.b)
  \/ s.a = 0 /\ s.b > 0 /\ x = Pad /\ t = At(s.n, s.k, 0, s.b - 1)
  \/ s.a = 0 /\ s.b = 0 /\ s.n = kFirstPaddings /\ x = Payload(s.k + 1) /\ t = At(s.n, s.k + 1, 0, 0)

\* D leads from s to t.
Leads(s, D, t) ==
  \E st \in [0 .. Len(D) -> Spots] :
    st[0] = s /\ st[Len(D)] = t /\ \A i \in 1 .. Len(D) : Passes(st[i - 1], D[i], st[i])

\* No tokens lead nowhere.
LEMMA LeadsNowhere ==
  ASSUME NEW s \in Spots, NEW t \in Spots
  PROVE  Leads(s, << >>, t) <=> t = s
<1>1. Len(<< >>) = 0 /\ 0 .. 0 = {0} /\ 1 .. 0 = {}
  OBVIOUS
<1>2. ASSUME t = s PROVE Leads(s, << >>, t)
  <2> DEFINE st == [i \in {0} |-> s]
  <2>1. st \in [0 .. Len(<< >>) -> Spots] /\ st[0] = s /\ st[Len(<< >>)] = t
    BY <1>1, <1>2
  <2>2. \A i \in 1 .. Len(<< >>) : Passes(st[i - 1], << >>[i], st[i])
    BY <1>1
  <2> HIDE DEF st
  <2> QED BY <2>1, <2>2 DEF Leads
<1>3. ASSUME Leads(s, << >>, t) PROVE t = s
  BY <1>1, <1>3 DEF Leads
<1> QED BY <1>2, <1>3

\* One token leads where it passes.
LEMMA LeadsOne ==
  ASSUME NEW s \in Spots, NEW t \in Spots, NEW x
  PROVE  Leads(s, <<x>>, t) <=> Passes(s, x, t)
<1>1. Len(<<x>>) = 1 /\ 0 .. 1 = {0, 1} /\ 1 .. 1 = {1} /\ <<x>>[1] = x
  OBVIOUS
<1>2. ASSUME Passes(s, x, t) PROVE Leads(s, <<x>>, t)
  <2> DEFINE st == [i \in 0 .. 1 |-> IF i = 0 THEN s ELSE t]
  <2>1. st \in [0 .. 1 -> Spots] /\ st[0] = s /\ st[1] = t
    OBVIOUS
  <2> HIDE DEF st
  <2>2. \A i \in 1 .. 1 : Passes(st[i - 1], <<x>>[i], st[i])
    <3>1. SUFFICES ASSUME NEW i \in 1 .. 1 PROVE Passes(st[i - 1], <<x>>[i], st[i])
      OBVIOUS
    <3>2. i = 1 /\ i - 1 = 0 /\ <<x>>[i] = x
      BY <1>1
    <3> QED BY <1>2, <2>1, <3>2
  <2> QED BY <1>1, <2>1, <2>2 DEF Leads
<1>3. ASSUME Leads(s, <<x>>, t) PROVE Passes(s, x, t)
  <2>1. PICK st \in [0 .. 1 -> Spots] :
          st[0] = s /\ st[1] = t /\ \A i \in 1 .. 1 : Passes(st[i - 1], <<x>>[i], st[i])
    BY <1>1, <1>3 DEF Leads
  <2>2. Passes(st[1 - 1], <<x>>[1], st[1])
    BY <1>1, <2>1
  <2>3. 1 - 1 = 0
    OBVIOUS
  <2> QED BY <1>1, <2>1, <2>2, <2>3
<1> QED BY <1>2, <1>3

\* Two parts, one behind the other.
LEMMA LeadsOn ==
  ASSUME NEW A \in Seq(Tokens), NEW B \in Seq(Tokens), NEW s, NEW u, NEW t, Leads(s, A, u), Leads(u, B, t)
  PROVE  Leads(s, A \o B, t)
<1> DEFINE m == Len(A)
           l == Len(B)
           D == A \o B
<1>1. m \in Nat /\ l \in Nat /\ Len(D) = m + l
  OBVIOUS
<1>2. (\A i \in 1 .. m : D[i] = A[i]) /\ (\A i \in 1 .. l : D[m + i] = B[i])
  OBVIOUS
<1>3. PICK f \in [0 .. m -> Spots] : f[0] = s /\ f[m] = u /\ \A i \in 1 .. m : Passes(f[i - 1], A[i], f[i])
  BY DEF Leads
<1>4. PICK g \in [0 .. l -> Spots] : g[0] = u /\ g[l] = t /\ \A i \in 1 .. l : Passes(g[i - 1], B[i], g[i])
  BY DEF Leads
<1> HIDE DEF m, l, D
<1> DEFINE st == [i \in 0 .. m + l |-> IF i <= m THEN f[i] ELSE g[i - m]]
<1>5. st \in [0 .. m + l -> Spots]
  <2>1. ASSUME NEW i \in 0 .. m + l PROVE (IF i <= m THEN f[i] ELSE g[i - m]) \in Spots
    <3>1. CASE i <= m
      <4>1. i \in 0 .. m BY <1>1, <3>1
      <4> QED BY <1>3, <3>1, <4>1
    <3>2. CASE ~(i <= m)
      <4>1. i - m \in 0 .. l BY <1>1, <3>2
      <4> QED BY <1>4, <3>2, <4>1
    <3> QED BY <3>1, <3>2
  <2> QED BY <2>1
<1>6. \A i \in 0 .. m : st[i] = f[i]
  BY <1>1
<1>7. \A i \in 0 .. l : st[m + i] = g[i]
  <2>1. SUFFICES ASSUME NEW i \in 0 .. l PROVE st[m + i] = g[i]
    OBVIOUS
  <2>2. m + i \in 0 .. m + l /\ (m + i) - m = i /\ (m + i <= m <=> i = 0)
    BY <1>1
  <2>3. CASE i = 0
    <3>1. m + i = m /\ m \in 0 .. m + l /\ m <= m
      BY <1>1, <2>3
    <3> QED BY <1>3, <1>4, <2>3, <3>1
  <2>4. CASE i # 0
    BY <2>2, <2>4
  <2> QED BY <2>3, <2>4
<1>8. st[0] = s /\ st[m + l] = t
  <2>1. 0 \in 0 .. m /\ l \in 0 .. l
    BY <1>1
  <2> QED BY <1>3, <1>4, <1>6, <1>7, <2>1
<1> HIDE DEF st
<1>9. \A i \in 1 .. m + l : Passes(st[i - 1], D[i], st[i])
  <2>1. SUFFICES ASSUME NEW i \in 1 .. m + l PROVE Passes(st[i - 1], D[i], st[i])
    OBVIOUS
  <2>2. CASE i <= m
    <3>1. i \in 1 .. m /\ i \in 0 .. m /\ i - 1 \in 0 .. m
      BY <1>1, <2>2
    <3> QED BY <1>2, <1>3, <1>6, <3>1
  <2>3. CASE ~(i <= m)
    <3> DEFINE j == i - m
    <3>1. j \in 1 .. l /\ j \in 0 .. l /\ j - 1 \in 0 .. l /\ m + j = i /\ m + (j - 1) = i - 1
      BY <1>1, <2>3
    <3> HIDE DEF j
    <3>2. st[i] = g[j] /\ st[i - 1] = g[j - 1] /\ D[i] = B[j]
      BY <1>2, <1>7, <3>1
    <3> QED BY <1>4, <3>1, <3>2
  <2> QED BY <2>2, <2>3
<1>10. Leads(s, D, t)
  BY <1>1, <1>5, <1>8, <1>9 DEF Leads
<1> QED BY <1>10 DEF D

\* Two parts lead through a place between them.
LEMMA LeadsThrough ==
  ASSUME NEW A \in Seq(Tokens), NEW B \in Seq(Tokens), NEW s, NEW t, Leads(s, A \o B, t)
  PROVE  \E u \in Spots : Leads(s, A, u) /\ Leads(u, B, t)
<1> DEFINE m == Len(A)
           l == Len(B)
           D == A \o B
<1>1. m \in Nat /\ l \in Nat /\ Len(D) = m + l
  OBVIOUS
<1>2. (\A i \in 1 .. m : D[i] = A[i]) /\ (\A i \in 1 .. l : D[m + i] = B[i])
  OBVIOUS
<1>3. PICK st \in [0 .. m + l -> Spots] :
        st[0] = s /\ st[m + l] = t /\ \A i \in 1 .. m + l : Passes(st[i - 1], D[i], st[i])
  BY <1>1 DEF Leads
<1> HIDE DEF D
<1> DEFINE f == [i \in 0 .. m |-> st[i]]
           g == [i \in 0 .. l |-> st[m + i]]
<1>4. Leads(s, A, st[m])
  <2> HIDE DEF m, l
  <2>1. f \in [0 .. m -> Spots] /\ f[0] = s /\ f[m] = st[m] /\ \A i \in 0 .. m : f[i] = st[i]
    <3>1. \A i \in 0 .. m : i \in 0 .. m + l
      BY <1>1
    <3>2. 0 \in 0 .. m /\ m \in 0 .. m
      BY <1>1
    <3> QED BY <1>3, <3>1, <3>2
  <2> HIDE DEF f
  <2>2. \A i \in 1 .. m : Passes(f[i - 1], A[i], f[i])
    <3>1. SUFFICES ASSUME NEW i \in 1 .. m PROVE Passes(f[i - 1], A[i], f[i])
      OBVIOUS
    <3>2. i \in 1 .. m + l /\ i \in 0 .. m /\ i - 1 \in 0 .. m
      BY <1>1
    <3> QED BY <1>2, <1>3, <2>1, <3>2
  <2> QED BY <2>1, <2>2 DEF Leads, m
<1>5. Leads(st[m], B, t)
  <2> HIDE DEF m, l
  <2>1. g \in [0 .. l -> Spots] /\ g[0] = st[m] /\ g[l] = t /\ \A i \in 0 .. l : g[i] = st[m + i]
    <3>1. \A i \in 0 .. l : m + i \in 0 .. m + l
      BY <1>1
    <3>2. 0 \in 0 .. l /\ l \in 0 .. l /\ m + 0 = m
      BY <1>1
    <3> QED BY <1>3, <3>1, <3>2
  <2> HIDE DEF g
  <2>2. \A i \in 1 .. l : Passes(g[i - 1], B[i], g[i])
    <3>1. SUFFICES ASSUME NEW i \in 1 .. l PROVE Passes(g[i - 1], B[i], g[i])
      OBVIOUS
    <3>2. m + i \in 1 .. m + l /\ i \in 0 .. l /\ i - 1 \in 0 .. l /\ m + (i - 1) = (m + i) - 1
      BY <1>1
    <3>3. Passes(st[(m + i) - 1], D[m + i], st[m + i])
      BY <1>3, <3>2
    <3>4. g[i] = st[m + i] /\ g[i - 1] = st[(m + i) - 1]
      BY <2>1, <3>2
    <3> QED BY <1>2, <3>3, <3>4
  <2> QED BY <2>1, <2>2 DEF Leads, l
<1>6. st[m] \in Spots
  BY <1>1, <1>3
<1> QED BY <1>4, <1>5, <1>6

\* Induction: a set with 0 and with every number's successor has all numbers.
LEMMA NatInduct ==
  ASSUME NEW S, 0 \in S, \A n \in Nat : n \in S => n + 1 \in S
  PROVE  Nat \subseteq S
<1> DEFINE R == {p \in Nat \X Nat : p[1] < p[2]}
           X == Nat \ S
<1>1. SUFFICES ASSUME X # {} PROVE FALSE
  OBVIOUS
<1>2. IsWellFoundedOn(R, Nat)
  BY NatLessThanWellFounded DEF OpToRel
<1>3. X \subseteq Nat
  OBVIOUS
<1> HIDE DEF X, R
<1>4. PICK x \in X : \A y \in X : ~(<<y, x>> \in R)
  BY WFMin, <1>1, <1>2, <1>3
<1>5. x \in Nat /\ x \notin S
  BY <1>4 DEF X
<1>6. x - 1 \in Nat
  BY <1>5
<1>7. x - 1 \in S
  <2>1. <<x - 1, x>> \in R
    BY <1>5, <1>6 DEF R
  <2> QED BY <1>4, <1>6, <2>1 DEF X
<1>8. (x - 1) + 1 \in S
  BY <1>6, <1>7
<1> QED BY <1>5, <1>8

\* The payload of a chunk.
LEMMA PayloadLeads ==
  ASSUME NEW n \in Nat, NEW k \in Nat, NEW a \in Nat, NEW b \in Nat, NEW j \in Nat, j <= a
  PROVE  Leads(At(n, k, a, b), [i \in 1 .. j |-> Payload(k + i)], At(n, k + j, a - j, b))
<1> DEFINE D == [i \in 1 .. j |-> Payload(k + i)]
           st == [i \in 0 .. j |-> At(n, k + i, a - i, b)]
<1>1. Len(D) = j /\ \A i \in 1 .. j : D[i] = Payload(k + i)
  <2>1. D \in Seq({Payload(i) : i \in Nat})
    OBVIOUS
  <2> QED BY <2>1
<1>2. st \in [0 .. j -> Spots]
  BY DEF At, Spots
<1>3. st[0] = At(n, k, a, b) /\ st[j] = At(n, k + j, a - j, b)
  <2>1. 0 \in 0 .. j /\ j \in 0 .. j /\ k + 0 = k /\ a - 0 = a
    OBVIOUS
  <2> HIDE DEF D
  <2> QED BY <2>1
<1>4. ASSUME NEW i \in 1 .. j PROVE Passes(st[i - 1], D[i], st[i])
  <2>1. /\ i \in 0 .. j /\ i - 1 \in 0 .. j /\ k + (i - 1) \in Nat /\ a - (i - 1) \in Nat
        /\ a - (i - 1) > 0 /\ (k + (i - 1)) + 1 = k + i /\ (a - (i - 1)) - 1 = a - i
    OBVIOUS
  <2>2. st[i - 1] = At(n, k + (i - 1), a - (i - 1), b) /\ st[i] = At(n, k + i, a - i, b)
    BY <2>1
  <2>3. D[i] = Payload(k + i)
    BY <1>1
  <2> HIDE DEF st, D
  <2>4. /\ st[i - 1].a > 0 /\ D[i] = Payload(st[i - 1].k + 1)
        /\ st[i] = At(st[i - 1].n, st[i - 1].k + 1, st[i - 1].a - 1, st[i - 1].b)
    BY <2>1, <2>2, <2>3 DEF At
  <2> QED BY <2>4 DEF Passes
<1> HIDE DEF D, st
<1>5. Leads(At(n, k, a, b), D, At(n, k + j, a - j, b))
  BY <1>1, <1>2, <1>3, <1>4 DEF Leads
<1> QED BY <1>5 DEF D

\* The padding of a chunk.
LEMMA PadLeads ==
  ASSUME NEW n \in Nat, NEW k \in Nat, NEW b \in Nat
  PROVE  Leads(At(n, k, 0, b), [i \in 1 .. b |-> Pad], Between(n, k))
<1> DEFINE D == [i \in 1 .. b |-> Pad]
           st == [i \in 0 .. b |-> At(n, k, 0, b - i)]
<1>1. Len(D) = b /\ \A i \in 1 .. b : D[i] = Pad
  <2>1. D \in Seq({Pad})
    OBVIOUS
  <2> QED BY <2>1
<1>2. st \in [0 .. b -> Spots]
  BY DEF At, Spots
<1>3. st[0] = At(n, k, 0, b) /\ st[b] = Between(n, k)
  <2>1. 0 \in 0 .. b /\ b \in 0 .. b /\ b - b = 0 /\ b - 0 = b
    OBVIOUS
  <2> HIDE DEF D
  <2> QED BY <2>1 DEF Between
<1>4. ASSUME NEW i \in 1 .. b PROVE Passes(st[i - 1], D[i], st[i])
  <2>1. /\ i \in 0 .. b /\ i - 1 \in 0 .. b /\ b - (i - 1) \in Nat
        /\ b - (i - 1) > 0 /\ (b - (i - 1)) - 1 = b - i
    OBVIOUS
  <2>2. st[i - 1] = At(n, k, 0, b - (i - 1)) /\ st[i] = At(n, k, 0, b - i)
    BY <2>1
  <2>3. D[i] = Pad
    BY <1>1
  <2> HIDE DEF st, D
  <2>4. /\ st[i - 1].a = 0 /\ st[i - 1].b > 0 /\ D[i] = Pad
        /\ st[i] = At(st[i - 1].n, st[i - 1].k, 0, st[i - 1].b - 1)
    BY <2>1, <2>2, <2>3 DEF At
  <2> QED BY <2>4 DEF Passes
<1> HIDE DEF D, st
<1>5. Leads(At(n, k, 0, b), D, Between(n, k))
  BY <1>1, <1>2, <1>3, <1>4 DEF Leads
<1> QED BY <1>5 DEF D

\* Payload behind all padded chunks.
LEMMA PlainLeads ==
  ASSUME kFirstPaddings \in Nat, NEW k \in Nat, NEW j \in Nat
  PROVE  Leads(Between(kFirstPaddings, k), [i \in 1 .. j |-> Payload(k + i)], Between(kFirstPaddings, k + j))
<1> DEFINE D == [i \in 1 .. j |-> Payload(k + i)]
           st == [i \in 0 .. j |-> Between(kFirstPaddings, k + i)]
<1>1. Len(D) = j /\ \A i \in 1 .. j : D[i] = Payload(k + i)
  <2>1. D \in Seq({Payload(i) : i \in Nat})
    OBVIOUS
  <2> QED BY <2>1
<1>2. st \in [0 .. j -> Spots]
  BY DEF At, Spots, Between
<1>3. st[0] = Between(kFirstPaddings, k) /\ st[j] = Between(kFirstPaddings, k + j)
  <2>1. 0 \in 0 .. j /\ j \in 0 .. j /\ k + 0 = k
    OBVIOUS
  <2> HIDE DEF D
  <2> QED BY <2>1
<1>4. ASSUME NEW i \in 1 .. j PROVE Passes(st[i - 1], D[i], st[i])
  <2>1. i \in 0 .. j /\ i - 1 \in 0 .. j /\ k + (i - 1) \in Nat /\ (k + (i - 1)) + 1 = k + i
    OBVIOUS
  <2>2. st[i - 1] = At(kFirstPaddings, k + (i - 1), 0, 0) /\ st[i] = At(kFirstPaddings, k + i, 0, 0)
    BY <2>1 DEF Between
  <2>3. D[i] = Payload(k + i)
    BY <1>1
  <2> HIDE DEF st, D
  <2>4. /\ st[i - 1].a = 0 /\ st[i - 1].b = 0 /\ st[i - 1].n = kFirstPaddings
        /\ D[i] = Payload(st[i - 1].k + 1) /\ st[i] = At(st[i - 1].n, st[i - 1].k + 1, 0, 0)
    BY <2>1, <2>2, <2>3 DEF At
  <2> QED BY <2>4 DEF Passes
<1> HIDE DEF D, st
<1>5. Leads(Between(kFirstPaddings, k), D, Between(kFirstPaddings, k + j))
  BY <1>1, <1>2, <1>3, <1>4 DEF Leads
<1> QED BY <1>5 DEF D

\* A padded chunk.
LEMMA ChunkLeads ==
  ASSUME kFirstPaddings \in Nat, NEW n \in Nat, n < kFirstPaddings, NEW k \in Nat, NEW j \in Nat, j > 0,
         NEW pad \in Nat
  PROVE  Leads(Between(n, k), AddPadding([i \in 1 .. j |-> Payload(k + i)], pad), Between(n + 1, k + j))
<1> DEFINE buf == [i \in 1 .. j |-> Payload(k + i)]
           head == PaddingHeader(j, pad)
           pads == [i \in 1 .. pad |-> Pad]
<1>1. buf \in Seq(Tokens) /\ Len(buf) = j
  <2>1. \A i \in 1 .. j : Payload(k + i) \in Tokens
    BY DEF Payload, Tokens
  <2> QED BY <2>1
<1>2. pads \in Seq(Tokens)
  <2>1. Pad \in Tokens
    BY DEF Pad, Tokens
  <2> QED BY <2>1
<1>3. head \in Tokens /\ head.kind = "head" /\ head.n = j /\ head.pad = pad
  BY DEF PaddingHeader, Tokens
<1>4. Leads(Between(n, k), <<head>>, At(n + 1, k, j, pad))
  <2>1. Between(n, k) \in Spots /\ At(n + 1, k, j, pad) \in Spots
    BY DEF Between, At, Spots
  <2>2. Passes(Between(n, k), head, At(n + 1, k, j, pad))
    <3>1. Between(n, k).a = 0 /\ Between(n, k).b = 0 /\ Between(n, k).n = n /\ Between(n, k).k = k
      BY DEF Between, At
    <3> HIDE DEF head
    <3> QED BY <1>3, <3>1 DEF Passes
  <2> QED BY <2>1, <2>2, LeadsOne
<1>5. Leads(At(n + 1, k, j, pad), buf, At(n + 1, k + j, 0, pad))
  <2>1. n + 1 \in Nat /\ j <= j /\ j - j = 0
    OBVIOUS
  <2>2. Leads(At(n + 1, k, j, pad), buf, At(n + 1, k + j, j - j, pad))
    BY <2>1, PayloadLeads
  <2> QED BY <2>1, <2>2
<1>6. Leads(At(n + 1, k + j, 0, pad), pads, Between(n + 1, k + j))
  <2>1. n + 1 \in Nat /\ k + j \in Nat
    OBVIOUS
  <2> QED BY <2>1, PadLeads
<1>7. AddPadding(buf, pad) = (<<head>> \o buf) \o pads
  BY <1>1 DEF AddPadding
<1> HIDE DEF buf, pads, head
<1>8. Leads(Between(n, k), <<head>> \o buf, At(n + 1, k + j, 0, pad))
  <2>1. <<head>> \in Seq(Tokens)
    BY <1>3
  <2> QED BY <1>1, <1>4, <1>5, <2>1, LeadsOn
<1>9. <<head>> \o buf \in Seq(Tokens)
  BY <1>1, <1>3
<1>10. Leads(Between(n, k), (<<head>> \o buf) \o pads, Between(n + 1, k + j))
  BY <1>2, <1>6, <1>8, <1>9, LeadsOn
<1> QED BY <1>7, <1>10 DEF buf

-----------------------------------------------------------------------------
(* What a reader finds. *)

DataTokens == {x \in Tokens : IsData(x)}

\* Payload and padding are data.
LEMMA KindsDiffer ==
  /\ \A i : Payload(i).kind = "data" /\ IsData(Payload(i))
  /\ Pad.kind = "pad" /\ IsData(Pad)
BY DEF Payload, Pad, IsData

\* A chunk that begins: its header, its payload as far as it is there, and the
\* place behind what is there.
LEMMA ChunkPlaces ==
  ASSUME kFirstPaddings \in Nat, NEW n \in Nat, n < kFirstPaddings, NEW k \in Nat,
         NEW buf \in Seq(DataTokens), buf # << >>,
         NEW u, Leads(Between(n, k), buf, u), Len(buf) <= 1 + buf[1].n + buf[1].pad
  PROVE  /\ buf[1] \in Tokens /\ buf[1].kind = "head" /\ buf[1].n > 0
         /\ \A i \in 1 .. buf[1].n : 1 + i <= Len(buf) => buf[1 + i] = Payload(k + i)
         /\ Len(buf) = 1 + buf[1].n + buf[1].pad => u = Between(n + 1, k + buf[1].n)
         /\ Len(buf) < 1 + buf[1].n + buf[1].pad => u.a # 0 \/ u.b # 0
<1> DEFINE l == Len(buf)
           m == buf[1].n
           p == buf[1].pad
<1>1. l \in Nat /\ l >= 1 /\ \A i \in 1 .. l : buf[i] \in Tokens /\ IsData(buf[i])
  <2>1. l \in Nat /\ l # 0
    BY EmptySeq, LenProperties
  <2>2. \A i \in 1 .. l : buf[i] \in DataTokens
    BY ElementOfSeq
  <2> QED BY <2>1, <2>2 DEF DataTokens
<1>2. PICK st \in [0 .. l -> Spots] :
        st[0] = Between(n, k) /\ st[l] = u /\ \A i \in 1 .. l : Passes(st[i - 1], buf[i], st[i])
  BY DEF Leads
<1>3. 1 \in 1 .. l /\ 1 - 1 = 0
  BY <1>1
<1>4. buf[1].kind = "head" /\ buf[1].n > 0 /\ st[1] = At(n + 1, k, m, p)
  <2>1. Passes(st[0], buf[1], st[1]) /\ IsData(buf[1])
    BY <1>1, <1>2, <1>3
  <2>2. st[0].a = 0 /\ st[0].b = 0 /\ st[0].n = n /\ st[0].k = k
    BY <1>2 DEF Between, At
  <2> QED BY <2>1, <2>2 DEF Passes
<1>5. m \in Nat /\ p \in Nat /\ buf[1] \in Tokens
  BY <1>1, <1>3 DEF Tokens
<1>n. l \in Nat /\ l >= 1 /\ m \in Nat /\ p \in Nat
  BY <1>1, <1>5
<1> HIDE DEF l, m, p
<1>6. ASSUME NEW i \in 1 .. l PROVE Passes(st[i - 1], buf[i], st[i]) /\ IsData(buf[i]) /\ st[i] \in Spots
  <2>1. i \in 0 .. l
    BY <1>1
  <2> QED BY <1>1, <1>2, <2>1
<1> DEFINE S == {i \in Nat : i <= m /\ 1 + i <= l => st[1 + i] = At(n + 1, k + i, m - i, p)}
           R == {i \in Nat : i <= p /\ 1 + m + i <= l => st[1 + m + i] = At(n + 1, k + m, 0, p - i)}
<1>7. Nat \subseteq S
  <2>1. 0 \in S
    <3>1. 1 + 0 = 1 /\ k + 0 = k /\ m - 0 = m
      BY <1>5
    <3> QED BY <1>4, <3>1
  <2>2. ASSUME NEW i \in Nat, i \in S PROVE i + 1 \in S
    <3>1. SUFFICES ASSUME i + 1 <= m, 1 + (i + 1) <= l PROVE st[1 + (i + 1)] = At(n + 1, k + (i + 1), m - (i + 1), p)
      OBVIOUS
    <3> DEFINE j == 1 + (i + 1)
    <3>2. j \in 1 .. l /\ j - 1 = 1 + i /\ i <= m /\ 1 + i <= l /\ m - i > 0 /\ m - i \in Nat
          /\ (k + i) + 1 = k + (i + 1) /\ (m - i) - 1 = m - (i + 1)
      BY ONLY <1>n, <3>1, i \in Nat, k \in Nat
    <3> HIDE DEF j
    <3>3. st[1 + i] = At(n + 1, k + i, m - i, p)
      BY <2>2, <3>2
    <3>4. Passes(st[1 + i], buf[j], st[j]) /\ IsData(buf[j])
      BY <1>6, <3>2
    <3>5. st[1 + i].n = n + 1 /\ st[1 + i].k = k + i /\ st[1 + i].a = m - i /\ st[1 + i].b = p
      BY <3>3 DEF At
    <3>6. st[j] = At(n + 1, (k + i) + 1, (m - i) - 1, p)
      BY <3>2, <3>4, <3>5 DEF Passes
    <3> QED BY <3>2, <3>6 DEF j
  <2> HIDE DEF S
  <2> QED BY <2>1, <2>2, NatInduct
<1>8. ASSUME NEW i \in 1 .. m, 1 + i <= l PROVE buf[1 + i] = Payload(k + i)
  <2> DEFINE h == i - 1
  <2>1. h \in Nat /\ h <= m /\ 1 + h <= l /\ m - h > 0 /\ 1 + i \in 1 .. l /\ (1 + i) - 1 = 1 + h
          /\ (k + h) + 1 = k + i
    BY ONLY <1>n, <1>8, k \in Nat, i \in 1 .. m
  <2> HIDE DEF h
  <2>2. st[1 + h] = At(n + 1, k + h, m - h, p)
    BY <1>7, <2>1
  <2>3. Passes(st[1 + h], buf[1 + i], st[1 + i]) /\ IsData(buf[1 + i])
    BY <1>6, <2>1
  <2>4. st[1 + h].k = k + h /\ st[1 + h].a = m - h
    BY <2>2 DEF At
  <2>5. buf[1 + i] = Payload((k + h) + 1)
    BY <2>1, <2>3, <2>4 DEF Passes
  <2> QED BY <2>1, <2>5
<1>9. Nat \subseteq R
  <2>1. 0 \in R
    <3>1. 1 + m + 0 = 1 + m /\ p - 0 = p /\ m <= m /\ m - m = 0 /\ m \in Nat
      BY <1>5
    <3>2. m \in S
      BY <1>5, <1>7
    <3> QED BY <3>1, <3>2
  <2>2. ASSUME NEW i \in Nat, i \in R PROVE i + 1 \in R
    <3>1. SUFFICES ASSUME i + 1 <= p, 1 + m + (i + 1) <= l
            PROVE st[1 + m + (i + 1)] = At(n + 1, k + m, 0, p - (i + 1))
      OBVIOUS
    <3> DEFINE j == 1 + m + (i + 1)
               h == 1 + m + i
    <3>2. j \in 1 .. l /\ j - 1 = h /\ i <= p /\ h <= l /\ p - i > 0 /\ p - i \in Nat /\ (p - i) - 1 = p - (i + 1)
      BY <1>1, <1>5, <3>1
    <3>3. st[h] = At(n + 1, k + m, 0, p - i)
      BY <2>2, <3>2
    <3> HIDE DEF j, h
    <3>4. Passes(st[h], buf[j], st[j]) /\ IsData(buf[j])
      BY <1>6, <3>2
    <3>5. st[h].n = n + 1 /\ st[h].k = k + m /\ st[h].a = 0 /\ st[h].b = p - i
      BY <3>3 DEF At
    <3>6. st[j] = At(n + 1, k + m, 0, (p - i) - 1)
      BY <3>2, <3>4, <3>5 DEF Passes
    <3> QED BY <3>2, <3>6 DEF j
  <2> HIDE DEF R
  <2> QED BY <2>1, <2>2, NatInduct
<1>10. l = 1 + m + p => u = Between(n + 1, k + m)
  <2>1. SUFFICES ASSUME l = 1 + m + p PROVE u = Between(n + 1, k + m)
    OBVIOUS
  <2>2. p \in R /\ p <= p /\ 1 + m + p <= l /\ p - p = 0
    BY <1>1, <1>5, <1>9, <2>1
  <2> QED BY <1>2, <2>1, <2>2 DEF Between
<1>11. l < 1 + m + p => u.a # 0 \/ u.b # 0
  <2>1. SUFFICES ASSUME l < 1 + m + p PROVE u.a # 0 \/ u.b # 0
    OBVIOUS
  <2>2. CASE l < 1 + m
    <3> DEFINE i == l - 1
    <3>1. i \in Nat /\ i <= m /\ 1 + i = l /\ m - i > 0
      BY ONLY <1>n, <2>2
    <3> HIDE DEF i
    <3>2. st[l] = At(n + 1, k + i, m - i, p)
      BY <1>7, <3>1
    <3>3. u.a = m - i
      BY <1>2, <3>2 DEF At
    <3> QED BY <1>5, <3>1, <3>3
  <2>3. CASE l >= 1 + m
    <3> DEFINE i == l - (1 + m)
    <3>1. i \in Nat /\ i <= p /\ 1 + m + i = l /\ p - i > 0
      BY ONLY <1>n, <2>1, <2>3
    <3> HIDE DEF i
    <3>2. st[1 + m + i] = At(n + 1, k + m, 0, p - i)
      <4>1. i \in R /\ 1 + m + i <= l
        BY <1>n, <1>9, <3>1
      <4> QED BY <3>1, <4>1
    <3>3. u.b = p - i
      BY <1>2, <3>1, <3>2 DEF At
    <3> QED BY <1>n, <3>1, <3>3
  <2> QED BY <1>n, <2>2, <2>3
<1> QED BY <1>4, <1>5, <1>8, <1>10, <1>11 DEF l, m, p

\* Behind the padded chunks all is payload.
LEMMA PlainRead ==
  ASSUME kFirstPaddings \in Nat, NEW k \in Nat, NEW buf \in Seq(DataTokens),
         NEW u, Leads(Between(kFirstPaddings, k), buf, u)
  PROVE  (\A i \in 1 .. Len(buf) : buf[i] = Payload(k + i)) /\ u = Between(kFirstPaddings, k + Len(buf))
<1> DEFINE l == Len(buf)
<1>1. l \in Nat /\ \A i \in 1 .. l : IsData(buf[i])
  <2>1. \A i \in 1 .. l : buf[i] \in DataTokens
    BY ElementOfSeq
  <2> QED BY <2>1, LenProperties DEF DataTokens
<1>2. PICK st \in [0 .. l -> Spots] :
        st[0] = Between(kFirstPaddings, k) /\ st[l] = u /\ \A i \in 1 .. l : Passes(st[i - 1], buf[i], st[i])
  BY DEF Leads
<1> HIDE DEF l
<1> DEFINE Right(i) == st[i] = Between(kFirstPaddings, k + i)
           S == {i \in Nat : i <= l => Right(i)}
<1>3. ASSUME NEW i \in Nat, i + 1 <= l, Right(i) PROVE buf[i + 1] = Payload(k + (i + 1)) /\ Right(i + 1)
  <2>1. i + 1 \in 1 .. l /\ (i + 1) - 1 = i /\ (k + i) + 1 = k + (i + 1)
    BY <1>1, <1>3
  <2>2. Passes(st[i], buf[i + 1], st[i + 1]) /\ IsData(buf[i + 1])
    BY <1>1, <1>2, <2>1
  <2>3. st[i].n = kFirstPaddings /\ st[i].k = k + i /\ st[i].a = 0 /\ st[i].b = 0
    BY <1>3 DEF Between, At
  <2>4. buf[i + 1] = Payload((k + i) + 1) /\ st[i + 1] = At(kFirstPaddings, (k + i) + 1, 0, 0)
    BY <2>2, <2>3 DEF Passes
  <2> QED BY <2>1, <2>4 DEF Between
<1>4. Right(0)
  BY <1>2
<1> HIDE DEF Right
<1>5. Nat \subseteq S
  <2>1. 0 \in S
    BY <1>4
  <2>2. ASSUME NEW i \in Nat, i \in S PROVE i + 1 \in S
    <3>1. SUFFICES ASSUME i + 1 <= l PROVE Right(i + 1)
      OBVIOUS
    <3>2. i <= l
      BY <1>1, <3>1
    <3> QED BY <1>3, <2>2, <3>1, <3>2
  <2> HIDE DEF S
  <2> QED BY <2>1, <2>2, NatInduct
<1>6. ASSUME NEW i \in 1 .. l PROVE buf[i] = Payload(k + i)
  <2> DEFINE h == i - 1
  <2>1. h \in Nat /\ h + 1 = i /\ h <= l /\ h + 1 <= l
    BY <1>1
  <2> HIDE DEF h
  <2>2. Right(h)
    BY <1>5, <2>1
  <2> QED BY <1>3, <2>1, <2>2
<1>7. Right(l)
  <2>1. l <= l
    BY <1>1
  <2> QED BY <1>1, <1>5, <2>1
<1> QED BY <1>2, <1>6, <1>7 DEF Right, l

\* Tokens that are no data lead nowhere.
LEMMA ControlRead ==
  ASSUME NEW D \in Seq(Tokens), \A i \in 1 .. Len(D) : ~IsData(D[i]), NEW s, NEW u, Leads(s, D, u)
  PROVE  u = s
<1> DEFINE l == Len(D)
<1>1. l \in Nat
  BY LenProperties
<1>2. PICK st \in [0 .. l -> Spots] :
        st[0] = s /\ st[l] = u /\ \A i \in 1 .. l : Passes(st[i - 1], D[i], st[i])
  BY DEF Leads
<1> HIDE DEF l
<1> DEFINE S == {i \in Nat : i <= l => st[i] = s}
<1>3. 0 \in S
  BY <1>2
<1>4. ASSUME NEW i \in Nat, i \in S PROVE i + 1 \in S
  <2>1. SUFFICES ASSUME i + 1 <= l PROVE st[i + 1] = s
    OBVIOUS
  <2>2. i + 1 \in 1 .. l /\ (i + 1) - 1 = i /\ i <= l
    BY <1>1, <2>1
  <2>3. Passes(st[i], D[i + 1], st[i + 1]) /\ ~IsData(D[i + 1])
    BY <1>2, <2>2 DEF l
  <2>4. st[i + 1] = st[i]
    <3>1. \A j : Payload(j) # D[i + 1]
      BY <2>3, KindsDiffer
    <3>2. Pad # D[i + 1] /\ D[i + 1].kind # "head"
      BY <2>3, KindsDiffer DEF IsData
    <3> QED BY <2>3, <3>1, <3>2 DEF Passes
  <2> QED BY <1>4, <2>2, <2>4
<1> HIDE DEF S
<1>5. l \in S
  BY <1>1, <1>3, <1>4, NatInduct
<1>6. l <= l
  BY <1>1
<1> QED BY <1>2, <1>5, <1>6 DEF S

\* The tokens a padded chunk is made of.
ChunkTokens ==
  {Payload(i) : i \in 1 .. MaxTokens} \union {Pad} \union {PaddingHeader(i, p) : i \in 1 .. MaxTokens, p \in 0 .. 1}

\* Chunks are made of data.
LEMMA ChunkTokensTyped ==
  ASSUME MaxTokens \in Nat
  PROVE  ChunkTokens \subseteq DataTokens /\ ChunkTokens \subseteq Tokens
BY DEF ChunkTokens, DataTokens, Tokens, Payload, Pad, PaddingHeader, IsData

\* A sequence is its first n elements and the rest.
LEMMA SplitAt ==
  ASSUME NEW S, NEW s \in Seq(S), NEW n \in 0 .. Len(s)
  PROVE  /\ First(s, n) \in Seq(S) /\ Len(First(s, n)) = n
         /\ \A i \in 1 .. n : First(s, n)[i] = s[i]
         /\ Rest(s, n) \in Seq(S) /\ Len(Rest(s, n)) = Len(s) - n
         /\ First(s, n) \o Rest(s, n) = s
<1>0. Len(s) \in Nat BY LenProperties
<1>1. First(s, n) \in Seq(S) /\ Len(First(s, n)) = n /\ \A i \in 1 .. n : First(s, n)[i] = s[i]
  BY <1>0, SubSeqProperties DEF First
<1>2. Rest(s, n) \in Seq(S) /\ Len(Rest(s, n)) = Len(s) - n
  BY <1>0, SubSeqProperties DEF Rest
<1>3. SubSeq(s, 1, n) \o SubSeq(s, n + 1, Len(s)) = SubSeq(s, 1, Len(s))
  <2>1. 1 \in 1 .. Len(s) + 1 /\ n \in 1 - 1 .. Len(s) /\ Len(s) \in n .. Len(s) BY <1>0
  <2> QED BY ONLY <2>1, ConcatAdjacentSubSeq, s \in Seq(S)
<1>4. SubSeq(s, 1, Len(s)) = s BY SubSeqFull
<1> QED BY <1>1, <1>2, <1>3, <1>4 DEF First, Rest

\* A sequence over a set is one over a larger set.
LEMMA SeqSubset ==
  ASSUME NEW S, NEW T, S \subseteq T, NEW s \in Seq(S)
  PROVE  s \in Seq(T)
BY SeqMonotonic

\* RemovePadding takes one chunk.
LEMMA ChunkRead ==
  ASSUME kFirstPaddings \in Nat, MaxTokens \in Nat, NEW n \in Nat, n < kFirstPaddings, NEW k \in Nat,
         NEW buf \in Seq(ChunkTokens), NEW u, Leads(Between(n, k), buf, u), CompleteChunk(buf)
  PROVE  LET r == RemovePadding(buf)
             m == buf[1].n
         IN /\ m \in Nat /\ r.payload \in Seq(ChunkTokens) /\ Len(r.payload) = m
            /\ \A i \in 1 .. m : r.payload[i] = Payload(k + i)
            /\ r.rest \in Seq(ChunkTokens) /\ Leads(Between(n + 1, k + m), r.rest, u)
<1> DEFINE m == buf[1].n
           p == buf[1].pad
           L == 1 + m + p
           A == First(buf, L)
           B == Rest(buf, L)
<1>0. buf \in Seq(DataTokens) /\ buf \in Seq(Tokens) /\ ChunkTokens \subseteq DataTokens
        /\ ChunkTokens \subseteq Tokens
  BY ChunkTokensTyped, SeqSubset
<1>1. buf # << >> /\ Len(buf) >= L /\ m > 0
  BY DEF CompleteChunk
<1>2. Len(buf) \in Nat /\ Len(buf) # 0
  BY <1>1, EmptySeq, LenProperties
<1>3. buf[1] \in Tokens /\ m \in Nat /\ p \in Nat
  <2>1. buf[1] \in Tokens
    BY <1>0, <1>2, ElementOfSeq
  <2> QED BY <2>1 DEF Tokens
<1>4. L \in 0 .. Len(buf) /\ L >= 1 /\ L \in Nat
  BY <1>1, <1>2, <1>3
<1> HIDE DEF m, p
<1>5. /\ A \in Seq(ChunkTokens) /\ Len(A) = L /\ \A i \in 1 .. L : A[i] = buf[i]
      /\ B \in Seq(ChunkTokens) /\ A \o B = buf
  <2> HIDE DEF L
  <2> QED BY <1>4, SplitAt
<1> HIDE DEF A, B
<1>6. A \in Seq(DataTokens) /\ A \in Seq(Tokens) /\ B \in Seq(Tokens)
  BY <1>0, <1>5, SeqSubset
<1>7. PICK v \in Spots : Leads(Between(n, k), A, v) /\ Leads(v, B, u)
  BY <1>5, <1>6, LeadsThrough
<1>8. A[1] = buf[1] /\ A # << >>
  <2>1. 1 \in 1 .. L
    BY <1>4
  <2> HIDE DEF L
  <2> QED BY <1>4, <1>5, <2>1
<1>9. /\ \A i \in 1 .. A[1].n : 1 + i <= Len(A) => A[1 + i] = Payload(k + i)
      /\ Len(A) = 1 + A[1].n + A[1].pad => v = Between(n + 1, k + A[1].n)
  <2>1. Len(A) <= 1 + A[1].n + A[1].pad
    BY <1>4, <1>5, <1>8 DEF m, p
  <2> QED BY <1>6, <1>7, <1>8, <2>1, ChunkPlaces
<1>10. v = Between(n + 1, k + m)
  BY <1>5, <1>8, <1>9 DEF m, p
<1>11. ASSUME NEW i \in 1 .. m PROVE buf[1 + i] = Payload(k + i)
  <2>1. 1 + i \in 1 .. L /\ 1 + i <= L
    BY <1>3
  <2> HIDE DEF L
  <2>2. A[1 + i] = Payload(k + i)
    BY <1>5, <1>8, <1>9, <2>1 DEF m
  <2> QED BY <1>5, <2>1, <2>2
<1> DEFINE P == SubSeq(buf, 2, 1 + m)
<1>12. P \in Seq(ChunkTokens) /\ Len(P) = m /\ \A i \in 1 .. m : P[i] = buf[1 + i]
  <2>1. 2 \in 1 .. Len(buf) + 1 /\ 1 + m \in 2 - 1 .. Len(buf) /\ (1 + m) - 2 + 1 = m
        /\ \A i \in 1 .. m : 2 + i - 1 = 1 + i
    BY <1>1, <1>2, <1>3, <1>4
  <2>2. Len(P) = IF 2 <= 1 + m THEN (1 + m) - 2 + 1 ELSE 0
    BY <1>3, <2>1, SubSeqProperties
  <2> QED BY <1>1, <1>2, <1>3, <1>4
<1>13. RemovePadding(buf).payload = P /\ RemovePadding(buf).rest = B
  BY DEF RemovePadding, m, p, B
<1> HIDE DEF P
<1>14. m \in Nat /\ P \in Seq(ChunkTokens) /\ Len(P) = m /\ (\A i \in 1 .. m : P[i] = Payload(k + i))
       /\ B \in Seq(ChunkTokens) /\ Leads(Between(n + 1, k + m), B, u)
  BY <1>3, <1>5, <1>7, <1>10, <1>11, <1>12
<1> QED BY <1>13, <1>14 DEF m

\* The recursion over the chunks that are still padded.
LEMMA UnpadIs ==
  ASSUME kFirstPaddings \in Nat, NEW n \in 0 .. kFirstPaddings, NEW buf \in Seq(ChunkTokens)
  PROVE  Unpad[n][buf] =
           IF n = kFirstPaddings THEN [payload |-> buf, recv |-> n, middle |-> << >>]
           ELSE IF ~CompleteChunk(buf) THEN [payload |-> << >>, recv |-> n, middle |-> buf]
           ELSE [Unpad[n + 1][RemovePadding(buf).rest] EXCEPT !.payload = RemovePadding(buf).payload \o @]
<1> DEFINE K == kFirstPaddings
           G(c, h) == [b \in Seq(ChunkTokens) |->
                        IF c = K THEN [payload |-> b, recv |-> c, middle |-> << >>]
                        ELSE IF ~CompleteChunk(b) THEN [payload |-> << >>, recv |-> c, middle |-> b]
                        ELSE [h[RemovePadding(b).rest] EXCEPT !.payload = RemovePadding(b).payload \o @]]
           Full(f, l) == f = [c \in l .. K |-> G(c, f[c + 1])]
           S == {j \in Nat : j <= K => \E f : Full(f, K - j)}
<1>1. \A h, i : G(K, h) = G(K, i)
  OBVIOUS
<1>2. Unpad = CHOOSE f : Full(f, 0)
  BY DEF Unpad, ChunkTokens
<1> HIDE DEF G
<1>3. 0 \in S
  <2> DEFINE f == [c \in K .. K |-> G(K, 0)]
  <2>1. K .. K = {K} /\ K - 0 = K
    OBVIOUS
  <2>2. f = [c \in K .. K |-> G(c, f[c + 1])]
    BY <1>1, <2>1
  <2>3. Full(f, K)
    BY <2>2
  <2> HIDE DEF f, Full
  <2> QED BY <2>1, <2>3
<1>4. ASSUME NEW j \in Nat, j \in S PROVE j + 1 \in S
  <2>1. SUFFICES ASSUME j + 1 <= K PROVE \E f : Full(f, K - (j + 1))
    BY DEF S
  <2> DEFINE l == K - (j + 1)
  <2>2. j <= K /\ l \in Nat /\ K - j = l + 1 /\ l .. K = {l} \cup (l + 1 .. K) /\ l \notin l + 1 .. K
        /\ l + 1 \in l + 1 .. K
    BY <2>1
  <2>3. PICK f : Full(f, l + 1)
    BY <1>4, <2>2
  <2> HIDE DEF l
  <2> DEFINE g == [c \in l .. K |-> IF c = l THEN G(l, f[l + 1]) ELSE f[c]]
  <2>4. \A c \in l .. K : g[c] = G(c, g[c + 1])
    <3>1. SUFFICES ASSUME NEW c \in l .. K PROVE g[c] = G(c, g[c + 1])
      OBVIOUS
    <3>2. CASE c = l
      <4>1. l + 1 \in l .. K /\ l + 1 # l
        BY <2>2
      <4>2. g[l + 1] = f[l + 1]
        BY <4>1
      <4> QED BY <3>2, <4>2
    <3>3. CASE c # l /\ c # K
      <4>1. c \in l + 1 .. K /\ c + 1 \in l .. K /\ c + 1 # l
        BY <2>2, <3>3
      <4>2. g[c] = f[c] /\ g[c + 1] = f[c + 1]
        BY <3>3, <4>1
      <4>3. f[c] = G(c, f[c + 1])
        BY <2>3, <4>1
      <4> QED BY <4>2, <4>3
    <3>4. CASE c # l /\ c = K
      <4>1. c \in l + 1 .. K
        BY <2>2, <3>4
      <4>2. g[c] = f[c]
        BY <3>4
      <4>3. f[c] = G(c, f[c + 1])
        BY <2>3, <4>1
      <4>4. G(K, f[c + 1]) = G(K, g[c + 1])
        BY <1>1
      <4> QED BY <3>4, <4>2, <4>3, <4>4
    <3> QED BY <3>2, <3>3, <3>4
  <2> HIDE DEF g
  <2>5. g = [c \in l .. K |-> g[c]]
    BY DEF g
  <2>6. Full(g, l)
    BY <2>4, <2>5
  <2> HIDE DEF Full
  <2> QED BY <2>6 DEF l
<1> HIDE DEF S
<1>5. K \in S
  BY <1>3, <1>4, NatInduct
<1>6. \E f : Full(f, 0)
  <2>1. K <= K /\ K - K = 0
    OBVIOUS
  <2> HIDE DEF Full
  <2> QED BY <1>5, <2>1 DEF S
<1>7. Full(Unpad, 0)
  <2> HIDE DEF Full
  <2> QED BY <1>2, <1>6
<1>8. Unpad[n] = G(n, Unpad[n + 1])
  BY <1>7
<1> HIDE DEF K
<1>9. G(n, Unpad[n + 1])[buf] =
        IF n = K THEN [payload |-> buf, recv |-> n, middle |-> << >>]
        ELSE IF ~CompleteChunk(buf) THEN [payload |-> << >>, recv |-> n, middle |-> buf]
        ELSE [Unpad[n + 1][RemovePadding(buf).rest] EXCEPT !.payload = RemovePadding(buf).payload \o @]
  BY DEF G
<1> QED BY <1>8, <1>9 DEF K

\* What the loop finds from the place between two chunks: payload in order, and
\* what is left of it does not hold a whole chunk.
Unpadded(r, n, k, u) ==
  \E j \in Nat :
    /\ r = [payload |-> r.payload, recv |-> r.recv, middle |-> r.middle]
    /\ r.payload \in Seq(ChunkTokens) /\ Len(r.payload) = j
    /\ \A i \in 1 .. j : r.payload[i] = Payload(k + i)
    /\ r.recv \in n .. kFirstPaddings /\ r.middle \in Seq(ChunkTokens)
    /\ Leads(Between(r.recv, k + j), r.middle, u)
    /\ r.middle # << >> => r.recv < kFirstPaddings /\ ~CompleteChunk(r.middle)

\* A place between two chunks.
LEMMA BetweenTyped ==
  ASSUME NEW n \in Nat, NEW k \in Nat
  PROVE  Between(n, k) \in Spots
BY DEF Between, At, Spots

\* The loop over padding_in_middle_buf_ finds the payload and stops where no whole chunk is left.
LEMMA UnpadReads ==
  ASSUME kFirstPaddings \in Nat, MaxTokens \in Nat, NEW n \in 0 .. kFirstPaddings, NEW k \in Nat,
         NEW buf \in Seq(ChunkTokens), NEW u, Leads(Between(n, k), buf, u)
  PROVE  Unpadded(Unpad[n][buf], n, k, u)
<1> DEFINE K == kFirstPaddings
           Right(i) == \A q \in Nat, b \in Seq(ChunkTokens) :
                         Leads(Between(i, q), b, u) => Unpadded(Unpad[i][b], i, q, u)
           S == {j \in Nat : j <= K => Right(K - j)}
<1>0. ASSUME NEW i \in 0 .. K, NEW b \in Seq(ChunkTokens)
      PROVE  Unpad[i][b] = IF i = K THEN [payload |-> b, recv |-> i, middle |-> << >>]
                           ELSE IF ~CompleteChunk(b) THEN [payload |-> << >>, recv |-> i, middle |-> b]
                           ELSE [Unpad[i + 1][RemovePadding(b).rest] EXCEPT !.payload = RemovePadding(b).payload \o @]
  BY UnpadIs
<1>1. Right(K)
  <2>1. SUFFICES ASSUME NEW q \in Nat, NEW b \in Seq(ChunkTokens), Leads(Between(K, q), b, u)
                 PROVE  Unpadded(Unpad[K][b], K, q, u)
    OBVIOUS
  <2>2. Unpad[K][b] = [payload |-> b, recv |-> K, middle |-> << >>]
    <3>1. kFirstPaddings \in 0 .. kFirstPaddings
      OBVIOUS
    <3> QED BY ONLY <3>1, kFirstPaddings \in Nat, b \in Seq(ChunkTokens), UnpadIs
  <2>3. b \in Seq(DataTokens)
    BY ChunkTokensTyped, SeqSubset
  <2>4. (\A i \in 1 .. Len(b) : b[i] = Payload(q + i)) /\ u = Between(K, q + Len(b))
    BY <2>1, <2>3, PlainRead
  <2>5. Len(b) \in Nat /\ << >> \in Seq(ChunkTokens) /\ K \in K .. K
    BY LenProperties, EmptySeq
  <2>6. Leads(Between(K, q + Len(b)), << >>, u)
    <3>1. q + Len(b) \in Nat
      BY <2>5
    <3>2. u \in Spots /\ Between(K, q + Len(b)) \in Spots
      BY <2>4, <3>1, BetweenTyped
    <3> QED BY <2>4, <3>2, LeadsNowhere
  <2> DEFINE r == Unpad[K][b]
  <2>7. r.payload = b /\ r.recv = K /\ r.middle = << >>
    BY <2>2
  <2>9. r = [payload |-> r.payload, recv |-> r.recv, middle |-> r.middle]
    BY <2>2, <2>7
  <2> HIDE DEF r
  <2>8. Unpadded(r, K, q, u)
    BY <2>4, <2>5, <2>6, <2>7, <2>9 DEF Unpadded
  <2> QED BY <2>8 DEF r
<1>2. ASSUME NEW i \in 0 .. K, i < K, Right(i + 1) PROVE Right(i)
  <2>1. SUFFICES ASSUME NEW q \in Nat, NEW b \in Seq(ChunkTokens), Leads(Between(i, q), b, u)
                 PROVE  Unpadded(Unpad[i][b], i, q, u)
    OBVIOUS
  <2>2. i # K /\ i \in Nat /\ i + 1 \in 0 .. K /\ i \in i .. K
    BY <1>2
  <2>3. CASE ~CompleteChunk(b)
    <3> DEFINE r == Unpad[i][b]
    <3>0. r = [payload |-> << >>, recv |-> i, middle |-> b]
      BY <1>0, <2>2, <2>3
    <3>1. r.payload = << >> /\ r.recv = i /\ r.middle = b
            /\ r = [payload |-> r.payload, recv |-> r.recv, middle |-> r.middle]
      BY <3>0
    <3> HIDE DEF r
    <3>2. << >> \in Seq(ChunkTokens) /\ Len(<< >>) = 0 /\ q + 0 = q /\ 0 \in Nat /\ 1 .. 0 = {}
      BY EmptySeq
    <3>3. Unpadded(r, i, q, u)
      BY <1>2, <2>1, <2>2, <2>3, <3>1, <3>2 DEF Unpadded
    <3> QED BY <3>3 DEF r
  <2>4. CASE CompleteChunk(b)
    <3> DEFINE m == b[1].n
               p == RemovePadding(b).payload
               rest == RemovePadding(b).rest
               more == Unpad[i + 1][rest]
               r == Unpad[i][b]
    <3>1. /\ m \in Nat /\ p \in Seq(ChunkTokens) /\ Len(p) = m /\ \A h \in 1 .. m : p[h] = Payload(q + h)
          /\ rest \in Seq(ChunkTokens) /\ Leads(Between(i + 1, q + m), rest, u)
      BY <1>2, <2>1, <2>2, <2>4, ChunkRead
    <3>2. r = [more EXCEPT !.payload = p \o @]
      BY <1>0, <2>2, <2>4
    <3> HIDE DEF m, p, rest
    <3>4. Unpadded(more, i + 1, q + m, u)
      <4>1. q + m \in Nat
        BY <3>1
      <4> QED BY <1>2, <3>1, <4>1
    <3> HIDE DEF more, r
    <3>5. PICK j \in Nat :
            /\ more = [payload |-> more.payload, recv |-> more.recv, middle |-> more.middle]
            /\ more.payload \in Seq(ChunkTokens) /\ Len(more.payload) = j
            /\ \A h \in 1 .. j : more.payload[h] = Payload((q + m) + h)
            /\ more.recv \in i + 1 .. K /\ more.middle \in Seq(ChunkTokens)
            /\ Leads(Between(more.recv, (q + m) + j), more.middle, u)
            /\ more.middle # << >> => more.recv < K /\ ~CompleteChunk(more.middle)
      BY <3>4 DEF Unpadded
    <3>6. r.payload = p \o more.payload /\ r.recv = more.recv /\ r.middle = more.middle
          /\ r = [payload |-> r.payload, recv |-> r.recv, middle |-> r.middle]
      BY <3>2, <3>5
    <3> DEFINE tail == more.payload
    <3>12. p \in Seq(ChunkTokens) /\ tail \in Seq(ChunkTokens) /\ Len(p) = m /\ Len(tail) = j /\ r.payload = p \o tail
      BY <3>1, <3>5, <3>6
    <3> HIDE DEF tail
    <3>7. r.payload \in Seq(ChunkTokens) /\ Len(r.payload) = m + j
      BY ONLY <3>12, ConcatProperties
    <3>8. ASSUME NEW h \in 1 .. m + j PROVE r.payload[h] = Payload(q + h)
      <4>1. r.payload[h] = IF h <= m THEN p[h] ELSE more.payload[h - m]
        <5>1. (p \o tail)[h] = IF h <= Len(p) THEN p[h] ELSE tail[h - Len(p)]
          BY ONLY <3>12, ConcatProperties, h \in 1 .. m + j
        <5> QED BY <3>12, <5>1 DEF tail
      <4>2. CASE h <= m
        <5>1. h \in 1 .. m
          BY <3>1, <4>2
        <5> QED BY <3>1, <4>1, <4>2, <5>1
      <4>3. CASE ~(h <= m)
        <5>1. h - m \in 1 .. j /\ (q + m) + (h - m) = q + h
          BY <3>1, <4>3
        <5> QED BY <3>5, <4>1, <4>3, <5>1
      <4> QED BY <4>2, <4>3
    <3>9. m + j \in Nat /\ (q + m) + j = q + (m + j) /\ r.recv \in i .. K
      <4>1. r.recv \in i + 1 .. K
        BY <3>5, <3>6
      <4>2. m \in Nat
        BY <3>1
      <4> QED BY ONLY <4>1, <4>2, i \in 0 .. K, K \in Nat, j \in Nat, q \in Nat
    <3>10. Leads(Between(r.recv, q + (m + j)), r.middle, u)
      BY <3>5, <3>6, <3>9
    <3>11. Unpadded(r, i, q, u)
      BY <3>5, <3>6, <3>7, <3>8, <3>9, <3>10 DEF Unpadded
    <3> QED BY <3>11 DEF r
  <2> QED BY <2>3, <2>4
<1> HIDE DEF Right
<1>3. 0 \in S
  <2>1. K - 0 = K
    OBVIOUS
  <2> QED BY <1>1, <2>1
<1>4. ASSUME NEW j \in Nat, j \in S PROVE j + 1 \in S
  <2>1. SUFFICES ASSUME j + 1 <= K PROVE Right(K - (j + 1))
    OBVIOUS
  <2>2. j <= K /\ K - (j + 1) \in 0 .. K /\ K - (j + 1) < K /\ (K - (j + 1)) + 1 = K - j
    BY <2>1
  <2> QED BY <1>2, <1>4, <2>2
<1> HIDE DEF S
<1>5. Right(n)
  <2>1. K - n \in Nat /\ K - n <= K /\ K - (K - n) = n
    OBVIOUS
  <2>2. K - n \in S
    BY <1>3, <1>4, <2>1, NatInduct
  <2> QED BY <2>1, <2>2 DEF S
<1> QED BY <1>5 DEF Right

-----------------------------------------------------------------------------
(* One direction of the tunnel. *)

Controls == {Headers(padding) : padding \in BOOLEAN} \union {WindowUpdate(n) : n \in Nat} \union {EndStream}
WireTokens == ChunkTokens \union Controls

\* The wire carries chunks and what is no data.
LEMMA WireTokensTyped ==
  ASSUME MaxTokens \in Nat
  PROVE  /\ WireTokens \subseteq Tokens /\ ChunkTokens \subseteq WireTokens
         /\ \A x \in Controls : x \in Tokens /\ ~IsData(x)
         /\ \A x \in WireTokens : IsData(x) => x \in ChunkTokens
         /\ \A x \in WireTokens : ~IsData(x) => x \in Controls
<1>1. \A x \in Controls : x \in Tokens /\ ~IsData(x)
  <2>1. \A padding \in BOOLEAN : Headers(padding) \in Tokens /\ ~IsData(Headers(padding))
    BY DEF Headers, Tokens, IsData
  <2>2. \A n \in Nat : WindowUpdate(n) \in Tokens /\ ~IsData(WindowUpdate(n))
    BY DEF WindowUpdate, Tokens, IsData
  <2>3. EndStream \in Tokens /\ ~IsData(EndStream)
    BY DEF EndStream, Tokens, IsData
  <2> QED BY <2>1, <2>2, <2>3 DEF Controls
<1>2. \A x \in ChunkTokens : x \in Tokens /\ IsData(x)
  BY ChunkTokensTyped DEF DataTokens
<1> QED BY <1>1, <1>2 DEF WireTokens

\* What was put aside, what is on the wire and what is still to be sent lead
\* from where the reader is to where the writer is.
Carried(from, middle, wire, chunks, to) ==
  \E u, v \in Spots : Leads(from, middle, u) /\ Leads(u, wire, v) /\ Leads(v, chunks, to)

\* The first n tokens that are to be sent go to the wire.
LEMMA CarriedSends ==
  ASSUME NEW from, NEW to, NEW middle, NEW wire \in Seq(Tokens), NEW chunks \in Seq(Tokens),
         NEW n \in 0 .. Len(chunks),
         Carried(from, middle, wire, chunks, to)
  PROVE  Carried(from, middle, wire \o First(chunks, n), Rest(chunks, n), to)
<1>1. PICK u \in Spots, v \in Spots : Leads(from, middle, u) /\ Leads(u, wire, v) /\ Leads(v, chunks, to)
  BY DEF Carried
<1>2. First(chunks, n) \in Seq(Tokens) /\ Rest(chunks, n) \in Seq(Tokens)
        /\ First(chunks, n) \o Rest(chunks, n) = chunks
  BY SplitAt
<1>3. PICK t \in Spots : Leads(v, First(chunks, n), t) /\ Leads(t, Rest(chunks, n), to)
  BY <1>1, <1>2, LeadsThrough
<1>4. Leads(u, wire \o First(chunks, n), t)
  BY <1>1, <1>2, <1>3, LeadsOn
<1> QED BY <1>1, <1>3, <1>4 DEF Carried

\* More is to be sent.
LEMMA CarriedAdds ==
  ASSUME NEW from, NEW to \in Spots, NEW next, NEW middle, NEW wire, NEW chunks,
         Carried(from, middle, wire, << >>, to), Leads(to, chunks, next)
  PROVE  Carried(from, middle, wire, chunks, next)
<1>1. PICK u \in Spots, v \in Spots : Leads(from, middle, u) /\ Leads(u, wire, v) /\ Leads(v, << >>, to)
  BY DEF Carried
<1>2. v = to
  BY <1>1, LeadsNowhere
<1> QED BY <1>1, <1>2 DEF Carried

\* A token that is no data goes to the wire.
LEMMA CarriedControl ==
  ASSUME NEW from, NEW to, NEW middle, NEW wire \in Seq(Tokens), NEW chunks, NEW x \in Tokens, ~IsData(x),
         Carried(from, middle, wire, chunks, to)
  PROVE  Carried(from, middle, wire \o <<x>>, chunks, to)
<1>1. PICK u \in Spots, v \in Spots : Leads(from, middle, u) /\ Leads(u, wire, v) /\ Leads(v, chunks, to)
  BY DEF Carried
<1>2. Leads(v, <<x>>, v)
  <2>1. Passes(v, x, v)
    BY DEF Passes
  <2> QED BY <2>1, LeadsOne
<1>3. <<x>> \in Seq(Tokens)
  OBVIOUS
<1>4. Leads(u, wire \o <<x>>, v)
  BY <1>1, <1>2, <1>3, LeadsOn
<1> QED BY <1>1, <1>4 DEF Carried

\* The reader takes the first n tokens.
LEMMA CarriedReads ==
  ASSUME NEW from, NEW to, NEW middle \in Seq(Tokens), NEW wire \in Seq(Tokens), NEW chunks, NEW n \in 0 .. Len(wire),
         Carried(from, middle, wire, chunks, to)
  PROVE  \E u \in Spots :
           /\ Leads(from, middle \o First(wire, n), u)
           /\ \A f, m : Leads(f, m, u) => Carried(f, m, Rest(wire, n), chunks, to)
<1>1. PICK u \in Spots, v \in Spots : Leads(from, middle, u) /\ Leads(u, wire, v) /\ Leads(v, chunks, to)
  BY DEF Carried
<1>2. First(wire, n) \in Seq(Tokens) /\ Rest(wire, n) \in Seq(Tokens) /\ First(wire, n) \o Rest(wire, n) = wire
  BY SplitAt
<1>3. PICK t \in Spots : Leads(u, First(wire, n), t) /\ Leads(t, Rest(wire, n), v)
  BY <1>1, <1>2, LeadsThrough
<1>4. Leads(from, middle \o First(wire, n), t)
  BY <1>1, <1>2, <1>3, LeadsOn
<1>5. \A f, m : Leads(f, m, t) => Carried(f, m, Rest(wire, n), chunks, to)
  BY <1>1, <1>3 DEF Carried
<1> QED BY <1>4, <1>5

\* A token that is no data is skipped.
LEMMA CarriedSkips ==
  ASSUME NEW from, NEW to, NEW middle, NEW wire \in Seq(Tokens), wire # << >>, ~IsData(Head(wire)), NEW chunks,
         Carried(from, middle, wire, chunks, to)
  PROVE  Carried(from, middle, Tail(wire), chunks, to)
<1>1. PICK u \in Spots, v \in Spots : Leads(from, middle, u) /\ Leads(u, wire, v) /\ Leads(v, chunks, to)
  BY DEF Carried
<1> DEFINE h == <<Head(wire)>>
<1>2. h \in Seq(Tokens) /\ Len(h) = 1 /\ h[1] = Head(wire) /\ Tail(wire) \in Seq(Tokens) /\ h \o Tail(wire) = wire
  BY HeadTailProperties
<1> HIDE DEF h
<1>3. PICK t \in Spots : Leads(u, h, t) /\ Leads(t, Tail(wire), v)
  BY <1>1, <1>2, LeadsThrough
<1>4. t = u
  BY <1>2, <1>3, ControlRead
<1> QED BY <1>1, <1>3, <1>4 DEF Carried

\* The fields of an endpoint.
EndpointFields ==
  {"padding_support_in_fact_", "num_padding_send_", "num_padding_recv_", "padding_in_middle_buf_", "data_frame_",
   "chunks_", "window", "queue"}
EndpointOK(e) ==
  /\ e = [f \in EndpointFields |-> e[f]]
  /\ e.padding_support_in_fact_ \in BOOLEAN /\ e.data_frame_ \in BOOLEAN
  /\ e.num_padding_send_ \in 0 .. kFirstPaddings /\ e.num_padding_recv_ \in 0 .. kFirstPaddings /\ e.window \in Nat
  /\ e.padding_in_middle_buf_ \in Seq(ChunkTokens) /\ e.chunks_ \in Seq(ChunkTokens) /\ e.queue \in Seq(ChunkTokens)

\* Where the reader r is, of whom got has what it passed on, and the writer e.
Done(pad, count) == IF pad THEN count ELSE kFirstPaddings
ReaderAt(pad, r, got) == Between(Done(pad, r.num_padding_recv_), Len(got) + Len(r.queue))
WriterAt(pad, e, sent) == Between(Done(pad, e.num_padding_send_), sent)

\* One direction: what came out is the payload from the first on, and what is
\* under way leads from the reader to the writer.
InOrder(got, queue) ==
  /\ \A i \in 1 .. Len(got) : got[i] = Payload(i)
  /\ \A i \in 1 .. Len(queue) : queue[i] = Payload(Len(got) + i)
Aside(pad, r) ==
  r.padding_in_middle_buf_ # << >> =>
    pad /\ r.num_padding_recv_ < kFirstPaddings /\ ~CompleteChunk(r.padding_in_middle_buf_)
Flow(pad, e, r, wire, sent, got) ==
  /\ Carried(ReaderAt(pad, r, got), r.padding_in_middle_buf_, wire, e.chunks_, WriterAt(pad, e, sent))
  /\ Aside(pad, r) /\ InOrder(got, r.queue)

\* Flow depends on what is to be sent, what was put aside and what is queued.
LEMMA FlowSame ==
  ASSUME NEW pad, NEW e, NEW r, NEW wire, NEW sent, NEW got, Flow(pad, e, r, wire, sent, got),
         NEW f, f.chunks_ = e.chunks_, f.num_padding_send_ = e.num_padding_send_,
         NEW q, q.padding_in_middle_buf_ = r.padding_in_middle_buf_, q.num_padding_recv_ = r.num_padding_recv_,
         q.queue = r.queue
  PROVE  Flow(pad, f, q, wire, sent, got)
BY DEF Flow, Aside, ReaderAt, WriterAt

\* Send: what the window lets through goes to the wire.
LEMMA SentIs ==
  ASSUME NEW e, EndpointOK(e)
  PROVE  LET n == Len(Sendable(e)) IN
         /\ n \in 0 .. Len(e.chunks_) /\ Sendable(e) = First(e.chunks_, n) /\ Sendable(e) \in Seq(ChunkTokens)
         /\ EndpointOK(Sent(e)) /\ Sent(e).chunks_ = Rest(e.chunks_, n)
         /\ \A f \in EndpointFields \ {"chunks_", "window"} : Sent(e)[f] = e[f]
         /\ e.chunks_ = << >> => Sendable(e) = << >> /\ Sent(e).chunks_ = << >>
<1> DEFINE m == Least(e.window, Len(e.chunks_))
           n == Len(Sendable(e))
<1>1. e.chunks_ \in Seq(ChunkTokens) /\ Len(e.chunks_) \in Nat /\ e.window \in Nat
  BY LenProperties DEF EndpointOK
<1>2. m \in 0 .. Len(e.chunks_) /\ m <= e.window /\ m \in Nat
  BY <1>1 DEF Least
<1> HIDE DEF m
<1>3. n = m /\ Sendable(e) = First(e.chunks_, m) /\ Sendable(e) \in Seq(ChunkTokens)
  BY <1>1, <1>2, SplitAt DEF Sendable, m
<1>4. Rest(e.chunks_, m) \in Seq(ChunkTokens) /\ Len(Rest(e.chunks_, m)) = Len(e.chunks_) - m
  BY <1>1, <1>2, SplitAt
<1>5. Sent(e) = [e EXCEPT !.chunks_ = Rest(e.chunks_, m), !.window = e.window - m]
  BY <1>3 DEF Sent
<1>6. e = [f \in EndpointFields |-> e[f]]
  BY DEF EndpointOK
<1>7. Sent(e).chunks_ = Rest(e.chunks_, m) /\ Sent(e).window = e.window - m
  BY <1>5, <1>6 DEF EndpointFields
<1>8. \A f \in EndpointFields \ {"chunks_", "window"} : Sent(e)[f] = e[f]
  BY <1>5, <1>6 DEF EndpointFields
<1>9. Sent(e) = [f \in EndpointFields |-> Sent(e)[f]]
  BY <1>5, <1>6
<1>10. e.window - m \in Nat
  BY <1>1, <1>2
<1>11. EndpointOK(Sent(e))
  <2> DEFINE t == Sent(e)
  <2>1. /\ t.padding_support_in_fact_ = e.padding_support_in_fact_ /\ t.data_frame_ = e.data_frame_
        /\ t.num_padding_send_ = e.num_padding_send_ /\ t.num_padding_recv_ = e.num_padding_recv_
        /\ t.padding_in_middle_buf_ = e.padding_in_middle_buf_ /\ t.queue = e.queue
    BY <1>8 DEF EndpointFields
  <2>2. t.chunks_ \in Seq(ChunkTokens) /\ t.window \in Nat /\ t = [f \in EndpointFields |-> t[f]]
    BY <1>4, <1>7, <1>9, <1>10
  <2> HIDE DEF t
  <2>3. EndpointOK(t)
    BY <2>1, <2>2 DEF EndpointOK
  <2> QED BY <2>3 DEF t
<1>12. e.chunks_ = << >> => Sendable(e) = << >> /\ Sent(e).chunks_ = << >>
  <2>1. SUFFICES ASSUME e.chunks_ = << >> PROVE Sendable(e) = << >> /\ Sent(e).chunks_ = << >>
    OBVIOUS
  <2>2. Len(e.chunks_) = 0
    BY <2>1
  <2>6. m = 0
    BY <1>2, <2>2
  <2>3. Len(Sendable(e)) = 0 /\ Len(Rest(e.chunks_, m)) = 0
    BY <1>3, <1>4, <2>2, <2>6
  <2>4. Rest(e.chunks_, m) = << >>
    BY <1>4, <2>3, EmptySeq
  <2>5. Sendable(e) = << >>
    BY <1>3, <2>3, EmptySeq
  <2> QED BY <1>7, <2>4, <2>5
<1> QED BY <1>2, <1>3, <1>7, <1>8, <1>11, <1>12

\* Send keeps the direction in order.
LEMMA FlowSends ==
  ASSUME MaxTokens \in Nat, NEW pad, NEW e, EndpointOK(e), NEW r, NEW wire \in Seq(WireTokens), NEW sent, NEW got,
         Flow(pad, e, r, wire, sent, got)
  PROVE  Flow(pad, Sent(e), r, wire \o Sendable(e), sent, got)
<1> DEFINE n == Len(Sendable(e))
<1>1. /\ n \in 0 .. Len(e.chunks_) /\ Sendable(e) = First(e.chunks_, n) /\ Sent(e).chunks_ = Rest(e.chunks_, n)
      /\ Sent(e).num_padding_send_ = e.num_padding_send_
  BY SentIs DEF EndpointFields
<1>2. wire \in Seq(Tokens) /\ e.chunks_ \in Seq(Tokens)
  BY WireTokensTyped, SeqSubset, ChunkTokensTyped DEF EndpointOK
<1>3. Carried(ReaderAt(pad, r, got), r.padding_in_middle_buf_, wire, e.chunks_, WriterAt(pad, e, sent))
  BY DEF Flow
<1> HIDE DEF n
<1>4. Carried(ReaderAt(pad, r, got), r.padding_in_middle_buf_, wire \o First(e.chunks_, n), Rest(e.chunks_, n),
        WriterAt(pad, e, sent))
  BY <1>1, <1>2, <1>3, CarriedSends
<1>5. WriterAt(pad, Sent(e), sent) = WriterAt(pad, e, sent)
  BY <1>1 DEF WriterAt
<1> QED BY <1>1, <1>4, <1>5 DEF Flow

\* The payload of n more tokens.
Room(sent, n) == sent \in Nat /\ n \in Nat /\ n > 0 /\ sent + n <= MaxTokens
Batch(sent, n) == [i \in 1 .. n |-> Payload(sent + i)]

\* AddChunk: the payload of the next chunk, padded or not.
LEMMA FlowChunk ==
  ASSUME MaxTokens \in Nat, kFirstPaddings \in Nat, NEW pad \in BOOLEAN, NEW e, EndpointOK(e), e.chunks_ = << >>,
         e.padding_support_in_fact_ = pad, NEW r, NEW wire, NEW sent, NEW got, Flow(pad, e, r, wire, sent, got),
         NEW n, Room(sent, n), NEW g \in Chunks(e, Batch(sent, n))
  PROVE  /\ Flow(pad, g, r, wire, sent + n, got) /\ EndpointOK(g)
         /\ \A f \in EndpointFields \ {"chunks_", "num_padding_send_"} : g[f] = e[f]
<1> DEFINE buf == [i \in 1 .. n |-> Payload(sent + i)]
           K == kFirstPaddings
           here == WriterAt(pad, e, sent)
<1> USE DEF Room
<1>0. g \in Chunks(e, buf)
  BY DEF Batch
<1>1. buf \in Seq(ChunkTokens) /\ Len(buf) = n
  <2>1. \A i \in 1 .. n : sent + i \in 1 .. MaxTokens
    OBVIOUS
  <2>2. \A i \in 1 .. n : Payload(sent + i) \in ChunkTokens
    BY <2>1 DEF ChunkTokens
  <2> QED BY <2>2
<1>2. e = [f \in EndpointFields |-> e[f]] /\ e.num_padding_send_ \in 0 .. K
  BY DEF EndpointOK
<1>3. here \in Spots
  BY <1>2, BetweenTyped DEF WriterAt, Done
<1>4. Carried(ReaderAt(pad, r, got), r.padding_in_middle_buf_, wire, << >>, here)
  BY DEF Flow
<1> HIDE DEF here
<1>5. CASE pad /\ e.num_padding_send_ < K
  <2>1. PICK p \in 0 .. 1 : g = [e EXCEPT !.num_padding_send_ = e.num_padding_send_ + 1,
          !.chunks_ = AddPadding(buf, p)]
    BY <1>0, <1>5 DEF Chunks
  <2>2. AddPadding(buf, p) \in Seq(ChunkTokens)
    <3>1. PaddingHeader(n, p) \in ChunkTokens
      <4>1. n \in 1 .. MaxTokens
        OBVIOUS
      <4> QED BY <4>1 DEF ChunkTokens
    <3>2. [i \in 1 .. p |-> Pad] \in Seq(ChunkTokens)
      <4>1. Pad \in ChunkTokens
        BY DEF ChunkTokens
      <4> QED BY <4>1
    <3>3. <<PaddingHeader(n, p)>> \in Seq(ChunkTokens)
      BY <3>1
    <3> HIDE DEF buf
    <3> QED BY <1>1, <3>2, <3>3, ConcatProperties DEF AddPadding
  <2>3. Leads(Between(e.num_padding_send_, sent), AddPadding(buf, p), Between(e.num_padding_send_ + 1, sent + n))
    BY <1>2, <1>5, ChunkLeads
  <2> HIDE DEF buf
  <2>4. g.chunks_ = AddPadding(buf, p) /\ g.num_padding_send_ = e.num_padding_send_ + 1
    BY <1>2, <2>1 DEF EndpointFields
  <2>5. \A f \in EndpointFields \ {"chunks_", "num_padding_send_"} : g[f] = e[f]
    BY <1>2, <2>1 DEF EndpointFields
  <2>6. g = [f \in EndpointFields |-> g[f]]
    BY <1>2, <2>1
  <2>7. EndpointOK(g)
    <3>1. /\ g.padding_support_in_fact_ = e.padding_support_in_fact_ /\ g.data_frame_ = e.data_frame_
          /\ g.num_padding_recv_ = e.num_padding_recv_ /\ g.window = e.window
          /\ g.padding_in_middle_buf_ = e.padding_in_middle_buf_ /\ g.queue = e.queue
      BY <2>5 DEF EndpointFields
    <3>2. e.num_padding_send_ + 1 \in 0 .. K
      BY <1>2, <1>5
    <3> QED BY <2>2, <2>4, <2>6, <3>1, <3>2 DEF EndpointOK
  <2>8. here = Between(e.num_padding_send_, sent)
          /\ WriterAt(pad, g, sent + n) = Between(e.num_padding_send_ + 1, sent + n)
    BY <1>5, <2>4 DEF WriterAt, Done, here
  <2>9. Carried(ReaderAt(pad, r, got), r.padding_in_middle_buf_, wire, g.chunks_, WriterAt(pad, g, sent + n))
    BY <1>3, <1>4, <2>3, <2>4, <2>8, CarriedAdds
  <2> QED BY <2>5, <2>7, <2>9 DEF Flow
<1>6. CASE ~(pad /\ e.num_padding_send_ < K)
  <2>1. g = [e EXCEPT !.chunks_ = buf]
    BY <1>0, <1>6 DEF Chunks
  <2>3. Leads(Between(K, sent), buf, Between(K, sent + n))
    BY PlainLeads
  <2> HIDE DEF buf
  <2>4. g.chunks_ = buf
    BY <1>2, <2>1 DEF EndpointFields
  <2>5. \A f \in EndpointFields \ {"chunks_"} : g[f] = e[f]
    BY <1>2, <2>1 DEF EndpointFields
  <2>6. g = [f \in EndpointFields |-> g[f]]
    BY <1>2, <2>1
  <2>x. g.num_padding_send_ = e.num_padding_send_
    BY <2>5 DEF EndpointFields
  <2>7. EndpointOK(g)
    <3>1. /\ g.padding_support_in_fact_ = e.padding_support_in_fact_ /\ g.data_frame_ = e.data_frame_
          /\ g.num_padding_recv_ = e.num_padding_recv_ /\ g.window = e.window
          /\ g.padding_in_middle_buf_ = e.padding_in_middle_buf_ /\ g.queue = e.queue
      BY <2>5 DEF EndpointFields
    <3> QED BY <1>1, <2>4, <2>6, <2>x, <3>1 DEF EndpointOK
  <2>y. Done(pad, e.num_padding_send_) = K
    BY <1>2, <1>6 DEF Done
  <2>8. here = Between(K, sent) /\ WriterAt(pad, g, sent + n) = Between(K, sent + n)
    BY <2>x, <2>y DEF WriterAt, here
  <2>9. Carried(ReaderAt(pad, r, got), r.padding_in_middle_buf_, wire, g.chunks_, WriterAt(pad, g, sent + n))
    BY <1>3, <1>4, <2>3, <2>4, <2>8, CarriedAdds
  <2> QED BY <2>5, <2>7, <2>9 DEF Flow
<1> QED BY <1>5, <1>6

\* What OnDataForStream is to do with the first n tokens.
TakenUp(pad, e, r, wire, sent, got, n) ==
  LET o == OnDataForStream(r, First(wire, n)) IN
  /\ Flow(pad, e, o.conn, Rest(wire, n), sent, got) /\ EndpointOK(o.conn) /\ o.consumed = n
  /\ \A f \in EndpointFields \ {"queue", "num_padding_recv_", "padding_in_middle_buf_"} : o.conn[f] = r[f]

\* Data arrives: the reader goes on to where its own data leads it.
LEMMA FlowReads ==
  ASSUME MaxTokens \in Nat, kFirstPaddings \in Nat, NEW pad \in BOOLEAN, NEW e, NEW r, EndpointOK(r),
         r.padding_support_in_fact_ = pad, NEW wire \in Seq(WireTokens), NEW sent, NEW got \in Seq(ChunkTokens),
         Flow(pad, e, r, wire, sent, got), NEW n \in DataPieces(wire)
  PROVE  TakenUp(pad, e, r, wire, sent, got, n)
<1> DEFINE K == kFirstPaddings
           data == First(wire, n)
           middle == r.padding_in_middle_buf_
           o == OnDataForStream(r, data)
           q == o.conn
           k == Len(got) + Len(r.queue)
           to == WriterAt(pad, e, sent)
<1>1. Len(wire) \in Nat /\ n \in 0 .. Len(wire) /\ n \in 1 .. Len(wire) /\ n \in Nat
  BY LenProperties DEF DataPieces
<1>2. wire \in Seq(Tokens) /\ ChunkTokens \subseteq Tokens
  BY WireTokensTyped, ChunkTokensTyped, SeqSubset
<1>3. data \in Seq(ChunkTokens) /\ Len(data) = n
  <2>1. data \in Seq(WireTokens) /\ Len(data) = n /\ \A i \in 1 .. n : data[i] = wire[i]
    BY <1>1, SplitAt
  <2>2. \A i \in 1 .. n : IsData(wire[i])
    BY DEF DataPieces
  <2>3. \A i \in 1 .. n : wire[i] \in WireTokens
    BY <1>1, ElementOfSeq
  <2>4. \A i \in 1 .. n : data[i] \in ChunkTokens
    BY <2>1, <2>2, <2>3, WireTokensTyped
  <2> HIDE DEF data
  <2> QED BY <2>1, <2>4
<1>4. /\ r = [f \in EndpointFields |-> r[f]] /\ r.num_padding_recv_ \in 0 .. K /\ middle \in Seq(ChunkTokens)
      /\ r.queue \in Seq(ChunkTokens) /\ Len(r.queue) \in Nat /\ Len(got) \in Nat /\ k \in Nat
  <2>1. r.queue \in Seq(ChunkTokens)
    BY DEF EndpointOK
  <2>2. Len(r.queue) \in Nat /\ Len(got) \in Nat
    BY <2>1, LenProperties
  <2> QED BY <2>1, <2>2 DEF EndpointOK
<1>5. PICK u \in Spots :
        /\ Leads(ReaderAt(pad, r, got), middle \o data, u)
        /\ \A f, m : Leads(f, m, u) => Carried(f, m, Rest(wire, n), e.chunks_, to)
  <2>1. middle \in Seq(Tokens)
    BY <1>2, <1>4, SeqSubset
  <2>2. Carried(ReaderAt(pad, r, got), middle, wire, e.chunks_, to)
    BY DEF Flow
  <2> HIDE DEF middle, to
  <2> QED BY <1>1, <1>2, <2>1, <2>2, CarriedReads
<1>6. Aside(pad, r) /\ InOrder(got, r.queue)
  BY DEF Flow
<1> HIDE DEF data, to
<1>7. middle \o data \in Seq(ChunkTokens)
  BY <1>3, <1>4, ConcatProperties

\* What is taken off the wire and put behind the queue.
<1>8. ASSUME NEW payload \in Seq(ChunkTokens), \A i \in 1 .. Len(payload) : payload[i] = Payload(k + i),
             q.queue = r.queue \o payload
      PROVE  InOrder(got, q.queue) /\ q.queue \in Seq(ChunkTokens) /\ Len(q.queue) = Len(r.queue) + Len(payload)
  <2> DEFINE a == Len(r.queue)
             z == Len(payload)
             both == r.queue \o payload
  <2>0. a \in Nat /\ z \in Nat /\ Len(got) \in Nat
    BY <1>4, LenProperties
  <2>1. both \in Seq(ChunkTokens) /\ Len(both) = a + z
          /\ \A i \in 1 .. a + z : both[i] = IF i <= a THEN r.queue[i] ELSE payload[i - a]
    BY ONLY <1>4, payload \in Seq(ChunkTokens), ConcatProperties
  <2> HIDE DEF both
  <2>2. ASSUME NEW i \in 1 .. a + z PROVE both[i] = Payload(Len(got) + i)
    <3>1. CASE i <= a
      <4>1. i \in 1 .. a
        BY <2>0, <3>1
      <4> QED BY <1>6, <2>1, <3>1, <4>1 DEF InOrder
    <3>2. CASE ~(i <= a)
      <4>1. i - a \in 1 .. z /\ (Len(got) + a) + (i - a) = Len(got) + i
        <5> HIDE DEF a, z
        <5>1. i \in 1 .. a + z
          OBVIOUS
        <5> QED BY ONLY <2>0, <3>2, <5>1
      <4>2. both[i] = payload[i - a]
        BY <2>1, <3>2
      <4>3. payload[i - a] = Payload((Len(got) + a) + (i - a))
        BY <1>8, <4>1
      <4> QED BY <4>1, <4>2, <4>3
    <3> QED BY <3>1, <3>2
  <2>3. q.queue = both
    BY <1>8 DEF both
  <2>4. InOrder(got, both)
    BY <1>6, <2>1, <2>2 DEF InOrder
  <2> QED BY <2>1, <2>3, <2>4
<1>9. CASE pad /\ r.num_padding_recv_ < K
  <2> DEFINE x == Unpad[r.num_padding_recv_][middle \o data]
  <2>1. q = [r EXCEPT !.queue = @ \o x.payload, !.num_padding_recv_ = x.recv, !.padding_in_middle_buf_ = x.middle]
        /\ o.consumed = n
    BY <1>3, <1>9 DEF OnDataForStream
  <2>2. ReaderAt(pad, r, got) = Between(r.num_padding_recv_, k)
    BY <1>9 DEF ReaderAt, Done
  <2>3. Unpadded(x, r.num_padding_recv_, k, u)
    <3> HIDE DEF k, middle
    <3> QED BY <1>4, <1>5, <1>7, <2>2, UnpadReads
  <2> HIDE DEF x, k, q
  <2>4. PICK j \in Nat :
          /\ x.payload \in Seq(ChunkTokens) /\ Len(x.payload) = j
          /\ \A i \in 1 .. j : x.payload[i] = Payload(k + i)
          /\ x.recv \in r.num_padding_recv_ .. K /\ x.middle \in Seq(ChunkTokens)
          /\ Leads(Between(x.recv, k + j), x.middle, u)
          /\ x.middle # << >> => x.recv < K /\ ~CompleteChunk(x.middle)
    BY <2>3 DEF Unpadded
  <2>5. q.queue = r.queue \o x.payload /\ q.num_padding_recv_ = x.recv /\ q.padding_in_middle_buf_ = x.middle
    BY <1>4, <2>1 DEF EndpointFields
  <2>6. \A f \in EndpointFields \ {"queue", "num_padding_recv_", "padding_in_middle_buf_"} : q[f] = r[f]
    BY <1>4, <2>1 DEF EndpointFields
  <2>7. q = [f \in EndpointFields |-> q[f]]
    BY <1>4, <2>1
  <2>8. InOrder(got, q.queue) /\ q.queue \in Seq(ChunkTokens) /\ Len(q.queue) = Len(r.queue) + j
    BY <1>8, <2>4, <2>5
  <2>9. EndpointOK(q)
    <3>1. /\ q.padding_support_in_fact_ = r.padding_support_in_fact_ /\ q.data_frame_ = r.data_frame_
          /\ q.num_padding_send_ = r.num_padding_send_ /\ q.window = r.window /\ q.chunks_ = r.chunks_
      BY <2>6 DEF EndpointFields
    <3>2. q.num_padding_recv_ \in 0 .. K
      BY <1>4, <2>4, <2>5
    <3> QED BY <2>4, <2>5, <2>7, <2>8, <3>1, <3>2 DEF EndpointOK
  <2>10. ReaderAt(pad, q, got) = Between(x.recv, k + j)
    <3>1. Len(got) + Len(q.queue) = k + j
      BY <1>4, <2>8 DEF k
    <3> QED BY <1>9, <2>5, <3>1 DEF ReaderAt, Done
  <2>11. Carried(ReaderAt(pad, q, got), q.padding_in_middle_buf_, Rest(wire, n), e.chunks_, to)
    BY <1>5, <2>4, <2>5, <2>10
  <2>12. Aside(pad, q)
    BY <1>9, <2>4, <2>5 DEF Aside
  <2>13. Flow(pad, e, q, Rest(wire, n), sent, got)
    BY <2>8, <2>11, <2>12 DEF Flow, to
  <2> QED BY <2>1, <2>6, <2>9, <2>13 DEF q, data, TakenUp
<1>10. CASE ~(pad /\ r.num_padding_recv_ < K)
  <2>1. q = [r EXCEPT !.queue = @ \o data] /\ o.consumed = n
    BY <1>3, <1>10 DEF OnDataForStream
  <2>y. Done(pad, r.num_padding_recv_) = K
    BY <1>4, <1>10 DEF Done
  <2>2. ReaderAt(pad, r, got) = Between(K, k)
    BY <2>y DEF ReaderAt
  <2> HIDE DEF k, q
  <2>3. middle = << >> /\ middle \o data = data
    <3>1. middle = << >>
      BY <1>6, <1>10 DEF Aside
    <3> QED BY <1>3, <3>1
  <2>4. (\A i \in 1 .. Len(data) : data[i] = Payload(k + i)) /\ u = Between(K, k + n)
    <3>1. data \in Seq(DataTokens)
      BY <1>3, ChunkTokensTyped, SeqSubset
    <3>2. Leads(Between(K, k), data, u)
      BY <1>5, <2>2, <2>3
    <3> QED BY <1>3, <1>4, <3>1, <3>2, PlainRead
  <2>5. q.queue = r.queue \o data
    BY <1>4, <2>1 DEF EndpointFields
  <2>6. \A f \in EndpointFields \ {"queue"} : q[f] = r[f]
    BY <1>4, <2>1 DEF EndpointFields
  <2>7. q = [f \in EndpointFields |-> q[f]]
    BY <1>4, <2>1
  <2>8. InOrder(got, q.queue) /\ q.queue \in Seq(ChunkTokens) /\ Len(q.queue) = Len(r.queue) + n
    BY <1>3, <1>8, <2>4, <2>5
  <2>x. q.num_padding_recv_ = r.num_padding_recv_ /\ q.padding_in_middle_buf_ = middle
    BY <2>6 DEF EndpointFields
  <2>9. EndpointOK(q)
    <3>1. /\ q.padding_support_in_fact_ = r.padding_support_in_fact_ /\ q.data_frame_ = r.data_frame_
          /\ q.num_padding_send_ = r.num_padding_send_ /\ q.window = r.window /\ q.chunks_ = r.chunks_
      BY <2>6 DEF EndpointFields
    <3> QED BY <2>7, <2>8, <2>x, <3>1 DEF EndpointOK
  <2>10. ReaderAt(pad, q, got) = Between(K, k + n)
    <3>1. Len(got) + Len(q.queue) = k + n
      BY <1>1, <1>4, <2>8 DEF k
    <3> QED BY <2>x, <2>y, <3>1 DEF ReaderAt
  <2>z. Leads(Between(K, k + n), << >>, u)
    <3>1. k + n \in Nat
      BY <1>1, <1>4
    <3>2. Between(K, k + n) \in Spots
      BY <3>1, BetweenTyped
    <3> QED BY <2>4, <3>2, LeadsNowhere
  <2>11. Carried(ReaderAt(pad, q, got), q.padding_in_middle_buf_, Rest(wire, n), e.chunks_, to)
    BY <1>5, <2>3, <2>z, <2>x, <2>10
  <2>12. Aside(pad, q)
    BY <2>3, <2>x DEF Aside
  <2>13. Flow(pad, e, q, Rest(wire, n), sent, got)
    BY <2>8, <2>11, <2>12 DEF Flow, to
  <2> QED BY <2>1, <2>6, <2>9, <2>13 DEF q, data, TakenUp
<1> QED BY <1>9, <1>10

\* A token that is no data goes behind the wire.
LEMMA FlowControl ==
  ASSUME MaxTokens \in Nat, NEW pad, NEW e, NEW r, NEW wire \in Seq(WireTokens), NEW sent, NEW got,
         Flow(pad, e, r, wire, sent, got), NEW x \in Controls
  PROVE  Flow(pad, e, r, wire \o <<x>>, sent, got)
<1>1. wire \in Seq(Tokens) /\ x \in Tokens /\ ~IsData(x)
  BY WireTokensTyped, SeqSubset
<1> QED BY <1>1, CarriedControl DEF Flow

\* The reader skips a token that is no data.
LEMMA FlowSkip ==
  ASSUME MaxTokens \in Nat, NEW pad, NEW e, NEW r, NEW wire \in Seq(WireTokens), NEW sent, NEW got,
         Flow(pad, e, r, wire, sent, got), wire # << >>, ~IsData(Head(wire))
  PROVE  Flow(pad, e, r, Tail(wire), sent, got)
<1>1. wire \in Seq(Tokens)
  BY WireTokensTyped, SeqSubset
<1> QED BY <1>1, CarriedSkips DEF Flow

\* The first n of the queue are written.
LEMMA FlowWrites ==
  ASSUME NEW pad, NEW e, NEW r, r.queue \in Seq(ChunkTokens), NEW wire, NEW sent, NEW got \in Seq(ChunkTokens),
         Flow(pad, e, r, wire, sent, got), NEW n \in 0 .. Len(r.queue),
         NEW q, q.padding_in_middle_buf_ = r.padding_in_middle_buf_, q.num_padding_recv_ = r.num_padding_recv_,
         q.queue = Rest(r.queue, n)
  PROVE  Flow(pad, e, q, wire, sent, got \o First(r.queue, n))
<1> DEFINE A == First(r.queue, n)
           B == Rest(r.queue, n)
           g == Len(got)
           b == Len(r.queue)
<1>1. g \in Nat /\ b \in Nat
  BY LenProperties
<1>2. A \in Seq(ChunkTokens) /\ Len(A) = n /\ (\A i \in 1 .. n : A[i] = r.queue[i]) /\ B \in Seq(ChunkTokens)
        /\ Len(B) = b - n
      /\ A \o B = r.queue
  BY SplitAt
<1> HIDE DEF A, B
<1>3. Len(got \o A) = g + n /\ \A i \in 1 .. g + n : (got \o A)[i] = IF i <= g THEN got[i] ELSE A[i - g]
  BY <1>2, ConcatProperties
<1>4. \A i \in 1 .. b - n : B[i] = r.queue[n + i]
  <2>1. \A i \in 1 .. n + (b - n) : (A \o B)[i] = IF i <= n THEN A[i] ELSE B[i - n]
    <3>1. \A i \in 1 .. Len(A) + Len(B) : (A \o B)[i] = IF i <= Len(A) THEN A[i] ELSE B[i - Len(A)]
      BY ONLY <1>2, ConcatProperties
    <3> QED BY <1>2, <3>1
  <2>2. ASSUME NEW i \in 1 .. b - n PROVE n + i \in 1 .. n + (b - n) /\ ~(n + i <= n) /\ (n + i) - n = i
    BY <1>1
  <2> QED BY <1>2, <2>1, <2>2
<1>5. InOrder(got, r.queue)
  BY DEF Flow
<1>6. ASSUME NEW i \in 1 .. g + n PROVE (got \o A)[i] = Payload(i)
  <2>1. CASE i <= g
    <3>1. i \in 1 .. g
      BY <1>1, <2>1
    <3> QED BY <1>3, <1>5, <2>1, <3>1 DEF InOrder
  <2>2. CASE ~(i <= g)
    <3>1. i - g \in 1 .. n /\ i - g \in 1 .. b /\ g + (i - g) = i
      BY <1>1, <2>2
    <3>2. (got \o A)[i] = r.queue[i - g]
      BY <1>2, <1>3, <2>2, <3>1
    <3>3. r.queue[i - g] = Payload(g + (i - g))
      BY <1>5, <3>1 DEF InOrder
    <3> QED BY <3>1, <3>2, <3>3
  <2> QED BY <2>1, <2>2
<1>7. ASSUME NEW i \in 1 .. b - n PROVE B[i] = Payload((g + n) + i)
  <2>1. n + i \in 1 .. b /\ g + (n + i) = (g + n) + i
    BY <1>1
  <2>2. B[i] = r.queue[n + i]
    BY <1>4
  <2>3. r.queue[n + i] = Payload(g + (n + i))
    BY <1>5, <2>1 DEF InOrder
  <2> QED BY <2>1, <2>2, <2>3
<1>8. InOrder(got \o A, B)
  BY <1>2, <1>3, <1>6, <1>7 DEF InOrder
<1>9. (g + n) + (b - n) = g + b
  <2>1. n \in Nat
    BY <1>1
  <2> HIDE DEF g, b
  <2> QED BY ONLY <1>1, <2>1
<1>10. q.queue = B
  BY DEF B
<1>11. ReaderAt(pad, q, got \o A) = ReaderAt(pad, r, got)
  BY <1>2, <1>3, <1>9, <1>10 DEF ReaderAt
<1> HIDE DEF g, b
<1> QED BY <1>8, <1>10, <1>11 DEF Flow, Aside, A

\* With nothing left to send and no data on the wire the reader has it all.
LEMMA FlowEnds ==
  ASSUME MaxTokens \in Nat, kFirstPaddings \in Nat, NEW pad \in BOOLEAN, NEW e, EndpointOK(e), e.chunks_ = << >>,
         NEW r, EndpointOK(r), NEW wire \in Seq(WireTokens), \A i \in 1 .. Len(wire) : ~IsData(wire[i]),
         NEW sent \in Nat, NEW got \in Seq(ChunkTokens), Flow(pad, e, r, wire, sent, got)
  PROVE  Len(got) + Len(r.queue) = sent
<1> DEFINE K == kFirstPaddings
           middle == r.padding_in_middle_buf_
           k == Len(got) + Len(r.queue)
           c == Done(pad, r.num_padding_recv_)
           from == ReaderAt(pad, r, got)
           to == WriterAt(pad, e, sent)
<1>1. k \in Nat /\ c \in Nat /\ Done(pad, e.num_padding_send_) \in Nat /\ middle \in Seq(ChunkTokens)
  <2>1. r.queue \in Seq(ChunkTokens) /\ r.num_padding_recv_ \in 0 .. K /\ e.num_padding_send_ \in 0 .. K
          /\ middle \in Seq(ChunkTokens)
    BY DEF EndpointOK
  <2>2. Len(r.queue) \in Nat /\ Len(got) \in Nat
    BY <2>1, LenProperties
  <2> QED BY <2>1, <2>2 DEF Done
<1>2. from \in Spots /\ to \in Spots /\ from.k = k /\ to.k = sent /\ to.a = 0 /\ to.b = 0
  BY <1>1, BetweenTyped DEF ReaderAt, WriterAt, Between, At
<1>3. PICK u \in Spots, v \in Spots : Leads(from, middle, u) /\ Leads(u, wire, v) /\ Leads(v, << >>, to)
  BY DEF Flow, Carried
<1>4. v = to
  BY <1>2, <1>3, LeadsNowhere
<1>5. u = to
  <2>1. wire \in Seq(Tokens)
    BY WireTokensTyped, SeqSubset
  <2> QED BY <1>3, <1>4, <2>1, ControlRead
<1>6. middle = << >>
  <2>1. SUFFICES ASSUME middle # << >> PROVE FALSE
    OBVIOUS
  <2>2. pad /\ r.num_padding_recv_ < K /\ ~CompleteChunk(middle)
    BY <2>1 DEF Flow, Aside
  <2>3. c = r.num_padding_recv_ /\ from = Between(c, k) /\ c < K
    BY <2>2 DEF ReaderAt, Done
  <2>4. middle \in Seq(DataTokens)
    BY <1>1, ChunkTokensTyped, SeqSubset
  <2> HIDE DEF c, k, middle, from, to
  <2>5. Leads(Between(c, k), middle, to)
    BY <1>3, <1>5, <2>3
  <2>6. Len(middle) \in Nat /\ Len(middle) >= 1 /\ middle[1] \in DataTokens
    <3>1. Len(middle) \in Nat /\ Len(middle) # 0
      BY <2>1, <2>4, EmptySeq, LenProperties
    <3>2. 1 \in 1 .. Len(middle)
      BY <3>1
    <3> QED BY <2>4, <3>1, <3>2, ElementOfSeq
  <2> DEFINE m == middle[1].n
             p == middle[1].pad
  <2>7. m \in Nat /\ p \in Nat
    BY <2>6 DEF DataTokens, Tokens
  <2>8. middle[1].kind = "head" /\ m > 0
    <3>1. PICK st \in [0 .. Len(middle) -> Spots] : st[0] = Between(c, k)
            /\ \A i \in 1 .. Len(middle) : Passes(st[i - 1], middle[i], st[i])
      BY <2>5 DEF Leads
    <3>2. 1 \in 1 .. Len(middle) /\ 1 - 1 = 0
      BY <2>6
    <3>3. Passes(st[0], middle[1], st[1]) /\ IsData(middle[1])
      BY <2>6, <3>1, <3>2 DEF DataTokens
    <3>4. st[0].a = 0 /\ st[0].b = 0 /\ st[0].n = c
      BY <3>1 DEF Between, At
    <3> QED BY <2>3, <3>3, <3>4 DEF Passes
  <2>9. Len(middle) < 1 + m + p
    BY <2>1, <2>2, <2>6, <2>7, <2>8 DEF CompleteChunk
  <2>10. Len(middle) <= 1 + middle[1].n + middle[1].pad
    BY <2>6, <2>7, <2>9
  <2>11. to.a # 0 \/ to.b # 0
    BY <1>1, <2>1, <2>3, <2>4, <2>5, <2>9, <2>10, ChunkPlaces
  <2> QED BY <1>2, <2>11
<1>7. u = from
  BY <1>2, <1>3, <1>6, LeadsNowhere
<1> QED BY <1>2, <1>5, <1>7

-----------------------------------------------------------------------------
(* The invariant of the tunnel. *)

Updates == {WindowUpdate(n) : n \in Nat}
Up == ChunkTokens \union Updates                              \* behind the request
Down(pad) == Up \union {Headers(pad), EndStream}              \* from the server

\* The request is read before anything else, and there is no other.
Request(pad, up, waiting) ==
  /\ up \in Seq(WireTokens)
  /\ IF waiting THEN up # << >> /\ Head(up) = Headers(pad) /\ Tail(up) \in Seq(Up) ELSE up \in Seq(Up)

\* No data follows the end of the stream, which only a channel at its end sends.
EndsLast(down, eof) ==
  /\ \A i \in 1 .. Len(down) : down[i] = EndStream => eof
  /\ \A i, j \in 1 .. Len(down) : i < j /\ down[i] = EndStream => ~IsData(down[j])

Agreed(c, s, up, down, channel) ==
  /\ Request(c.padding_support_in_fact_, up, channel = "none")
  /\ down \in Seq(Down(c.padding_support_in_fact_))
  /\ IF channel = "none" THEN c.padding_support_in_fact_ => s.padding_support_in_fact_
                         ELSE s.padding_support_in_fact_ = c.padding_support_in_fact_

Finished(c, s, down, channel, recv_eof, shutdown_) ==
  /\ channel # "connected" => s.chunks_ = << >>
  /\ recv_eof => channel = "eof" /\ \A i \in 1 .. Len(down) : ~IsData(down[i])
  /\ EndsLast(down, channel = "eof")
  /\ shutdown_ => recv_eof /\ c.queue = << >>

TunnelOK(c, s, up, down, channel, recv_eof, shutdown_, appSent, appGot, remoteSent, remoteGot) ==
  /\ EndpointOK(c) /\ EndpointOK(s) /\ channel \in {"none", "connecting", "connected", "eof"}
  /\ appSent \in 0 .. MaxTokens /\ remoteSent \in 0 .. MaxTokens
  /\ appGot \in Seq(ChunkTokens) /\ remoteGot \in Seq(ChunkTokens)
  /\ Agreed(c, s, up, down, channel)
  /\ Finished(c, s, down, channel, recv_eof, shutdown_)
  /\ Flow(c.padding_support_in_fact_, c, s, up, appSent, remoteGot)
  /\ Flow(c.padding_support_in_fact_, s, c, down, remoteSent, appGot)

TunnelFields ==
  {"authorized", "refused", "c", "s", "c2s", "s2c", "channel", "recv_eof", "shutdown_", "app", "remote"}
TunnelShape(t) ==
  /\ t = [f \in TunnelFields |-> t[f]]
  /\ t.app = [sent |-> t.app.sent, got |-> t.app.got]
  /\ t.remote = [sent |-> t.remote.sent, got |-> t.remote.got, ended |-> t.remote.ended]

TunnelInv ==
  /\ TunnelShape(h2)
  /\ TunnelOK(h2.c, h2.s, h2.c2s, h2.s2c, h2.channel, h2.recv_eof, h2.shutdown_,
              h2.app.sent, h2.app.got, h2.remote.sent, h2.remote.got)

\* What the two wires may carry.
LEMMA WiresTyped ==
  ASSUME MaxTokens \in Nat, NEW pad \in BOOLEAN
  PROVE  /\ Up \subseteq WireTokens /\ Down(pad) \subseteq WireTokens /\ Up \subseteq Down(pad)
         /\ ChunkTokens \subseteq Up /\ Updates \subseteq Up /\ Updates \subseteq Controls
         /\ Headers(pad) \in Controls /\ EndStream \in Controls
         /\ \A x \in Up : x.kind # "headers" /\ x.kind # "end"
         /\ \A x \in Up : x # EndStream
         /\ \A x \in Down(pad) : (x.kind = "headers" => x = Headers(pad)) /\ (x.kind = "end" => x = EndStream)
         /\ \A x \in Down(pad) : x.kind = "window" => x.n \in Nat
<1>1. \A x \in ChunkTokens : x.kind \in {"data", "head", "pad"}
  BY DEF ChunkTokens, Payload, Pad, PaddingHeader
<1>2. \A x \in Updates : x.kind = "window" /\ x.n \in Nat
  BY DEF Updates, WindowUpdate
<1>3. Headers(pad).kind = "headers" /\ EndStream.kind = "end"
  BY DEF Headers, EndStream
<1>4. Updates \subseteq Controls /\ Headers(pad) \in Controls /\ EndStream \in Controls
  BY DEF Updates, Controls
<1>5. Up \subseteq WireTokens /\ Down(pad) \subseteq WireTokens
  BY <1>4 DEF Up, Down, WireTokens
<1>6. Up \subseteq Down(pad) /\ ChunkTokens \subseteq Up /\ Updates \subseteq Up
  BY DEF Up, Down
<1>7. \A x \in Up : x.kind \in {"data", "head", "pad", "window"} /\ (x.kind = "window" => x.n \in Nat)
  BY <1>1, <1>2 DEF Up
<1>8. \A x \in Down(pad) : x \in Up \/ x = Headers(pad) \/ x = EndStream
  BY DEF Down
<1> QED BY <1>3, <1>4, <1>5, <1>6, <1>7, <1>8

\* The first element of a sequence and the others.
LEMMA HeadIs ==
  ASSUME NEW S, NEW s \in Seq(S), s # << >>
  PROVE  Len(s) \in Nat /\ Len(s) >= 1 /\ s[1] = Head(s) /\ Head(s) \in S /\ Tail(s) \in Seq(S)
    /\ Tail(s) = Rest(s, 1)
<1>1. Len(s) \in Nat /\ Len(s) # 0
  BY EmptySeq
<1>2. Head(s) \in S /\ Tail(s) \in Seq(S)
  BY HeadTailProperties
<1>3. s[1] = Head(s)
  BY <1>1
<1>4. Tail(s) = Rest(s, 1)
  <2>1. Tail(s) = SubSeq(s, 2, Len(s)) /\ 1 + 1 = 2
    BY <1>1
  <2> QED BY <2>1 DEF Rest
<1> QED BY <1>1, <1>2, <1>3, <1>4

\* The request and what is behind it.
LEMMA RequestGrows ==
  ASSUME MaxTokens \in Nat, NEW pad, NEW up, NEW waiting \in BOOLEAN, Request(pad, up, waiting), NEW B \in Seq(Up)
  PROVE  Request(pad, up \o B, waiting)
<1>0. up \in Seq(WireTokens) /\ B \in Seq(WireTokens) /\ up \o B \in Seq(WireTokens)
  <2>1. up \in Seq(WireTokens)
    BY DEF Request
  <2>2. B \in Seq(WireTokens)
    BY WiresTyped, SeqSubset
  <2> QED BY <2>1, <2>2, ConcatProperties
<1>1. CASE ~waiting
  <2>1. up \in Seq(Up)
    BY <1>1 DEF Request
  <2>2. up \o B \in Seq(Up)
    BY <2>1, ConcatProperties
  <2> QED BY <1>0, <1>1, <2>2 DEF Request
<1>2. CASE waiting
  <2>1. up # << >> /\ Head(up) = Headers(pad) /\ Tail(up) \in Seq(Up)
    BY <1>2 DEF Request
  <2>2. up \o B # << >> /\ Head(up \o B) = Head(up) /\ Tail(up \o B) = Tail(up) \o B
    <3>1. /\ Len(up) \in Nat /\ Len(up) >= 1 /\ up[1] = Head(up) /\ Len(B) \in Nat /\ Len(up \o B) = Len(up) + Len(B)
          /\ Tail(up) = Rest(up, 1)
      <4>1. Len(up) \in Nat /\ Len(up) >= 1 /\ up[1] = Head(up) /\ Tail(up) = Rest(up, 1)
        BY <1>0, <2>1, HeadIs
      <4> QED BY <1>0, <4>1, ConcatProperties, LenProperties
    <3>2. up \o B # << >>
      <4>1. Len(up \o B) # 0 /\ Len(<< >>) = 0
        BY ONLY <3>1, EmptySeq
      <4> QED BY ONLY <4>1
    <3>3. Head(up \o B) = (up \o B)[1] /\ Tail(up \o B) = Rest(up \o B, 1)
      BY <1>0, <3>2, HeadIs
    <3>4. (up \o B)[1] = up[1]
      BY <1>0, <3>1
    <3>5. Rest(up \o B, 1) = Rest(up, 1) \o B
      BY <1>0, <3>1 DEF Rest
    <3> QED BY <3>1, <3>2, <3>3, <3>4, <3>5
  <2>3. Tail(up) \o B \in Seq(Up)
    BY <2>1, ConcatProperties
  <2> QED BY <1>0, <1>2, <2>1, <2>2, <2>3 DEF Request
<1> QED BY <1>1, <1>2

\* The end of the stream and what is behind it.
LEMMA EndsGrows ==
  ASSUME MaxTokens \in Nat, NEW down \in Seq(WireTokens), NEW eof \in BOOLEAN, EndsLast(down, eof),
         NEW B \in Seq(WireTokens),
         IF eof THEN B \in Seq(Controls) ELSE \A i \in 1 .. Len(B) : B[i] # EndStream
  PROVE  EndsLast(down \o B, eof)
<1> DEFINE a == Len(down)
           b == Len(B)
           D == down \o B
<1>0. a \in Nat /\ b \in Nat
  BY LenProperties
<1>1. D \in Seq(WireTokens) /\ Len(D) = a + b /\ \A i \in 1 .. a + b : D[i] = IF i <= a THEN down[i] ELSE B[i - a]
  BY ONLY down \in Seq(WireTokens), B \in Seq(WireTokens), ConcatProperties
<1> HIDE DEF D
<1>2. ASSUME NEW i \in 1 .. a + b
      PROVE  (i <= a /\ i \in 1 .. a /\ D[i] = down[i]) \/ (i > a /\ i - a \in 1 .. b /\ D[i] = B[i - a])
  <2> HIDE DEF a, b
  <2>1. (i <= a /\ i \in 1 .. a) \/ (i > a /\ i - a \in 1 .. b /\ ~(i <= a))
    BY ONLY <1>0, i \in 1 .. a + b
  <2> QED BY <1>1, <2>1
<1>3. eof => \A i \in 1 .. b : ~IsData(B[i])
  <2>1. SUFFICES ASSUME eof, NEW i \in 1 .. b PROVE ~IsData(B[i])
    OBVIOUS
  <2>2. B[i] \in Controls
    BY <2>1, ElementOfSeq
  <2> QED BY <2>2, WireTokensTyped
<1>4. ASSUME NEW i \in 1 .. a + b, D[i] = EndStream PROVE eof
  <2>1. CASE i \in 1 .. a /\ D[i] = down[i]
    BY <1>4, <2>1 DEF EndsLast
  <2>2. CASE i - a \in 1 .. b /\ D[i] = B[i - a]
    BY <1>4, <2>2
  <2> QED BY <1>2, <2>1, <2>2
<1>5. ASSUME NEW i \in 1 .. a + b, NEW j \in 1 .. a + b, i < j, D[i] = EndStream PROVE ~IsData(D[j])
  <2>1. eof
    BY <1>4, <1>5
  <2>2. CASE j > a /\ j - a \in 1 .. b /\ D[j] = B[j - a]
    BY <1>3, <2>1, <2>2
  <2>3. CASE j <= a /\ j \in 1 .. a /\ D[j] = down[j]
    <3>1. i <= a
      <4> HIDE DEF a, b
      <4> QED BY ONLY <1>0, <1>5, <2>3, i \in 1 .. a + b, j \in 1 .. a + b
    <3>2. i \in 1 .. a /\ D[i] = down[i]
      <4> HIDE DEF a, b
      <4>1. ~(i > a)
        BY ONLY <1>0, <3>1, i \in 1 .. a + b
      <4> QED BY <1>2, <4>1
    <3> QED BY <1>5, <2>3, <3>2 DEF EndsLast
  <2> QED BY <1>2, <2>2, <2>3
<1>6. EndsLast(D, eof)
  BY <1>1, <1>4, <1>5 DEF EndsLast
<1> QED BY <1>6 DEF D

\* The elements behind the first n.
LEMMA RestIs ==
  ASSUME NEW S, NEW w \in Seq(S), NEW n \in 0 .. Len(w)
  PROVE  Rest(w, n) \in Seq(S) /\ Len(Rest(w, n)) = Len(w) - n /\ \A i \in 1 .. Len(w) - n : Rest(w, n)[i] = w[n + i]
<1>1. Len(w) \in Nat
  BY LenProperties
<1>2. n + 1 \in 1 .. Len(w) + 1 /\ Len(w) \in n .. Len(w)
  BY <1>1
<1>3. \A i \in 1 .. Len(w) - n : Rest(w, n)[i] = w[n + i]
  BY <1>1 DEF Rest
<1> QED BY <1>3, SplitAt

\* What is left of the wire when its first n tokens are read.
LEMMA EndsRest ==
  ASSUME NEW S, NEW down \in Seq(S), NEW eof, EndsLast(down, eof), NEW n \in 0 .. Len(down)
  PROVE  EndsLast(Rest(down, n), eof)
<1> DEFINE a == Len(down)
           D == Rest(down, n)
<1>0. a \in Nat
  BY LenProperties
<1>1. Len(D) = a - n /\ \A i \in 1 .. a - n : D[i] = down[n + i]
  BY RestIs
<1>2. \A i \in 1 .. a - n : n + i \in 1 .. a
  BY <1>0
<1>3. \A i, j \in 1 .. a - n : i < j => n + i < n + j
  BY <1>0
<1> HIDE DEF D, a
<1>4. EndsLast(D, eof)
  <2>1. \A i \in 1 .. a - n : D[i] = EndStream => eof
    BY <1>1, <1>2 DEF EndsLast, a
  <2>2. ASSUME NEW i \in 1 .. a - n, NEW j \in 1 .. a - n, i < j, D[i] = EndStream PROVE ~IsData(D[j])
    <3>1. n + i \in 1 .. a /\ n + j \in 1 .. a /\ n + i < n + j /\ D[i] = down[n + i] /\ D[j] = down[n + j]
      BY <1>1, <1>2, <1>3, <2>2
    <3> QED BY <2>2, <3>1 DEF EndsLast, a
  <2> QED BY <1>1, <2>1, <2>2 DEF EndsLast
<1> QED BY <1>4 DEF D

\* Nothing has been sent yet.
LEMMA FlowStarts ==
  ASSUME kFirstPaddings \in Nat, NEW pad \in BOOLEAN, NEW e, e.chunks_ = << >>, e.num_padding_send_ = 0,
         NEW r, r.queue = << >>, r.padding_in_middle_buf_ = << >>, r.num_padding_recv_ = 0
  PROVE  Flow(pad, e, r, << >>, 0, << >>)
<1> DEFINE here == Between(Done(pad, 0), 0)
<1>1. Len(<< >>) = 0 /\ 0 + 0 = 0 /\ 1 .. 0 = {}
  OBVIOUS
<1>2. ReaderAt(pad, r, << >>) = here /\ WriterAt(pad, e, 0) = here
  BY <1>1 DEF ReaderAt, WriterAt
<1>3. here \in Spots
  BY BetweenTyped DEF Done
<1> HIDE DEF here
<1>4. Leads(here, << >>, here)
  BY <1>3, LeadsNowhere
<1>5. Carried(here, << >>, << >>, << >>, here)
  BY <1>3, <1>4 DEF Carried
<1>6. InOrder(<< >>, << >>)
  BY <1>1 DEF InOrder
<1> QED BY <1>2, <1>5, <1>6 DEF Flow, Aside

-----------------------------------------------------------------------------
(* What an operation does to the invariant. *)

\* What the two wires carry.
LEMMA WiresAre ==
  ASSUME NEW c, NEW s, NEW up, NEW down, NEW channel, NEW recv_eof, NEW shutdown_,
         NEW appSent, NEW appGot, NEW remoteSent, NEW remoteGot,
         TunnelOK(c, s, up, down, channel, recv_eof, shutdown_, appSent, appGot, remoteSent, remoteGot)
  PROVE  LET pad == c.padding_support_in_fact_ IN
         pad \in BOOLEAN /\ up \in Seq(WireTokens) /\ down \in Seq(Down(pad)) /\ down \in Seq(WireTokens)
<1> DEFINE pad == c.padding_support_in_fact_
<1>1. pad \in BOOLEAN /\ up \in Seq(WireTokens) /\ down \in Seq(Down(pad))
  BY DEF TunnelOK, EndpointOK, Agreed, Request
<1>2. Down(pad) \subseteq WireTokens
  BY <1>1, WiresTyped, TunnelAssumption
<1> QED BY <1>1, <1>2, SeqSubset

\* The client skips a token that is no data.
LEMMA SkipsDown ==
  ASSUME NEW c, NEW s, NEW up, NEW down, NEW channel, NEW recv_eof, NEW shutdown_,
         NEW appSent, NEW appGot, NEW remoteSent, NEW remoteGot,
         TunnelOK(c, s, up, down, channel, recv_eof, shutdown_, appSent, appGot, remoteSent, remoteGot),
         down # << >>,
         ~IsData(Head(down))
  PROVE  TunnelOK(c, s, up, Tail(down), channel, recv_eof, shutdown_, appSent, appGot, remoteSent, remoteGot)
<1> DEFINE pad == c.padding_support_in_fact_
<1>0. MaxTokens \in Nat /\ kFirstPaddings \in Nat
  BY TunnelAssumption
<1>1. /\ EndpointOK(c) /\ EndpointOK(s) /\ channel \in {"none", "connecting", "connected", "eof"}
      /\ appSent \in 0 .. MaxTokens /\ remoteSent \in 0 .. MaxTokens
      /\ appGot \in Seq(ChunkTokens) /\ remoteGot \in Seq(ChunkTokens)
      /\ Agreed(c, s, up, down, channel) /\ Finished(c, s, down, channel, recv_eof, shutdown_)
      /\ Flow(pad, c, s, up, appSent, remoteGot) /\ Flow(pad, s, c, down, remoteSent, appGot)
  BY DEF TunnelOK
<1>2. pad \in BOOLEAN /\ up \in Seq(WireTokens) /\ down \in Seq(Down(pad)) /\ down \in Seq(WireTokens)
  BY WiresAre
<1>3. Tail(down) \in Seq(Down(pad)) /\ Tail(down) = Rest(down, 1) /\ 1 \in 0 .. Len(down) /\ Len(down) \in Nat
  BY <1>2, HeadIs
<1>4. Len(Tail(down)) = Len(down) - 1 /\ \A i \in 1 .. Len(down) - 1 : Tail(down)[i] = down[1 + i]
  BY <1>2, <1>3, RestIs
<1>5. EndsLast(Tail(down), channel = "eof")
  <2>1. EndsLast(down, channel = "eof")
    BY <1>1 DEF Finished
  <2>2. EndsLast(Rest(down, 1), channel = "eof")
    BY <1>2, <1>3, <2>1, EndsRest
  <2> QED BY <1>3, <2>2
<1>6. (\A i \in 1 .. Len(down) : ~IsData(down[i])) => \A i \in 1 .. Len(Tail(down)) : ~IsData(Tail(down)[i])
  <2>1. \A i \in 1 .. Len(down) - 1 : 1 + i \in 1 .. Len(down)
    BY <1>3
  <2> QED BY <1>4, <2>1
<1>7. Finished(c, s, Tail(down), channel, recv_eof, shutdown_)
  BY <1>1, <1>5, <1>6 DEF Finished
<1>8. Flow(pad, s, c, Tail(down), remoteSent, appGot)
  BY <1>0, <1>1, <1>2, FlowSkip
<1>9. Agreed(c, s, up, Tail(down), channel)
  BY <1>1, <1>3 DEF Agreed
<1> QED BY <1>1, <1>7, <1>8, <1>9 DEF TunnelOK

\* The server reads an update of its window.
LEMMA SkipsUp ==
  ASSUME NEW c, NEW s, NEW up, NEW down, NEW channel, NEW recv_eof, NEW shutdown_,
         NEW appSent, NEW appGot, NEW remoteSent, NEW remoteGot,
         TunnelOK(c, s, up, down, channel, recv_eof, shutdown_, appSent, appGot, remoteSent, remoteGot),
         up # << >>,
         ~IsData(Head(up)),
         channel # "none"
  PROVE  TunnelOK(c, s, Tail(up), down, channel, recv_eof, shutdown_, appSent, appGot, remoteSent, remoteGot)
<1> DEFINE pad == c.padding_support_in_fact_
<1>0. MaxTokens \in Nat /\ kFirstPaddings \in Nat
  BY TunnelAssumption
<1>1. /\ EndpointOK(c) /\ EndpointOK(s) /\ channel \in {"none", "connecting", "connected", "eof"}
      /\ appSent \in 0 .. MaxTokens /\ remoteSent \in 0 .. MaxTokens
      /\ appGot \in Seq(ChunkTokens) /\ remoteGot \in Seq(ChunkTokens)
      /\ Agreed(c, s, up, down, channel) /\ Finished(c, s, down, channel, recv_eof, shutdown_)
      /\ Flow(pad, c, s, up, appSent, remoteGot) /\ Flow(pad, s, c, down, remoteSent, appGot)
  BY DEF TunnelOK
<1>2. pad \in BOOLEAN /\ up \in Seq(WireTokens) /\ down \in Seq(Down(pad)) /\ down \in Seq(WireTokens)
  BY WiresAre
<1>3. up \in Seq(Up)
  BY <1>1 DEF Agreed, Request
<1>4. Tail(up) \in Seq(Up) /\ Tail(up) \in Seq(WireTokens)
  BY <1>2, <1>3, HeadIs
<1>5. Flow(pad, c, s, Tail(up), appSent, remoteGot)
  BY <1>0, <1>1, <1>2, FlowSkip
<1>6. Agreed(c, s, Tail(up), down, channel)
  BY <1>1, <1>4 DEF Agreed, Request
<1> QED BY <1>1, <1>5, <1>6 DEF TunnelOK

\* Send, of the client.
LEMMA SendsUp ==
  ASSUME NEW c, NEW s, NEW up, NEW down, NEW channel, NEW recv_eof, NEW shutdown_,
         NEW appSent, NEW appGot, NEW remoteSent, NEW remoteGot,
         TunnelOK(c, s, up, down, channel, recv_eof, shutdown_, appSent, appGot, remoteSent, remoteGot)
  PROVE  TunnelOK(Sent(c), s, up \o Sendable(c), down, channel, recv_eof, shutdown_, appSent, appGot, remoteSent,
                  remoteGot)
<1> DEFINE pad == c.padding_support_in_fact_
<1>0. MaxTokens \in Nat /\ kFirstPaddings \in Nat
  BY TunnelAssumption
<1>1. /\ EndpointOK(c) /\ EndpointOK(s) /\ channel \in {"none", "connecting", "connected", "eof"}
      /\ appSent \in 0 .. MaxTokens /\ remoteSent \in 0 .. MaxTokens
      /\ appGot \in Seq(ChunkTokens) /\ remoteGot \in Seq(ChunkTokens)
      /\ Agreed(c, s, up, down, channel) /\ Finished(c, s, down, channel, recv_eof, shutdown_)
      /\ Flow(pad, c, s, up, appSent, remoteGot) /\ Flow(pad, s, c, down, remoteSent, appGot)
  BY DEF TunnelOK
<1>2. pad \in BOOLEAN /\ up \in Seq(WireTokens) /\ down \in Seq(Down(pad)) /\ down \in Seq(WireTokens)
  BY WiresAre
<1>3. /\ Sendable(c) \in Seq(ChunkTokens) /\ EndpointOK(Sent(c))
      /\ c.chunks_ = << >> => Sendable(c) = << >> /\ Sent(c).chunks_ = << >>
  BY <1>1, SentIs
<1>4. /\ Sent(c).padding_support_in_fact_ = c.padding_support_in_fact_
         /\ Sent(c).num_padding_recv_ = c.num_padding_recv_
      /\ Sent(c).padding_in_middle_buf_ = c.padding_in_middle_buf_ /\ Sent(c).queue = c.queue
  BY <1>1, SentIs DEF EndpointFields

<1>5. Flow(pad, Sent(c), s, up \o Sendable(c), appSent, remoteGot)
  BY <1>0, <1>1, <1>2, FlowSends
<1>6. Flow(pad, s, Sent(c), down, remoteSent, appGot)
  BY <1>1, <1>4, FlowSame
<1>7. Request(pad, up \o Sendable(c), channel = "none")
  <2>1. Sendable(c) \in Seq(Up)
    BY <1>0, <1>2, <1>3, WiresTyped, SeqSubset
  <2>2. Request(pad, up, channel = "none")
    BY <1>1 DEF Agreed
  <2> QED BY <1>0, <2>1, <2>2, RequestGrows
<1>8. Agreed(Sent(c), s, up \o Sendable(c), down, channel)
  BY <1>1, <1>4, <1>7 DEF Agreed
<1>9. Finished(Sent(c), s, down, channel, recv_eof, shutdown_)
  BY <1>1, <1>4 DEF Finished
<1> HIDE DEF pad
<1> QED BY <1>1, <1>3, <1>4, <1>5, <1>6, <1>8, <1>9 DEF TunnelOK, pad

\* Send, of the server.
LEMMA SendsDown ==
  ASSUME NEW c, NEW s, NEW up, NEW down, NEW channel, NEW recv_eof, NEW shutdown_,
         NEW appSent, NEW appGot, NEW remoteSent, NEW remoteGot,
         TunnelOK(c, s, up, down, channel, recv_eof, shutdown_, appSent, appGot, remoteSent, remoteGot)
  PROVE  TunnelOK(c, Sent(s), up, down \o Sendable(s), channel, recv_eof, shutdown_, appSent, appGot, remoteSent,
                  remoteGot)
<1> DEFINE pad == c.padding_support_in_fact_
<1>0. MaxTokens \in Nat /\ kFirstPaddings \in Nat
  BY TunnelAssumption
<1>1. /\ EndpointOK(c) /\ EndpointOK(s) /\ channel \in {"none", "connecting", "connected", "eof"}
      /\ appSent \in 0 .. MaxTokens /\ remoteSent \in 0 .. MaxTokens
      /\ appGot \in Seq(ChunkTokens) /\ remoteGot \in Seq(ChunkTokens)
      /\ Agreed(c, s, up, down, channel) /\ Finished(c, s, down, channel, recv_eof, shutdown_)
      /\ Flow(pad, c, s, up, appSent, remoteGot) /\ Flow(pad, s, c, down, remoteSent, appGot)
  BY DEF TunnelOK
<1>2. pad \in BOOLEAN /\ up \in Seq(WireTokens) /\ down \in Seq(Down(pad)) /\ down \in Seq(WireTokens)
  BY WiresAre
<1>3. /\ Sendable(s) \in Seq(ChunkTokens) /\ EndpointOK(Sent(s))
      /\ s.chunks_ = << >> => Sendable(s) = << >> /\ Sent(s).chunks_ = << >>
  BY <1>1, SentIs
<1>4. /\ Sent(s).padding_support_in_fact_ = s.padding_support_in_fact_
         /\ Sent(s).num_padding_recv_ = s.num_padding_recv_
      /\ Sent(s).padding_in_middle_buf_ = s.padding_in_middle_buf_ /\ Sent(s).queue = s.queue
  BY <1>1, SentIs DEF EndpointFields

<1>5. Flow(pad, Sent(s), c, down \o Sendable(s), remoteSent, appGot)
  BY <1>0, <1>1, <1>2, FlowSends
<1>6. Flow(pad, c, Sent(s), up, appSent, remoteGot)
  BY <1>1, <1>4, FlowSame
<1>7. Sendable(s) \in Seq(Up) /\ Sendable(s) \in Seq(Down(pad)) /\ Sendable(s) \in Seq(WireTokens)
  BY <1>0, <1>2, <1>3, WiresTyped, SeqSubset
<1>8. Agreed(c, Sent(s), up, down \o Sendable(s), channel)
  <2>1. down \o Sendable(s) \in Seq(Down(pad))
    BY <1>2, <1>7, ConcatProperties
  <2> QED BY <1>1, <1>4, <2>1 DEF Agreed
<1>9. Finished(c, Sent(s), down \o Sendable(s), channel, recv_eof, shutdown_)
  <2>1. CASE channel = "connected"
    <3>1. \A i \in 1 .. Len(Sendable(s)) : Sendable(s)[i] # EndStream
      <4>1. \A i \in 1 .. Len(Sendable(s)) : Sendable(s)[i] \in Up
        BY <1>7, ElementOfSeq
      <4> QED BY <1>0, <1>2, <4>1, WiresTyped
    <3>2. EndsLast(down, FALSE)
      BY <1>1, <2>1 DEF Finished, EndsLast
    <3>3. EndsLast(down \o Sendable(s), FALSE)
      BY <1>0, <1>2, <1>7, <3>1, <3>2, EndsGrows
    <3>4. ~recv_eof /\ channel # "eof"
      BY <1>1, <2>1 DEF Finished
    <3> QED BY <1>1, <2>1, <3>3, <3>4 DEF Finished, EndsLast
  <2>2. CASE channel # "connected"
    <3>1. s.chunks_ = << >>
      BY <1>1, <2>2 DEF Finished
    <3>2. Sent(s).chunks_ = << >> /\ down \o Sendable(s) = down
      <4>1. Sendable(s) = << >>
        BY <1>3, <3>1
      <4>2. down \o << >> = down
        BY <1>2
      <4> QED BY <1>3, <3>1, <4>1, <4>2
    <3> QED BY <1>1, <2>2, <3>2 DEF Finished
  <2> QED BY <2>1, <2>2
<1> HIDE DEF pad
<1> QED BY <1>1, <1>3, <1>5, <1>6, <1>8, <1>9 DEF TunnelOK, pad

\* AddChunk, of the client.
LEMMA ChunkUp ==
  ASSUME NEW c, NEW s, NEW up, NEW down, NEW channel, NEW recv_eof, NEW shutdown_,
         NEW appSent, NEW appGot, NEW remoteSent, NEW remoteGot,
         TunnelOK(c, s, up, down, channel, recv_eof, shutdown_, appSent, appGot, remoteSent, remoteGot),
         c.chunks_ = << >>,
         NEW n, Room(appSent, n),
         NEW g \in Chunks(c, Batch(appSent, n))
  PROVE  TunnelOK(g, s, up, down, channel, recv_eof, shutdown_, appSent + n, appGot, remoteSent, remoteGot)
<1> DEFINE pad == c.padding_support_in_fact_
<1>0. MaxTokens \in Nat /\ kFirstPaddings \in Nat
  BY TunnelAssumption
<1>1. /\ EndpointOK(c) /\ EndpointOK(s) /\ channel \in {"none", "connecting", "connected", "eof"}
      /\ appSent \in 0 .. MaxTokens /\ remoteSent \in 0 .. MaxTokens
      /\ appGot \in Seq(ChunkTokens) /\ remoteGot \in Seq(ChunkTokens)
      /\ Agreed(c, s, up, down, channel) /\ Finished(c, s, down, channel, recv_eof, shutdown_)
      /\ Flow(pad, c, s, up, appSent, remoteGot) /\ Flow(pad, s, c, down, remoteSent, appGot)
  BY DEF TunnelOK
<1>2. pad \in BOOLEAN /\ up \in Seq(WireTokens) /\ down \in Seq(Down(pad)) /\ down \in Seq(WireTokens)
  BY WiresAre
<1>3. /\ Flow(pad, g, s, up, appSent + n, remoteGot) /\ EndpointOK(g)
      /\ \A f \in EndpointFields \ {"chunks_", "num_padding_send_"} : g[f] = c[f]
  <2>2. EndpointOK(c) /\ Flow(pad, c, s, up, appSent, remoteGot) /\ pad \in BOOLEAN
          /\ c.padding_support_in_fact_ = pad
    BY <1>1, <1>2
  <2> HIDE DEF pad
  <2> QED BY <1>0, <2>2, FlowChunk
<1>4. /\ g.padding_support_in_fact_ = pad /\ g.num_padding_recv_ = c.num_padding_recv_
      /\ g.padding_in_middle_buf_ = c.padding_in_middle_buf_ /\ g.queue = c.queue
  BY <1>3 DEF EndpointFields
<1>5. appSent + n \in 0 .. MaxTokens
  BY <1>0, <1>1 DEF Room
<1>6. Flow(pad, s, g, down, remoteSent, appGot)
  BY <1>1, <1>4, FlowSame
<1>7. Agreed(g, s, up, down, channel)
  BY <1>1, <1>4 DEF Agreed
<1>8. Finished(g, s, down, channel, recv_eof, shutdown_)
  BY <1>1, <1>4 DEF Finished
<1> HIDE DEF pad
<1> QED BY <1>1, <1>3, <1>4, <1>5, <1>6, <1>7, <1>8 DEF TunnelOK

\* AddChunk, of the server.
LEMMA ChunkDown ==
  ASSUME NEW c, NEW s, NEW up, NEW down, NEW channel, NEW recv_eof, NEW shutdown_,
         NEW appSent, NEW appGot, NEW remoteSent, NEW remoteGot,
         TunnelOK(c, s, up, down, channel, recv_eof, shutdown_, appSent, appGot, remoteSent, remoteGot),
         s.chunks_ = << >>,
         channel = "connected",
         NEW n, Room(remoteSent, n),
         NEW g \in Chunks(s, Batch(remoteSent, n))
  PROVE  TunnelOK(c, g, up, down, channel, recv_eof, shutdown_, appSent, appGot, remoteSent + n, remoteGot)
<1> DEFINE pad == c.padding_support_in_fact_
<1>0. MaxTokens \in Nat /\ kFirstPaddings \in Nat
  BY TunnelAssumption
<1>1. /\ EndpointOK(c) /\ EndpointOK(s) /\ channel \in {"none", "connecting", "connected", "eof"}
      /\ appSent \in 0 .. MaxTokens /\ remoteSent \in 0 .. MaxTokens
      /\ appGot \in Seq(ChunkTokens) /\ remoteGot \in Seq(ChunkTokens)
      /\ Agreed(c, s, up, down, channel) /\ Finished(c, s, down, channel, recv_eof, shutdown_)
      /\ Flow(pad, c, s, up, appSent, remoteGot) /\ Flow(pad, s, c, down, remoteSent, appGot)
  BY DEF TunnelOK
<1>2. pad \in BOOLEAN /\ up \in Seq(WireTokens) /\ down \in Seq(Down(pad)) /\ down \in Seq(WireTokens)
  BY WiresAre
<1>3. /\ Flow(pad, g, c, down, remoteSent + n, appGot) /\ EndpointOK(g)
      /\ \A f \in EndpointFields \ {"chunks_", "num_padding_send_"} : g[f] = s[f]
  <2>2. EndpointOK(s) /\ Flow(pad, s, c, down, remoteSent, appGot) /\ pad \in BOOLEAN
          /\ s.padding_support_in_fact_ = pad
    BY <1>1, <1>2 DEF Agreed
  <2> HIDE DEF pad
  <2> QED BY <1>0, <2>2, FlowChunk
<1>4. /\ g.padding_support_in_fact_ = s.padding_support_in_fact_ /\ g.num_padding_recv_ = s.num_padding_recv_
      /\ g.padding_in_middle_buf_ = s.padding_in_middle_buf_ /\ g.queue = s.queue
  BY <1>3 DEF EndpointFields
<1>5. remoteSent + n \in 0 .. MaxTokens
  BY <1>0, <1>1 DEF Room
<1>6. Flow(pad, c, g, up, appSent, remoteGot)
  BY <1>1, <1>4, FlowSame
<1>7. Agreed(c, g, up, down, channel)
  BY <1>1, <1>4 DEF Agreed
<1>8. Finished(c, g, down, channel, recv_eof, shutdown_)
  BY <1>1, <1>4 DEF Finished
<1> HIDE DEF pad
<1> QED BY <1>1, <1>3, <1>5, <1>6, <1>7, <1>8 DEF TunnelOK, pad

\* The window and the data source of the client are nothing to the invariant.
LEMMA SameClient ==
  ASSUME NEW c, NEW s, NEW up, NEW down, NEW channel, NEW recv_eof, NEW shutdown_,
         NEW appSent, NEW appGot, NEW remoteSent, NEW remoteGot,
         TunnelOK(c, s, up, down, channel, recv_eof, shutdown_, appSent, appGot, remoteSent, remoteGot),
         NEW g, EndpointOK(g), g.padding_support_in_fact_ = c.padding_support_in_fact_,
         g.num_padding_send_ = c.num_padding_send_, g.num_padding_recv_ = c.num_padding_recv_,
         g.padding_in_middle_buf_ = c.padding_in_middle_buf_, g.chunks_ = c.chunks_, g.queue = c.queue
  PROVE  TunnelOK(g, s, up, down, channel, recv_eof, shutdown_, appSent, appGot, remoteSent, remoteGot)
<1> DEFINE pad == c.padding_support_in_fact_
<1>0. MaxTokens \in Nat /\ kFirstPaddings \in Nat
  BY TunnelAssumption
<1>1. /\ EndpointOK(c) /\ EndpointOK(s) /\ channel \in {"none", "connecting", "connected", "eof"}
      /\ appSent \in 0 .. MaxTokens /\ remoteSent \in 0 .. MaxTokens
      /\ appGot \in Seq(ChunkTokens) /\ remoteGot \in Seq(ChunkTokens)
      /\ Agreed(c, s, up, down, channel) /\ Finished(c, s, down, channel, recv_eof, shutdown_)
      /\ Flow(pad, c, s, up, appSent, remoteGot) /\ Flow(pad, s, c, down, remoteSent, appGot)
  BY DEF TunnelOK
<1>2. pad \in BOOLEAN /\ up \in Seq(WireTokens) /\ down \in Seq(Down(pad)) /\ down \in Seq(WireTokens)
  BY WiresAre
<1>3. Flow(pad, g, s, up, appSent, remoteGot) /\ Flow(pad, s, g, down, remoteSent, appGot)
  BY <1>1, FlowSame
<1>4. Agreed(g, s, up, down, channel) /\ Finished(g, s, down, channel, recv_eof, shutdown_)
  BY <1>1 DEF Agreed, Finished
<1> QED BY <1>1, <1>3, <1>4 DEF TunnelOK

\* So for the server.
LEMMA SameServer ==
  ASSUME NEW c, NEW s, NEW up, NEW down, NEW channel, NEW recv_eof, NEW shutdown_,
         NEW appSent, NEW appGot, NEW remoteSent, NEW remoteGot,
         TunnelOK(c, s, up, down, channel, recv_eof, shutdown_, appSent, appGot, remoteSent, remoteGot),
         NEW g, EndpointOK(g), g.padding_support_in_fact_ = s.padding_support_in_fact_,
         g.num_padding_send_ = s.num_padding_send_, g.num_padding_recv_ = s.num_padding_recv_,
         g.padding_in_middle_buf_ = s.padding_in_middle_buf_, g.chunks_ = s.chunks_, g.queue = s.queue
  PROVE  TunnelOK(c, g, up, down, channel, recv_eof, shutdown_, appSent, appGot, remoteSent, remoteGot)
<1> DEFINE pad == c.padding_support_in_fact_
<1>0. MaxTokens \in Nat /\ kFirstPaddings \in Nat
  BY TunnelAssumption
<1>1. /\ EndpointOK(c) /\ EndpointOK(s) /\ channel \in {"none", "connecting", "connected", "eof"}
      /\ appSent \in 0 .. MaxTokens /\ remoteSent \in 0 .. MaxTokens
      /\ appGot \in Seq(ChunkTokens) /\ remoteGot \in Seq(ChunkTokens)
      /\ Agreed(c, s, up, down, channel) /\ Finished(c, s, down, channel, recv_eof, shutdown_)
      /\ Flow(pad, c, s, up, appSent, remoteGot) /\ Flow(pad, s, c, down, remoteSent, appGot)
  BY DEF TunnelOK
<1>2. pad \in BOOLEAN /\ up \in Seq(WireTokens) /\ down \in Seq(Down(pad)) /\ down \in Seq(WireTokens)
  BY WiresAre
<1>3. Flow(pad, c, g, up, appSent, remoteGot) /\ Flow(pad, g, c, down, remoteSent, appGot)
  BY <1>1, FlowSame
<1>4. Agreed(c, g, up, down, channel) /\ Finished(c, g, down, channel, recv_eof, shutdown_)
  BY <1>1 DEF Agreed, Finished
<1> QED BY <1>1, <1>3, <1>4 DEF TunnelOK

\* Data arrives at the client.
LEMMA ReadsDown ==
  ASSUME NEW c, NEW s, NEW up, NEW down, NEW channel, NEW recv_eof, NEW shutdown_,
         NEW appSent, NEW appGot, NEW remoteSent, NEW remoteGot,
         TunnelOK(c, s, up, down, channel, recv_eof, shutdown_, appSent, appGot, remoteSent, remoteGot),
         NEW n \in DataPieces(down)
  PROVE  LET o == OnDataForStream(c, First(down, n))
         IN o.consumed = n /\ TunnelOK(o.conn, s, up, Rest(down, n), channel, recv_eof, shutdown_, appSent, appGot,
                                       remoteSent, remoteGot)
<1> DEFINE pad == c.padding_support_in_fact_
<1>0. MaxTokens \in Nat /\ kFirstPaddings \in Nat
  BY TunnelAssumption
<1>1. /\ EndpointOK(c) /\ EndpointOK(s) /\ channel \in {"none", "connecting", "connected", "eof"}
      /\ appSent \in 0 .. MaxTokens /\ remoteSent \in 0 .. MaxTokens
      /\ appGot \in Seq(ChunkTokens) /\ remoteGot \in Seq(ChunkTokens)
      /\ Agreed(c, s, up, down, channel) /\ Finished(c, s, down, channel, recv_eof, shutdown_)
      /\ Flow(pad, c, s, up, appSent, remoteGot) /\ Flow(pad, s, c, down, remoteSent, appGot)
  BY DEF TunnelOK
<1>2. pad \in BOOLEAN /\ up \in Seq(WireTokens) /\ down \in Seq(Down(pad)) /\ down \in Seq(WireTokens)
  BY WiresAre
<1> DEFINE o == OnDataForStream(c, First(down, n))
           q == o.conn
<1>3. /\ Flow(pad, s, q, Rest(down, n), remoteSent, appGot) /\ EndpointOK(q) /\ o.consumed = n
      /\ \A f \in EndpointFields \ {"queue", "num_padding_recv_", "padding_in_middle_buf_"} : q[f] = c[f]
  <2>1. EndpointOK(c) /\ appGot \in Seq(ChunkTokens) /\ Flow(pad, s, c, down, remoteSent, appGot)
        /\ pad \in BOOLEAN /\ down \in Seq(WireTokens) /\ c.padding_support_in_fact_ = pad
    BY <1>1, <1>2
  <2>2. n \in DataPieces(down)
    OBVIOUS
  <2> HIDE DEF pad
  <2>3. TakenUp(pad, s, c, down, remoteSent, appGot, n)
    BY ONLY <1>0, <2>1, <2>2, FlowReads
  <2> QED BY <2>3 DEF TakenUp
<1> HIDE DEF q
<1>4. q.padding_support_in_fact_ = pad /\ q.num_padding_send_ = c.num_padding_send_ /\ q.chunks_ = c.chunks_
  BY <1>3 DEF EndpointFields
<1>5. Flow(pad, q, s, up, appSent, remoteGot)
  BY <1>1, <1>4, FlowSame
<1>6. n \in 0 .. Len(down) /\ Len(down) \in Nat /\ 1 \in 1 .. Len(down) /\ IsData(down[1])
  <2>1. Len(down) \in Nat
    BY <1>2, LenProperties
  <2>2. n \in 1 .. Len(down) /\ \A i \in 1 .. n : IsData(down[i])
    BY DEF DataPieces
  <2>3. 1 \in 1 .. n /\ 1 \in 1 .. Len(down) /\ n \in 0 .. Len(down)
    BY <2>1, <2>2
  <2> QED BY <2>1, <2>2, <2>3
<1>7. ~recv_eof /\ ~shutdown_
  BY <1>1, <1>6 DEF Finished
<1>8. Rest(down, n) \in Seq(Down(pad))
  BY <1>2, <1>6, RestIs
<1>9. EndsLast(Rest(down, n), channel = "eof")
  BY <1>1, <1>2, <1>6, EndsRest DEF Finished
<1>10. Agreed(q, s, up, Rest(down, n), channel)
  BY <1>1, <1>4, <1>8 DEF Agreed
<1>11. Finished(q, s, Rest(down, n), channel, recv_eof, shutdown_)
  BY <1>1, <1>7, <1>9 DEF Finished
<1> HIDE DEF pad
<1>12. TunnelOK(q, s, up, Rest(down, n), channel, recv_eof, shutdown_, appSent, appGot, remoteSent, remoteGot)
  BY <1>1, <1>3, <1>4, <1>5, <1>10, <1>11 DEF TunnelOK
<1> QED BY <1>3, <1>12 DEF q

\* Data arrives at the server.
LEMMA ReadsUp ==
  ASSUME NEW c, NEW s, NEW up, NEW down, NEW channel, NEW recv_eof, NEW shutdown_,
         NEW appSent, NEW appGot, NEW remoteSent, NEW remoteGot,
         TunnelOK(c, s, up, down, channel, recv_eof, shutdown_, appSent, appGot, remoteSent, remoteGot),
         NEW n \in DataPieces(up)
  PROVE  LET o == OnDataForStream(s, First(up, n))
         IN o.consumed = n /\ TunnelOK(c, o.conn, Rest(up, n), down, channel, recv_eof, shutdown_, appSent, appGot,
                                       remoteSent, remoteGot)
<1> DEFINE pad == c.padding_support_in_fact_
<1>0. MaxTokens \in Nat /\ kFirstPaddings \in Nat
  BY TunnelAssumption
<1>1. /\ EndpointOK(c) /\ EndpointOK(s) /\ channel \in {"none", "connecting", "connected", "eof"}
      /\ appSent \in 0 .. MaxTokens /\ remoteSent \in 0 .. MaxTokens
      /\ appGot \in Seq(ChunkTokens) /\ remoteGot \in Seq(ChunkTokens)
      /\ Agreed(c, s, up, down, channel) /\ Finished(c, s, down, channel, recv_eof, shutdown_)
      /\ Flow(pad, c, s, up, appSent, remoteGot) /\ Flow(pad, s, c, down, remoteSent, appGot)
  BY DEF TunnelOK
<1>2. pad \in BOOLEAN /\ up \in Seq(WireTokens) /\ down \in Seq(Down(pad)) /\ down \in Seq(WireTokens)
  BY WiresAre
<1> DEFINE o == OnDataForStream(s, First(up, n))
           q == o.conn
<1>6. n \in 0 .. Len(up) /\ Len(up) \in Nat /\ 1 \in 1 .. Len(up) /\ IsData(up[1])
  <2>1. Len(up) \in Nat
    BY <1>2, LenProperties
  <2>2. n \in 1 .. Len(up) /\ \A i \in 1 .. n : IsData(up[i])
    BY DEF DataPieces
  <2>3. 1 \in 1 .. n /\ 1 \in 1 .. Len(up) /\ n \in 0 .. Len(up)
    BY <2>1, <2>2
  <2> QED BY <2>1, <2>2, <2>3
<1>7. channel # "none"
  <2>1. SUFFICES ASSUME channel = "none" PROVE FALSE
    OBVIOUS
  <2>2. up # << >> /\ Head(up) = Headers(pad)
    BY <1>1, <2>1 DEF Agreed, Request
  <2>3. up[1] = Headers(pad)
    BY <1>2, <2>2, HeadIs
  <2>4. ~IsData(up[1])
    BY <1>0, <1>2, <2>3, WiresTyped, WireTokensTyped
  <2> QED BY <1>6, <2>4
<1>8. up \in Seq(Up) /\ s.padding_support_in_fact_ = pad
  BY <1>1, <1>7 DEF Agreed, Request
<1>3. /\ Flow(pad, c, q, Rest(up, n), appSent, remoteGot) /\ EndpointOK(q) /\ o.consumed = n
      /\ \A f \in EndpointFields \ {"queue", "num_padding_recv_", "padding_in_middle_buf_"} : q[f] = s[f]
  <2>1. EndpointOK(s) /\ remoteGot \in Seq(ChunkTokens) /\ Flow(pad, c, s, up, appSent, remoteGot)
        /\ pad \in BOOLEAN /\ up \in Seq(WireTokens) /\ s.padding_support_in_fact_ = pad
    BY <1>1, <1>2, <1>8
  <2>2. n \in DataPieces(up)
    OBVIOUS
  <2> HIDE DEF pad
  <2>3. TakenUp(pad, c, s, up, appSent, remoteGot, n)
    BY ONLY <1>0, <2>1, <2>2, FlowReads
  <2> QED BY <2>3 DEF TakenUp
<1> HIDE DEF q
<1>4. q.padding_support_in_fact_ = pad /\ q.num_padding_send_ = s.num_padding_send_ /\ q.chunks_ = s.chunks_
  <2> HIDE DEF pad
  <2> QED BY <1>3, <1>8 DEF EndpointFields
<1>5. Flow(pad, q, c, down, remoteSent, appGot)
  BY <1>1, <1>4, FlowSame
<1>9. Rest(up, n) \in Seq(Up) /\ Rest(up, n) \in Seq(WireTokens)
  BY <1>2, <1>6, <1>8, RestIs
<1>10. Agreed(c, q, Rest(up, n), down, channel)
  BY <1>1, <1>4, <1>7, <1>9 DEF Agreed, Request
<1>11. Finished(c, q, down, channel, recv_eof, shutdown_)
  BY <1>1, <1>4 DEF Finished
<1> HIDE DEF pad
<1>12. TunnelOK(c, q, Rest(up, n), down, channel, recv_eof, shutdown_, appSent, appGot, remoteSent, remoteGot)
  BY <1>1, <1>3, <1>5, <1>10, <1>11 DEF TunnelOK, pad
<1> QED BY <1>3, <1>12 DEF q

\* The update of the window that answers it.
LEMMA UpdatesUp ==
  ASSUME NEW c, NEW s, NEW up, NEW down, NEW channel, NEW recv_eof, NEW shutdown_,
         NEW appSent, NEW appGot, NEW remoteSent, NEW remoteGot,
         TunnelOK(c, s, up, down, channel, recv_eof, shutdown_, appSent, appGot, remoteSent, remoteGot),
         NEW n \in Nat
  PROVE  TunnelOK(c, s, up \o <<WindowUpdate(n)>>, down, channel, recv_eof, shutdown_, appSent, appGot, remoteSent,
                  remoteGot)
<1> DEFINE pad == c.padding_support_in_fact_
<1>0. MaxTokens \in Nat /\ kFirstPaddings \in Nat
  BY TunnelAssumption
<1>1. /\ EndpointOK(c) /\ EndpointOK(s) /\ channel \in {"none", "connecting", "connected", "eof"}
      /\ appSent \in 0 .. MaxTokens /\ remoteSent \in 0 .. MaxTokens
      /\ appGot \in Seq(ChunkTokens) /\ remoteGot \in Seq(ChunkTokens)
      /\ Agreed(c, s, up, down, channel) /\ Finished(c, s, down, channel, recv_eof, shutdown_)
      /\ Flow(pad, c, s, up, appSent, remoteGot) /\ Flow(pad, s, c, down, remoteSent, appGot)
  BY DEF TunnelOK
<1>2. pad \in BOOLEAN /\ up \in Seq(WireTokens) /\ down \in Seq(Down(pad)) /\ down \in Seq(WireTokens)
  BY WiresAre
<1>3. WindowUpdate(n) \in Updates
  BY DEF Updates
<1>4. <<WindowUpdate(n)>> \in Seq(Up) /\ WindowUpdate(n) \in Controls
  <2>1. WindowUpdate(n) \in Up /\ WindowUpdate(n) \in Controls
    BY <1>0, <1>2, <1>3, WiresTyped
  <2> QED BY <2>1
<1>5. Flow(pad, c, s, up \o <<WindowUpdate(n)>>, appSent, remoteGot)
  BY <1>0, <1>1, <1>2, <1>4, FlowControl
<1>6. Request(pad, up \o <<WindowUpdate(n)>>, channel = "none")
  <2>1. Request(pad, up, channel = "none")
    BY <1>1 DEF Agreed
  <2> QED BY <1>0, <1>4, <2>1, RequestGrows
<1>7. Agreed(c, s, up \o <<WindowUpdate(n)>>, down, channel)
  BY <1>1, <1>6 DEF Agreed
<1> QED BY <1>1, <1>5, <1>7 DEF TunnelOK

\* The server appends what is no data, the end of the stream only when the channel is at its end.
LEMMA ControlsDown ==
  ASSUME NEW c, NEW s, NEW up, NEW down, NEW channel, NEW recv_eof, NEW shutdown_,
         NEW appSent, NEW appGot, NEW remoteSent, NEW remoteGot,
         TunnelOK(c, s, up, down, channel, recv_eof, shutdown_, appSent, appGot, remoteSent, remoteGot),
         NEW x \in Controls,
         x \in Down(c.padding_support_in_fact_),
         x = EndStream => channel = "eof"
  PROVE  TunnelOK(c, s, up, down \o <<x>>, channel, recv_eof, shutdown_, appSent, appGot, remoteSent, remoteGot)
<1> DEFINE pad == c.padding_support_in_fact_
<1>0. MaxTokens \in Nat /\ kFirstPaddings \in Nat
  BY TunnelAssumption
<1>1. /\ EndpointOK(c) /\ EndpointOK(s) /\ channel \in {"none", "connecting", "connected", "eof"}
      /\ appSent \in 0 .. MaxTokens /\ remoteSent \in 0 .. MaxTokens
      /\ appGot \in Seq(ChunkTokens) /\ remoteGot \in Seq(ChunkTokens)
      /\ Agreed(c, s, up, down, channel) /\ Finished(c, s, down, channel, recv_eof, shutdown_)
      /\ Flow(pad, c, s, up, appSent, remoteGot) /\ Flow(pad, s, c, down, remoteSent, appGot)
  BY DEF TunnelOK
<1>2. pad \in BOOLEAN /\ up \in Seq(WireTokens) /\ down \in Seq(Down(pad)) /\ down \in Seq(WireTokens)
  BY WiresAre
<1> DEFINE D == down \o <<x>>
<1>3. <<x>> \in Seq(Down(pad)) /\ <<x>> \in Seq(WireTokens) /\ <<x>> \in Seq(Controls) /\ Len(<<x>>) = 1
        /\ <<x>>[1] = x
  <2>1. x \in Down(pad) /\ x \in WireTokens
    BY <1>0, <1>2, WiresTyped
  <2> QED BY <2>1
<1>4. D \in Seq(Down(pad)) /\ D \in Seq(WireTokens)
  BY <1>2, <1>3, ConcatProperties
<1>5. Flow(pad, s, c, D, remoteSent, appGot)
  BY <1>0, <1>1, <1>2, FlowControl
<1>6. EndsLast(D, channel = "eof")
  <2>1. EndsLast(down, channel = "eof")
    BY <1>1 DEF Finished
  <2>2. IF channel = "eof" THEN <<x>> \in Seq(Controls) ELSE \A i \in 1 .. Len(<<x>>) : <<x>>[i] # EndStream
    BY <1>3
  <2> QED BY <1>0, <1>2, <1>3, <2>1, <2>2, EndsGrows
<1>7. (\A i \in 1 .. Len(down) : ~IsData(down[i])) => \A i \in 1 .. Len(D) : ~IsData(D[i])
  <2>1. SUFFICES ASSUME \A i \in 1 .. Len(down) : ~IsData(down[i]), NEW i \in 1 .. Len(D) PROVE ~IsData(D[i])
    OBVIOUS
  <2>2. Len(down) \in Nat /\ Len(D) = Len(down) + 1
    BY <1>2, <1>3, ConcatProperties
  <2>3. CASE i \in 1 .. Len(down)
    <3>1. D[i] = down[i]
      BY <1>2, <1>3, <2>3
    <3> QED BY <2>1, <2>3, <3>1
  <2>4. CASE i = Len(down) + 1
    <3>1. D[i] = x
      BY <1>2, <1>3, <2>2, <2>4
    <3> QED BY <1>0, <3>1, WireTokensTyped
  <2>5. i \in 1 .. Len(down) + 1
    BY <2>2
  <2>6. i \in 1 .. Len(down) \/ i = Len(down) + 1
    BY ONLY <2>2, <2>5
  <2> QED BY <2>3, <2>4, <2>6
<1> HIDE DEF D
<1>8. Agreed(c, s, up, D, channel)
  BY <1>1, <1>4 DEF Agreed
<1>9. Finished(c, s, D, channel, recv_eof, shutdown_)
  BY <1>1, <1>6, <1>7 DEF Finished
<1> QED BY <1>1, <1>5, <1>8, <1>9 DEF TunnelOK, D

\* What the application is given.
LEMMA WritesApp ==
  ASSUME NEW c, NEW s, NEW up, NEW down, NEW channel, NEW recv_eof, NEW shutdown_,
         NEW appSent, NEW appGot, NEW remoteSent, NEW remoteGot,
         TunnelOK(c, s, up, down, channel, recv_eof, shutdown_, appSent, appGot, remoteSent, remoteGot),
         NEW n \in 0 .. Len(c.queue),
         NEW g, g = [c EXCEPT !.queue = Rest(c.queue, n)],
         NEW shut, shut => recv_eof /\ n = Len(c.queue)
  PROVE  TunnelOK(g, s, up, down, channel, recv_eof, shut, appSent, appGot \o First(c.queue, n), remoteSent,
                  remoteGot)
<1> DEFINE pad == c.padding_support_in_fact_
<1>0. MaxTokens \in Nat /\ kFirstPaddings \in Nat
  BY TunnelAssumption
<1>1. /\ EndpointOK(c) /\ EndpointOK(s) /\ channel \in {"none", "connecting", "connected", "eof"}
      /\ appSent \in 0 .. MaxTokens /\ remoteSent \in 0 .. MaxTokens
      /\ appGot \in Seq(ChunkTokens) /\ remoteGot \in Seq(ChunkTokens)
      /\ Agreed(c, s, up, down, channel) /\ Finished(c, s, down, channel, recv_eof, shutdown_)
      /\ Flow(pad, c, s, up, appSent, remoteGot) /\ Flow(pad, s, c, down, remoteSent, appGot)
  BY DEF TunnelOK
<1>2. pad \in BOOLEAN /\ up \in Seq(WireTokens) /\ down \in Seq(Down(pad)) /\ down \in Seq(WireTokens)
  BY WiresAre
<1>3. c = [f \in EndpointFields |-> c[f]] /\ c.queue \in Seq(ChunkTokens)
  BY <1>1 DEF EndpointOK
<1>4. Rest(c.queue, n) \in Seq(ChunkTokens) /\ First(c.queue, n) \in Seq(ChunkTokens)
        /\ Len(Rest(c.queue, n)) = Len(c.queue) - n
  BY <1>3, SplitAt
<1>5. g.queue = Rest(c.queue, n) /\ g = [f \in EndpointFields |-> g[f]]
  BY <1>3 DEF EndpointFields
<1>6. /\ g.padding_support_in_fact_ = c.padding_support_in_fact_ /\ g.data_frame_ = c.data_frame_
      /\ g.num_padding_send_ = c.num_padding_send_ /\ g.num_padding_recv_ = c.num_padding_recv_ /\ g.window = c.window
      /\ g.padding_in_middle_buf_ = c.padding_in_middle_buf_ /\ g.chunks_ = c.chunks_
  BY <1>3 DEF EndpointFields
<1> HIDE DEF pad
<1>7. EndpointOK(g)
  BY <1>1, <1>4, <1>5, <1>6 DEF EndpointOK

<1>8. Flow(pad, s, g, down, remoteSent, appGot \o First(c.queue, n))
  BY <1>1, <1>3, <1>5, <1>6, FlowWrites
<1>9. Flow(pad, g, s, up, appSent, remoteGot)
  BY <1>1, <1>6, FlowSame
<1>10. appGot \o First(c.queue, n) \in Seq(ChunkTokens)
  BY <1>1, <1>4, ConcatProperties
<1>11. Agreed(g, s, up, down, channel)
  BY <1>1, <1>6 DEF Agreed
<1>12. shut => g.queue = << >>
  <2>1. SUFFICES ASSUME n = Len(c.queue) PROVE g.queue = << >>
    OBVIOUS
  <2>2. Len(c.queue) \in Nat
    BY <1>3, LenProperties
  <2>3. Len(Rest(c.queue, n)) = 0
    BY <1>4, <2>1, <2>2
  <2> QED BY <1>4, <1>5, <2>3, EmptySeq
<1>13. Finished(g, s, down, channel, recv_eof, shut)
  BY <1>1, <1>12 DEF Finished
<1> QED BY <1>1, <1>6, <1>7, <1>8, <1>9, <1>10, <1>11, <1>13 DEF TunnelOK, pad

\* What the remote is given.
LEMMA WritesRemote ==
  ASSUME NEW c, NEW s, NEW up, NEW down, NEW channel, NEW recv_eof, NEW shutdown_,
         NEW appSent, NEW appGot, NEW remoteSent, NEW remoteGot,
         TunnelOK(c, s, up, down, channel, recv_eof, shutdown_, appSent, appGot, remoteSent, remoteGot),
         NEW n \in 0 .. Len(s.queue),
         NEW g, g = [s EXCEPT !.queue = Rest(s.queue, n)]
  PROVE  TunnelOK(c, g, up, down, channel, recv_eof, shutdown_, appSent, appGot, remoteSent,
                  remoteGot \o First(s.queue, n))
<1> DEFINE pad == c.padding_support_in_fact_
<1>0. MaxTokens \in Nat /\ kFirstPaddings \in Nat
  BY TunnelAssumption
<1>1. /\ EndpointOK(c) /\ EndpointOK(s) /\ channel \in {"none", "connecting", "connected", "eof"}
      /\ appSent \in 0 .. MaxTokens /\ remoteSent \in 0 .. MaxTokens
      /\ appGot \in Seq(ChunkTokens) /\ remoteGot \in Seq(ChunkTokens)
      /\ Agreed(c, s, up, down, channel) /\ Finished(c, s, down, channel, recv_eof, shutdown_)
      /\ Flow(pad, c, s, up, appSent, remoteGot) /\ Flow(pad, s, c, down, remoteSent, appGot)
  BY DEF TunnelOK
<1>2. pad \in BOOLEAN /\ up \in Seq(WireTokens) /\ down \in Seq(Down(pad)) /\ down \in Seq(WireTokens)
  BY WiresAre
<1>3. s = [f \in EndpointFields |-> s[f]] /\ s.queue \in Seq(ChunkTokens)
  BY <1>1 DEF EndpointOK
<1>4. Rest(s.queue, n) \in Seq(ChunkTokens) /\ First(s.queue, n) \in Seq(ChunkTokens)
        /\ Len(Rest(s.queue, n)) = Len(s.queue) - n
  BY <1>3, SplitAt
<1>5. g.queue = Rest(s.queue, n) /\ g = [f \in EndpointFields |-> g[f]]
  BY <1>3 DEF EndpointFields
<1>6. /\ g.padding_support_in_fact_ = s.padding_support_in_fact_ /\ g.data_frame_ = s.data_frame_
      /\ g.num_padding_send_ = s.num_padding_send_ /\ g.num_padding_recv_ = s.num_padding_recv_ /\ g.window = s.window
      /\ g.padding_in_middle_buf_ = s.padding_in_middle_buf_ /\ g.chunks_ = s.chunks_
  BY <1>3 DEF EndpointFields
<1> HIDE DEF pad
<1>7. EndpointOK(g)
  BY <1>1, <1>4, <1>5, <1>6 DEF EndpointOK

<1>8. Flow(pad, c, g, up, appSent, remoteGot \o First(s.queue, n))
  BY <1>1, <1>3, <1>5, <1>6, FlowWrites
<1>9. Flow(pad, g, c, down, remoteSent, appGot)
  BY <1>1, <1>6, FlowSame
<1>10. remoteGot \o First(s.queue, n) \in Seq(ChunkTokens)
  BY <1>1, <1>4, ConcatProperties
<1>11. Agreed(c, g, up, down, channel)
  BY <1>1, <1>6 DEF Agreed
<1>13. Finished(c, g, down, channel, recv_eof, shutdown_)
  BY <1>1, <1>6 DEF Finished
<1> QED BY <1>1, <1>7, <1>8, <1>9, <1>10, <1>11, <1>13 DEF TunnelOK, pad

\* The client has read the end of the stream.
LEMMA ReadsEnd ==
  ASSUME NEW c, NEW s, NEW up, NEW down, NEW channel, NEW recv_eof, NEW shutdown_,
         NEW appSent, NEW appGot, NEW remoteSent, NEW remoteGot,
         TunnelOK(c, s, up, down, channel, recv_eof, shutdown_, appSent, appGot, remoteSent, remoteGot),
         down # << >>,
         Head(down).kind = "end",
         NEW shut, shut => c.queue = << >>
  PROVE  TunnelOK(c, s, up, Tail(down), channel, TRUE, shut, appSent, appGot, remoteSent, remoteGot)
<1> DEFINE pad == c.padding_support_in_fact_
<1>0. MaxTokens \in Nat /\ kFirstPaddings \in Nat
  BY TunnelAssumption
<1>1. /\ EndpointOK(c) /\ EndpointOK(s) /\ channel \in {"none", "connecting", "connected", "eof"}
      /\ appSent \in 0 .. MaxTokens /\ remoteSent \in 0 .. MaxTokens
      /\ appGot \in Seq(ChunkTokens) /\ remoteGot \in Seq(ChunkTokens)
      /\ Agreed(c, s, up, down, channel) /\ Finished(c, s, down, channel, recv_eof, shutdown_)
      /\ Flow(pad, c, s, up, appSent, remoteGot) /\ Flow(pad, s, c, down, remoteSent, appGot)
  BY DEF TunnelOK
<1>2. pad \in BOOLEAN /\ up \in Seq(WireTokens) /\ down \in Seq(Down(pad)) /\ down \in Seq(WireTokens)
  BY WiresAre
<1>3. Len(down) \in Nat /\ Len(down) >= 1 /\ down[1] = Head(down) /\ Head(down) \in Down(pad)
        /\ Tail(down) = Rest(down, 1)
  BY <1>2, HeadIs
<1>4. down[1] = EndStream /\ ~IsData(Head(down))
  <2>1. down[1] = EndStream
    BY <1>0, <1>2, <1>3, WiresTyped
  <2> QED BY <1>0, <1>2, <1>3, <2>1, WiresTyped, WireTokensTyped
<1>5. EndsLast(down, channel = "eof")
  BY <1>1 DEF Finished
<1>6. channel = "eof"
  <2>1. 1 \in 1 .. Len(down)
    BY <1>3
  <2> QED BY <1>4, <1>5, <2>1 DEF EndsLast
<1>7. Len(Tail(down)) = Len(down) - 1 /\ \A i \in 1 .. Len(down) - 1 : Tail(down)[i] = down[1 + i]
  <2>1. 1 \in 0 .. Len(down)
    BY <1>3
  <2> QED BY <1>2, <1>3, <2>1, RestIs
<1>8. \A i \in 1 .. Len(Tail(down)) : ~IsData(Tail(down)[i])
  <2>1. SUFFICES ASSUME NEW i \in 1 .. Len(down) - 1 PROVE ~IsData(down[1 + i])
    BY <1>7
  <2>2. 1 \in 1 .. Len(down) /\ 1 + i \in 1 .. Len(down) /\ 1 < 1 + i
    BY <1>3
  <2> QED BY <1>4, <1>5, <2>2 DEF EndsLast
<1>9. TunnelOK(c, s, up, Tail(down), channel, recv_eof, shutdown_, appSent, appGot, remoteSent, remoteGot)
  BY <1>4, SkipsDown
<1> QED BY <1>6, <1>8, <1>9 DEF TunnelOK, Finished

\* The server has read the request.
LEMMA ReadsRequest ==
  ASSUME NEW c, NEW s, NEW up, NEW down, NEW channel, NEW recv_eof, NEW shutdown_,
         NEW appSent, NEW appGot, NEW remoteSent, NEW remoteGot,
         TunnelOK(c, s, up, down, channel, recv_eof, shutdown_, appSent, appGot, remoteSent, remoteGot),
         channel = "none",
         NEW g, g = [s EXCEPT !.padding_support_in_fact_ = c.padding_support_in_fact_, !.data_frame_ = TRUE]
  PROVE  TunnelOK(c, g, Tail(up), down, "connecting", recv_eof, shutdown_, appSent, appGot, remoteSent, remoteGot)
<1> DEFINE pad == c.padding_support_in_fact_
<1>0. MaxTokens \in Nat /\ kFirstPaddings \in Nat
  BY TunnelAssumption
<1>1. /\ EndpointOK(c) /\ EndpointOK(s) /\ channel \in {"none", "connecting", "connected", "eof"}
      /\ appSent \in 0 .. MaxTokens /\ remoteSent \in 0 .. MaxTokens
      /\ appGot \in Seq(ChunkTokens) /\ remoteGot \in Seq(ChunkTokens)
      /\ Agreed(c, s, up, down, channel) /\ Finished(c, s, down, channel, recv_eof, shutdown_)
      /\ Flow(pad, c, s, up, appSent, remoteGot) /\ Flow(pad, s, c, down, remoteSent, appGot)
  BY DEF TunnelOK
<1>2. pad \in BOOLEAN /\ up \in Seq(WireTokens) /\ down \in Seq(Down(pad)) /\ down \in Seq(WireTokens)
  BY WiresAre
<1>3. s = [f \in EndpointFields |-> s[f]]
  BY <1>1 DEF EndpointOK
<1>4. /\ g.padding_support_in_fact_ = pad /\ g.data_frame_ = TRUE /\ g = [f \in EndpointFields |-> g[f]]
      /\ g.num_padding_send_ = s.num_padding_send_ /\ g.num_padding_recv_ = s.num_padding_recv_ /\ g.window = s.window
      /\ g.padding_in_middle_buf_ = s.padding_in_middle_buf_ /\ g.chunks_ = s.chunks_ /\ g.queue = s.queue
  BY <1>3 DEF EndpointFields
<1> HIDE DEF pad
<1>5. EndpointOK(g)
  BY <1>1, <1>2, <1>4 DEF EndpointOK
<1>6. up # << >> /\ Head(up) = Headers(pad) /\ Tail(up) \in Seq(Up)
  BY <1>1 DEF Agreed, Request, pad
<1>7. ~IsData(Head(up)) /\ Tail(up) \in Seq(WireTokens)
  BY <1>0, <1>2, <1>6, WiresTyped, WireTokensTyped, SeqSubset
<1>8. Flow(pad, c, s, Tail(up), appSent, remoteGot)
  BY <1>0, <1>1, <1>2, <1>6, <1>7, FlowSkip
<1>9. Flow(pad, c, g, Tail(up), appSent, remoteGot) /\ Flow(pad, g, c, down, remoteSent, appGot)
  <2>0. /\ g.num_padding_send_ = s.num_padding_send_ /\ g.num_padding_recv_ = s.num_padding_recv_
        /\ g.padding_in_middle_buf_ = s.padding_in_middle_buf_ /\ g.chunks_ = s.chunks_ /\ g.queue = s.queue
    BY <1>4
  <2>1. Flow(pad, c, g, Tail(up), appSent, remoteGot)
    BY <2>0, <1>8, FlowSame
  <2>2. Flow(pad, s, c, down, remoteSent, appGot)
    BY <1>1
  <2>3. Flow(pad, g, c, down, remoteSent, appGot)
    BY <2>0, <2>2, FlowSame
  <2> QED BY <2>1, <2>3
<1>10. Agreed(c, g, Tail(up), down, "connecting")
  BY <1>1, <1>4, <1>6, <1>7 DEF Agreed, Request, pad
<1>11. Finished(c, g, down, "connecting", recv_eof, shutdown_)
  BY <1>1, <1>4 DEF Finished, EndsLast
<1> QED BY <1>1, <1>5, <1>9, <1>10, <1>11 DEF TunnelOK, pad

\* The channel is there.
LEMMA Connects ==
  ASSUME NEW c, NEW s, NEW up, NEW down, NEW channel, NEW recv_eof, NEW shutdown_,
         NEW appSent, NEW appGot, NEW remoteSent, NEW remoteGot,
         TunnelOK(c, s, up, down, channel, recv_eof, shutdown_, appSent, appGot, remoteSent, remoteGot),
         channel = "connecting"
  PROVE  TunnelOK(c, s, up, down, "connected", recv_eof, shutdown_, appSent, appGot, remoteSent, remoteGot)
<1> DEFINE pad == c.padding_support_in_fact_
<1>0. MaxTokens \in Nat /\ kFirstPaddings \in Nat
  BY TunnelAssumption
<1>1. /\ EndpointOK(c) /\ EndpointOK(s) /\ channel \in {"none", "connecting", "connected", "eof"}
      /\ appSent \in 0 .. MaxTokens /\ remoteSent \in 0 .. MaxTokens
      /\ appGot \in Seq(ChunkTokens) /\ remoteGot \in Seq(ChunkTokens)
      /\ Agreed(c, s, up, down, channel) /\ Finished(c, s, down, channel, recv_eof, shutdown_)
      /\ Flow(pad, c, s, up, appSent, remoteGot) /\ Flow(pad, s, c, down, remoteSent, appGot)
  BY DEF TunnelOK
<1>2. pad \in BOOLEAN /\ up \in Seq(WireTokens) /\ down \in Seq(Down(pad)) /\ down \in Seq(WireTokens)
  BY WiresAre
<1>3. Agreed(c, s, up, down, "connected")
  BY <1>1 DEF Agreed, Request
<1>4. Finished(c, s, down, "connected", recv_eof, shutdown_)
  BY <1>1 DEF Finished, EndsLast
<1> QED BY <1>1, <1>3, <1>4 DEF TunnelOK

\* The channel has ended, and with it the stream.
LEMMA ChannelEnds ==
  ASSUME NEW c, NEW s, NEW up, NEW down, NEW channel, NEW recv_eof, NEW shutdown_,
         NEW appSent, NEW appGot, NEW remoteSent, NEW remoteGot,
         TunnelOK(c, s, up, down, channel, recv_eof, shutdown_, appSent, appGot, remoteSent, remoteGot),
         channel \in {"connecting", "connected"},
         s.chunks_ = << >>,
         NEW g, g = [s EXCEPT !.data_frame_ = FALSE]
  PROVE  TunnelOK(c, g, up, down \o <<EndStream>>, "eof", recv_eof, shutdown_, appSent, appGot, remoteSent, remoteGot)
<1> DEFINE pad == c.padding_support_in_fact_
<1>0. MaxTokens \in Nat /\ kFirstPaddings \in Nat
  BY TunnelAssumption
<1>1. /\ EndpointOK(c) /\ EndpointOK(s) /\ channel \in {"none", "connecting", "connected", "eof"}
      /\ appSent \in 0 .. MaxTokens /\ remoteSent \in 0 .. MaxTokens
      /\ appGot \in Seq(ChunkTokens) /\ remoteGot \in Seq(ChunkTokens)
      /\ Agreed(c, s, up, down, channel) /\ Finished(c, s, down, channel, recv_eof, shutdown_)
      /\ Flow(pad, c, s, up, appSent, remoteGot) /\ Flow(pad, s, c, down, remoteSent, appGot)
  BY DEF TunnelOK
<1>2. pad \in BOOLEAN /\ up \in Seq(WireTokens) /\ down \in Seq(Down(pad)) /\ down \in Seq(WireTokens)
  BY WiresAre
<1>3. Agreed(c, s, up, down, "eof")
  BY <1>1 DEF Agreed, Request
<1>4. Finished(c, s, down, "eof", recv_eof, shutdown_)
  BY <1>1 DEF Finished, EndsLast
<1>5. TunnelOK(c, s, up, down, "eof", recv_eof, shutdown_, appSent, appGot, remoteSent, remoteGot)
  BY <1>1, <1>3, <1>4 DEF TunnelOK
<1>6. s = [f \in EndpointFields |-> s[f]]
  BY <1>1 DEF EndpointOK
<1>7. /\ g.padding_support_in_fact_ = s.padding_support_in_fact_ /\ g.data_frame_ = FALSE
         /\ g = [f \in EndpointFields |-> g[f]]
      /\ g.num_padding_send_ = s.num_padding_send_ /\ g.num_padding_recv_ = s.num_padding_recv_ /\ g.window = s.window
      /\ g.padding_in_middle_buf_ = s.padding_in_middle_buf_ /\ g.chunks_ = s.chunks_ /\ g.queue = s.queue
  BY <1>6 DEF EndpointFields
<1>8. EndpointOK(g)
  BY <1>1, <1>7 DEF EndpointOK
<1> HIDE DEF pad
<1>9. TunnelOK(c, g, up, down, "eof", recv_eof, shutdown_, appSent, appGot, remoteSent, remoteGot)
  BY <1>5, <1>7, <1>8, SameServer
<1>10. EndStream \in Controls /\ EndStream \in Down(c.padding_support_in_fact_)
  BY DEF Controls, Down
<1> QED BY <1>9, <1>10, ControlsDown

-----------------------------------------------------------------------------
(* The steps of the tunnel. *)

\* GetNextUpstreamBuf reads the application.
LEMMA KeptByClientReadsApp ==
  ASSUME TunnelInv, ClientReadsApp
  PROVE  TunnelInv'
<1>1. TunnelShape(h2) /\ TunnelOK(h2.c, h2.s, h2.c2s, h2.s2c, h2.channel, h2.recv_eof, h2.shutdown_, h2.app.sent,
                                  h2.app.got, h2.remote.sent, h2.remote.got)
  BY DEF TunnelInv
<1>2. PICK n \in 1 .. Least(2, MaxTokens - h2.app.sent) :
        \E e \in Chunks(h2.c, Batch(h2.app.sent, n)) :
          h2' = [h2 EXCEPT !.app.sent = @ + n, !.c = Sent(e), !.c2s = @ \o Sendable(e)]
  BY DEF ClientReadsApp, Batch
<1>3. PICK e \in Chunks(h2.c, Batch(h2.app.sent, n)) :
        h2' = [h2 EXCEPT !.app.sent = @ + n, !.c = Sent(e), !.c2s = @ \o Sendable(e)]
  BY <1>2
<1>4. h2.c.chunks_ = << >>
  BY DEF ClientReadsApp
<1>5. Room(h2.app.sent, n)
  <2>1. MaxTokens \in Nat /\ h2.app.sent \in 0 .. MaxTokens
    BY <1>1, TunnelAssumption DEF TunnelOK
  <2>2. n \in Nat /\ n > 0 /\ n <= MaxTokens - h2.app.sent
    BY <2>1 DEF Least
  <2> QED BY <2>1, <2>2 DEF Room
<1>6. TunnelOK(e, h2.s, h2.c2s, h2.s2c, h2.channel, h2.recv_eof, h2.shutdown_, h2.app.sent + n, h2.app.got,
               h2.remote.sent, h2.remote.got)
  BY <1>1, <1>4, <1>5, ChunkUp
<1>7. TunnelOK(Sent(e), h2.s, h2.c2s \o Sendable(e), h2.s2c, h2.channel, h2.recv_eof, h2.shutdown_,
               h2.app.sent + n, h2.app.got, h2.remote.sent, h2.remote.got)
  BY <1>6, SendsUp
<1>8s. TunnelShape(h2')
  BY <1>1, <1>3 DEF TunnelShape, TunnelFields
<1>8f. /\ h2'.c = Sent(e)
      /\ h2'.s = h2.s
      /\ h2'.c2s = h2.c2s \o Sendable(e)
      /\ h2'.s2c = h2.s2c
      /\ h2'.channel = h2.channel
      /\ h2'.recv_eof = h2.recv_eof
      /\ h2'.shutdown_ = h2.shutdown_
      /\ h2'.app.sent = h2.app.sent + n
      /\ h2'.app.got = h2.app.got
      /\ h2'.remote.sent = h2.remote.sent
      /\ h2'.remote.got = h2.remote.got
  BY <1>1, <1>3 DEF TunnelShape, TunnelFields
<1> QED BY <1>7, <1>8s, <1>8f DEF TunnelInv

\* GetNextDownstreamBuf reads the remote.
LEMMA KeptByServerReadsRemote ==
  ASSUME TunnelInv, ServerReadsRemote
  PROVE  TunnelInv'
<1>1. TunnelShape(h2) /\ TunnelOK(h2.c, h2.s, h2.c2s, h2.s2c, h2.channel, h2.recv_eof, h2.shutdown_, h2.app.sent,
                                  h2.app.got, h2.remote.sent, h2.remote.got)
  BY DEF TunnelInv
<1>2. PICK n \in 1 .. Least(2, MaxTokens - h2.remote.sent) :
        \E e \in Chunks(h2.s, Batch(h2.remote.sent, n)) :
          h2' = [h2 EXCEPT !.remote.sent = @ + n, !.s = Sent(e), !.s2c = @ \o Sendable(e)]
  BY DEF ServerReadsRemote, Batch
<1>3. PICK e \in Chunks(h2.s, Batch(h2.remote.sent, n)) :
        h2' = [h2 EXCEPT !.remote.sent = @ + n, !.s = Sent(e), !.s2c = @ \o Sendable(e)]
  BY <1>2
<1>4. h2.s.chunks_ = << >> /\ h2.channel = "connected"
  BY DEF ServerReadsRemote, Readable
<1>5. Room(h2.remote.sent, n)
  <2>1. MaxTokens \in Nat /\ h2.remote.sent \in 0 .. MaxTokens
    BY <1>1, TunnelAssumption DEF TunnelOK
  <2>2. n \in Nat /\ n > 0 /\ n <= MaxTokens - h2.remote.sent
    BY <2>1 DEF Least
  <2> QED BY <2>1, <2>2 DEF Room
<1>6. TunnelOK(h2.c, e, h2.c2s, h2.s2c, h2.channel, h2.recv_eof, h2.shutdown_, h2.app.sent, h2.app.got,
               h2.remote.sent + n, h2.remote.got)
  BY <1>1, <1>4, <1>5, ChunkDown
<1>7. TunnelOK(h2.c, Sent(e), h2.c2s, h2.s2c \o Sendable(e), h2.channel, h2.recv_eof, h2.shutdown_, h2.app.sent,
               h2.app.got, h2.remote.sent + n, h2.remote.got)
  BY <1>6, SendsDown
<1>8s. TunnelShape(h2')
  BY <1>1, <1>3 DEF TunnelShape, TunnelFields
<1>8f. /\ h2'.c = h2.c
      /\ h2'.s = Sent(e)
      /\ h2'.c2s = h2.c2s
      /\ h2'.s2c = h2.s2c \o Sendable(e)
      /\ h2'.channel = h2.channel
      /\ h2'.recv_eof = h2.recv_eof
      /\ h2'.shutdown_ = h2.shutdown_
      /\ h2'.app.sent = h2.app.sent
      /\ h2'.app.got = h2.app.got
      /\ h2'.remote.sent = h2.remote.sent + n
      /\ h2'.remote.got = h2.remote.got
  BY <1>1, <1>3 DEF TunnelShape, TunnelFields
<1> QED BY <1>7, <1>8s, <1>8f DEF TunnelInv

\* An update of the window, of either end.
LEMMA WindowGrows ==
  ASSUME NEW e, EndpointOK(e), NEW n \in Nat, NEW g, g = [e EXCEPT !.window = @ + n]
  PROVE  /\ EndpointOK(g) /\ g.padding_support_in_fact_ = e.padding_support_in_fact_
         /\ g.num_padding_send_ = e.num_padding_send_ /\ g.num_padding_recv_ = e.num_padding_recv_
         /\ g.padding_in_middle_buf_ = e.padding_in_middle_buf_ /\ g.chunks_ = e.chunks_ /\ g.queue = e.queue
<1>1. e = [f \in EndpointFields |-> e[f]] /\ e.window \in Nat
  BY DEF EndpointOK
<1>2. /\ g.padding_support_in_fact_ = e.padding_support_in_fact_ /\ g.data_frame_ = e.data_frame_
      /\ g.num_padding_send_ = e.num_padding_send_ /\ g.num_padding_recv_ = e.num_padding_recv_
      /\ g.padding_in_middle_buf_ = e.padding_in_middle_buf_ /\ g.chunks_ = e.chunks_ /\ g.queue = e.queue
      /\ g.window = e.window + n /\ g = [f \in EndpointFields |-> g[f]]
  BY <1>1 DEF EndpointFields
<1>3. g.window \in Nat
  BY <1>1, <1>2
<1>4. EndpointOK(g)
  BY <1>2, <1>3 DEF EndpointOK
<1> QED BY <1>2, <1>4

\* The callbacks of ProcessBytes in the client.
LEMMA KeptByClientReceives ==
  ASSUME TunnelInv, ClientReceives
  PROVE  TunnelInv'
<1>1. TunnelShape(h2) /\ TunnelOK(h2.c, h2.s, h2.c2s, h2.s2c, h2.channel, h2.recv_eof, h2.shutdown_, h2.app.sent,
                                  h2.app.got, h2.remote.sent, h2.remote.got)
  BY DEF TunnelInv
<1> DEFINE down == h2.s2c
           token == Head(h2.s2c)
           pad == h2.c.padding_support_in_fact_
<1>2. MaxTokens \in Nat /\ EndpointOK(h2.c) /\ EndpointOK(h2.s) /\ pad \in BOOLEAN /\ down \in Seq(Down(pad))
        /\ down # << >>
  BY <1>1, TunnelAssumption DEF TunnelOK, EndpointOK, Agreed, ClientReceives
<1>3. token \in Down(pad)
  BY <1>2, HeadIs
<1>4. CASE /\ token.kind = "headers"
           /\ h2' = [h2 EXCEPT !.s2c = Tail(@), !.c.padding_support_in_fact_ = @ /\ token.pad = 1]
  <2>1. token = Headers(pad)
    BY <1>2, <1>3, <1>4, WiresTyped
  <2>2. (pad /\ token.pad = 1) = pad
    BY <1>2, <2>1 DEF Headers
  <2>3. ~IsData(token)
    BY <1>2, <2>1, WiresTyped, WireTokensTyped
  <2>4. TunnelOK(h2.c, h2.s, h2.c2s, Tail(down), h2.channel, h2.recv_eof, h2.shutdown_, h2.app.sent, h2.app.got,
                 h2.remote.sent, h2.remote.got)
    BY <1>1, <1>2, <2>3, SkipsDown
  <2>5. h2' = [h2 EXCEPT !.s2c = Tail(@), !.c = h2.c]
    <3>1. [h2.c EXCEPT !.padding_support_in_fact_ = pad] = h2.c
      BY <1>2 DEF EndpointOK, EndpointFields
    <3>2. h2' = [h2 EXCEPT !.s2c = Tail(@), !.c = [@ EXCEPT !.padding_support_in_fact_ = pad /\ token.pad = 1]]
      BY <1>4
    <3> HIDE DEF pad, token
    <3> QED BY <2>2, <3>1, <3>2
  <2>6s. TunnelShape(h2')
    BY <1>1, <2>5 DEF TunnelShape, TunnelFields
  <2>6f. /\ h2'.c = h2.c
        /\ h2'.s = h2.s
        /\ h2'.c2s = h2.c2s
        /\ h2'.s2c = Tail(down)
        /\ h2'.channel = h2.channel
        /\ h2'.recv_eof = h2.recv_eof
        /\ h2'.shutdown_ = h2.shutdown_
        /\ h2'.app.sent = h2.app.sent
        /\ h2'.app.got = h2.app.got
        /\ h2'.remote.sent = h2.remote.sent
        /\ h2'.remote.got = h2.remote.got
    BY <1>1, <2>5 DEF TunnelShape, TunnelFields
  <2> QED BY <2>4, <2>6s, <2>6f DEF TunnelInv
<1>5. CASE /\ token.kind = "window"
           /\ LET e == [h2.c EXCEPT !.window = @ + token.n]
              IN h2' = [h2 EXCEPT !.s2c = Tail(@), !.c = Sent(e), !.c2s = @ \o Sendable(e)]
  <2> DEFINE e == [h2.c EXCEPT !.window = @ + token.n]
  <2>1. token.n \in Nat /\ ~IsData(token)
    BY <1>2, <1>3, <1>5, WiresTyped DEF IsData
  <2>2. TunnelOK(h2.c, h2.s, h2.c2s, Tail(down), h2.channel, h2.recv_eof, h2.shutdown_, h2.app.sent, h2.app.got,
                 h2.remote.sent, h2.remote.got)
    BY <1>1, <1>2, <2>1, SkipsDown
  <2>3. /\ EndpointOK(e) /\ e.padding_support_in_fact_ = h2.c.padding_support_in_fact_
        /\ e.num_padding_send_ = h2.c.num_padding_send_ /\ e.num_padding_recv_ = h2.c.num_padding_recv_
        /\ e.padding_in_middle_buf_ = h2.c.padding_in_middle_buf_ /\ e.chunks_ = h2.c.chunks_ /\ e.queue = h2.c.queue
    BY <1>2, <2>1, WindowGrows
  <2> HIDE DEF e
  <2>4. TunnelOK(e, h2.s, h2.c2s, Tail(down), h2.channel, h2.recv_eof, h2.shutdown_, h2.app.sent, h2.app.got,
                 h2.remote.sent, h2.remote.got)
    BY <2>2, <2>3, SameClient
  <2>5. TunnelOK(Sent(e), h2.s, h2.c2s \o Sendable(e), Tail(down), h2.channel, h2.recv_eof, h2.shutdown_,
                 h2.app.sent, h2.app.got, h2.remote.sent, h2.remote.got)
    BY <2>4, SendsUp
  <2>6. h2' = [h2 EXCEPT !.s2c = Tail(@), !.c = Sent(e), !.c2s = @ \o Sendable(e)]
    BY <1>5 DEF e
  <2>7s. TunnelShape(h2')
    BY <1>1, <2>6 DEF TunnelShape, TunnelFields
  <2>7f. /\ h2'.c = Sent(e)
        /\ h2'.s = h2.s
        /\ h2'.c2s = h2.c2s \o Sendable(e)
        /\ h2'.s2c = Tail(down)
        /\ h2'.channel = h2.channel
        /\ h2'.recv_eof = h2.recv_eof
        /\ h2'.shutdown_ = h2.shutdown_
        /\ h2'.app.sent = h2.app.sent
        /\ h2'.app.got = h2.app.got
        /\ h2'.remote.sent = h2.remote.sent
        /\ h2'.remote.got = h2.remote.got
    BY <1>1, <2>6 DEF TunnelShape, TunnelFields
  <2> QED BY <2>5, <2>7s, <2>7f DEF TunnelInv
<1>6. ASSUME NEW n \in DataPieces(h2.s2c),
             LET r == OnDataForStream(h2.c, First(h2.s2c, n))
             IN h2' = [h2 EXCEPT !.s2c = Rest(@, n), !.c = r.conn, !.c2s = @ \o
                         (IF r.consumed = 0 THEN << >> ELSE << WindowUpdate(r.consumed) >>)]
      PROVE  TunnelInv'
  <2> DEFINE r == OnDataForStream(h2.c, First(h2.s2c, n))
  <2>1. r.consumed = n /\ TunnelOK(r.conn, h2.s, h2.c2s, Rest(h2.s2c, n), h2.channel, h2.recv_eof, h2.shutdown_,
                                   h2.app.sent, h2.app.got, h2.remote.sent, h2.remote.got)
    BY <1>1, ReadsDown
  <2> HIDE DEF r
  <2>2. n \in Nat /\ n # 0
    BY <1>2, LenProperties DEF DataPieces
  <2>3. TunnelOK(r.conn, h2.s, h2.c2s \o <<WindowUpdate(n)>>, Rest(h2.s2c, n), h2.channel, h2.recv_eof,
                 h2.shutdown_, h2.app.sent, h2.app.got, h2.remote.sent, h2.remote.got)
    BY <2>1, <2>2, UpdatesUp
  <2>4. h2' = [h2 EXCEPT !.s2c = Rest(@, n), !.c = r.conn, !.c2s = @ \o <<WindowUpdate(n)>>]
    BY <1>6, <2>1, <2>2 DEF r
  <2>5s. TunnelShape(h2')
    BY <1>1, <2>4 DEF TunnelShape, TunnelFields
  <2>5f. /\ h2'.c = r.conn
        /\ h2'.s = h2.s
        /\ h2'.c2s = h2.c2s \o <<WindowUpdate(n)>>
        /\ h2'.s2c = Rest(h2.s2c, n)
        /\ h2'.channel = h2.channel
        /\ h2'.recv_eof = h2.recv_eof
        /\ h2'.shutdown_ = h2.shutdown_
        /\ h2'.app.sent = h2.app.sent
        /\ h2'.app.got = h2.app.got
        /\ h2'.remote.sent = h2.remote.sent
        /\ h2'.remote.got = h2.remote.got
    BY <1>1, <2>4 DEF TunnelShape, TunnelFields
  <2> QED BY <2>3, <2>5s, <2>5f DEF TunnelInv
<1>7. CASE /\ token.kind = "end"
           /\ h2' = [h2 EXCEPT !.s2c = Tail(@), !.recv_eof = TRUE, !.shutdown_ = h2.c.queue = << >>]
  <2>1. TunnelOK(h2.c, h2.s, h2.c2s, Tail(down), h2.channel, TRUE, (h2.c.queue = << >>), h2.app.sent, h2.app.got,
                 h2.remote.sent, h2.remote.got)
    BY <1>1, <1>2, <1>7, ReadsEnd
  <2>2s. TunnelShape(h2')
    BY <1>1, <1>7 DEF TunnelShape, TunnelFields
  <2>2f. /\ h2'.c = h2.c
        /\ h2'.s = h2.s
        /\ h2'.c2s = h2.c2s
        /\ h2'.s2c = Tail(down)
        /\ h2'.channel = h2.channel
        /\ h2'.recv_eof = TRUE
        /\ h2'.shutdown_ = (h2.c.queue = << >>)
        /\ h2'.app.sent = h2.app.sent
        /\ h2'.app.got = h2.app.got
        /\ h2'.remote.sent = h2.remote.sent
        /\ h2'.remote.got = h2.remote.got
    BY <1>1, <1>7 DEF TunnelShape, TunnelFields
  <2> QED BY <2>1, <2>2s, <2>2f DEF TunnelInv
<1> QED BY <1>4, <1>5, <1>6, <1>7 DEF ClientReceives

\* The callbacks of ProcessBytes in the server.
LEMMA KeptByServerReceives ==
  ASSUME TunnelInv, ServerReceives
  PROVE  TunnelInv'
<1>1. TunnelShape(h2) /\ TunnelOK(h2.c, h2.s, h2.c2s, h2.s2c, h2.channel, h2.recv_eof, h2.shutdown_, h2.app.sent,
                                  h2.app.got, h2.remote.sent, h2.remote.got)
  BY DEF TunnelInv
<1> DEFINE up == h2.c2s
           token == Head(h2.c2s)
           pad == h2.c.padding_support_in_fact_
<1>2. MaxTokens \in Nat /\ EndpointOK(h2.c) /\ EndpointOK(h2.s) /\ pad \in BOOLEAN /\ up \in Seq(WireTokens)
        /\ up # << >>
      /\ Request(pad, up, h2.channel = "none") /\ h2.s.padding_support_in_fact_ \in BOOLEAN
  BY <1>1, TunnelAssumption DEF TunnelOK, EndpointOK, Agreed, Request, ServerReceives
<1>3. IF h2.channel = "none" THEN token = Headers(pad) ELSE token \in Up
  <2>1. CASE h2.channel = "none"
    BY <1>2, <2>1 DEF Request
  <2>2. CASE h2.channel # "none"
    <3>1. up \in Seq(Up)
      BY <1>2, <2>2 DEF Request
    <3> QED BY <1>2, <2>2, <3>1, HeadIs
  <2> QED BY <2>1, <2>2
<1>4. CASE token.kind = "headers" /\ OnEndHeadersForStream(token.pad = 1)
  <2>1. h2.channel = "none" /\ token = Headers(pad)
    BY <1>2, <1>3, <1>4, WiresTyped
  <2>2. CASE ~h2.authorized
    <3>1. h2' = [h2 EXCEPT !.refused = TRUE]
      BY <1>4, <2>2 DEF OnEndHeadersForStream
    <3>2s. TunnelShape(h2')
      BY <1>1, <3>1 DEF TunnelShape, TunnelFields
    <3>2f. /\ h2'.c = h2.c
          /\ h2'.s = h2.s
          /\ h2'.c2s = h2.c2s
          /\ h2'.s2c = h2.s2c
          /\ h2'.channel = h2.channel
          /\ h2'.recv_eof = h2.recv_eof
          /\ h2'.shutdown_ = h2.shutdown_
          /\ h2'.app.sent = h2.app.sent
          /\ h2'.app.got = h2.app.got
          /\ h2'.remote.sent = h2.remote.sent
          /\ h2'.remote.got = h2.remote.got
      BY <1>1, <3>1 DEF TunnelShape, TunnelFields
    <3> QED BY <1>1, <3>2s, <3>2f DEF TunnelInv
  <2>3. CASE h2.authorized
    <3> DEFINE padded == h2.s.padding_support_in_fact_ /\ token.pad = 1
               g == [h2.s EXCEPT !.padding_support_in_fact_ = pad, !.data_frame_ = TRUE]
    <3>1. padded = pad
      <4>1. (token.pad = 1) = pad
        BY <1>2, <2>1 DEF Headers
      <4>2. pad => h2.s.padding_support_in_fact_
        BY <1>1, <2>1 DEF TunnelOK, Agreed
      <4> HIDE DEF pad, token
      <4> QED BY <1>2, <4>1, <4>2
    <3>2. h2' = [h2 EXCEPT !.c2s = Tail(@), !.channel = "connecting",
                           !.s.padding_support_in_fact_ = padded, !.s.data_frame_ = TRUE,
                           !.s2c = Append(@, Headers(padded))]
      BY <1>4, <2>3 DEF OnEndHeadersForStream
    <3> HIDE DEF pad, padded
    <3>3. h2' = [h2 EXCEPT !.c2s = Tail(@), !.channel = "connecting", !.s = g, !.s2c = Append(@, Headers(pad))]
      BY <1>1, <3>1, <3>2 DEF TunnelShape, TunnelFields
    <3>4. TunnelOK(h2.c, g, Tail(up), h2.s2c, "connecting", h2.recv_eof, h2.shutdown_, h2.app.sent, h2.app.got,
                   h2.remote.sent, h2.remote.got)
      BY <1>1, <2>1, ReadsRequest DEF pad
    <3>5. Headers(pad) \in Controls /\ Headers(pad) \in Down(pad) /\ Headers(pad) # EndStream
      BY <1>2 DEF Controls, Down, Headers, EndStream
    <3> HIDE DEF g
    <3>6. TunnelOK(h2.c, g, Tail(up), h2.s2c \o <<Headers(pad)>>, "connecting", h2.recv_eof, h2.shutdown_,
                   h2.app.sent, h2.app.got, h2.remote.sent, h2.remote.got)
      BY <3>4, <3>5, ControlsDown DEF pad
    <3>7. Append(h2.s2c, Headers(pad)) = h2.s2c \o <<Headers(pad)>>
      <4>1. h2.s2c \in Seq(Down(pad))
        BY <1>1 DEF TunnelOK, Agreed, pad
      <4> QED BY <4>1, <3>5, AppendIsConcat
    <3>8s. TunnelShape(h2')
      BY <1>1, <3>3 DEF TunnelShape, TunnelFields
    <3>8f. /\ h2'.c = h2.c
          /\ h2'.s = g
          /\ h2'.c2s = Tail(up)
          /\ h2'.s2c = Append(h2.s2c, Headers(pad))
          /\ h2'.channel = "connecting"
          /\ h2'.recv_eof = h2.recv_eof
          /\ h2'.shutdown_ = h2.shutdown_
          /\ h2'.app.sent = h2.app.sent
          /\ h2'.app.got = h2.app.got
          /\ h2'.remote.sent = h2.remote.sent
          /\ h2'.remote.got = h2.remote.got
      BY <1>1, <3>3 DEF TunnelShape, TunnelFields
    <3> QED BY <3>6, <3>7, <3>8s, <3>8f DEF TunnelInv
  <2> QED BY <2>2, <2>3
<1>5. CASE /\ token.kind = "window"
           /\ LET e == [h2.s EXCEPT !.window = @ + token.n]
              IN h2' = [h2 EXCEPT !.c2s = Tail(@), !.s = Sent(e), !.s2c = @ \o Sendable(e)]
  <2> DEFINE e == [h2.s EXCEPT !.window = @ + token.n]
  <2>1. h2.channel # "none" /\ token.n \in Nat /\ ~IsData(token)
    <3>1. h2.channel # "none"
      BY <1>3, <1>5 DEF Headers
    <3>2. token \in Down(pad)
      BY <1>2, <1>3, <3>1, WiresTyped
    <3> QED BY <1>2, <1>5, <3>1, <3>2, WiresTyped DEF IsData
  <2>2. TunnelOK(h2.c, h2.s, Tail(up), h2.s2c, h2.channel, h2.recv_eof, h2.shutdown_, h2.app.sent, h2.app.got,
                 h2.remote.sent, h2.remote.got)
    BY <1>1, <1>2, <2>1, SkipsUp
  <2>3. /\ EndpointOK(e) /\ e.padding_support_in_fact_ = h2.s.padding_support_in_fact_
        /\ e.num_padding_send_ = h2.s.num_padding_send_ /\ e.num_padding_recv_ = h2.s.num_padding_recv_
        /\ e.padding_in_middle_buf_ = h2.s.padding_in_middle_buf_ /\ e.chunks_ = h2.s.chunks_ /\ e.queue = h2.s.queue
    BY <1>2, <2>1, WindowGrows
  <2> HIDE DEF e
  <2>4. TunnelOK(h2.c, e, Tail(up), h2.s2c, h2.channel, h2.recv_eof, h2.shutdown_, h2.app.sent, h2.app.got,
                 h2.remote.sent, h2.remote.got)
    BY <2>2, <2>3, SameServer
  <2>5. TunnelOK(h2.c, Sent(e), Tail(up), h2.s2c \o Sendable(e), h2.channel, h2.recv_eof, h2.shutdown_,
                 h2.app.sent, h2.app.got, h2.remote.sent, h2.remote.got)
    BY <2>4, SendsDown
  <2>6. h2' = [h2 EXCEPT !.c2s = Tail(@), !.s = Sent(e), !.s2c = @ \o Sendable(e)]
    BY <1>5 DEF e
  <2>7s. TunnelShape(h2')
    BY <1>1, <2>6 DEF TunnelShape, TunnelFields
  <2>7f. /\ h2'.c = h2.c
        /\ h2'.s = Sent(e)
        /\ h2'.c2s = Tail(up)
        /\ h2'.s2c = h2.s2c \o Sendable(e)
        /\ h2'.channel = h2.channel
        /\ h2'.recv_eof = h2.recv_eof
        /\ h2'.shutdown_ = h2.shutdown_
        /\ h2'.app.sent = h2.app.sent
        /\ h2'.app.got = h2.app.got
        /\ h2'.remote.sent = h2.remote.sent
        /\ h2'.remote.got = h2.remote.got
    BY <1>1, <2>6 DEF TunnelShape, TunnelFields
  <2> QED BY <2>5, <2>7s, <2>7f DEF TunnelInv
<1>6. ASSUME NEW n \in DataPieces(h2.c2s),
             LET r == OnDataForStream(h2.s, First(h2.c2s, n))
             IN h2' = [h2 EXCEPT !.c2s = Rest(@, n), !.s = r.conn, !.s2c = @ \o
                         (IF r.consumed = 0 THEN << >> ELSE << WindowUpdate(r.consumed) >>)]
      PROVE  TunnelInv'
  <2> DEFINE r == OnDataForStream(h2.s, First(h2.c2s, n))
  <2>1. r.consumed = n /\ TunnelOK(h2.c, r.conn, Rest(h2.c2s, n), h2.s2c, h2.channel, h2.recv_eof, h2.shutdown_,
                                   h2.app.sent, h2.app.got, h2.remote.sent, h2.remote.got)
    BY <1>1, ReadsUp
  <2> HIDE DEF r
  <2>2. n \in Nat /\ n # 0
    BY <1>2, LenProperties DEF DataPieces
  <2>x. WindowUpdate(n) \in Controls /\ WindowUpdate(n) \in Down(h2.c.padding_support_in_fact_)
          /\ WindowUpdate(n) # EndStream
    BY <2>2 DEF Controls, Down, Up, Updates, WindowUpdate, EndStream
  <2>3. TunnelOK(h2.c, r.conn, Rest(h2.c2s, n), h2.s2c \o <<WindowUpdate(n)>>, h2.channel, h2.recv_eof,
                 h2.shutdown_, h2.app.sent, h2.app.got, h2.remote.sent, h2.remote.got)
    BY <2>1, <2>x, ControlsDown
  <2>4. h2' = [h2 EXCEPT !.c2s = Rest(@, n), !.s = r.conn, !.s2c = @ \o <<WindowUpdate(n)>>]
    BY <1>6, <2>1, <2>2 DEF r
  <2>5s. TunnelShape(h2')
    BY <1>1, <2>4 DEF TunnelShape, TunnelFields
  <2>5f. /\ h2'.c = h2.c
        /\ h2'.s = r.conn
        /\ h2'.c2s = Rest(h2.c2s, n)
        /\ h2'.s2c = h2.s2c \o <<WindowUpdate(n)>>
        /\ h2'.channel = h2.channel
        /\ h2'.recv_eof = h2.recv_eof
        /\ h2'.shutdown_ = h2.shutdown_
        /\ h2'.app.sent = h2.app.sent
        /\ h2'.app.got = h2.app.got
        /\ h2'.remote.sent = h2.remote.sent
        /\ h2'.remote.got = h2.remote.got
    BY <1>1, <2>4 DEF TunnelShape, TunnelFields
  <2> QED BY <2>3, <2>5s, <2>5f DEF TunnelInv
<1> QED BY <1>4, <1>5, <1>6 DEF ServerReceives

\* WriteStream and OnStreamWrite.
LEMMA KeptByClientWritesApp ==
  ASSUME TunnelInv, ClientWritesApp
  PROVE  TunnelInv'
<1>1. TunnelShape(h2) /\ TunnelOK(h2.c, h2.s, h2.c2s, h2.s2c, h2.channel, h2.recv_eof, h2.shutdown_, h2.app.sent,
                                  h2.app.got, h2.remote.sent, h2.remote.got)
  BY DEF TunnelInv
<1>2. PICK n \in 1 .. Len(h2.c.queue) :
        h2' = [h2 EXCEPT !.c.queue = Rest(@, n), !.app.got = @ \o First(h2.c.queue, n),
                         !.shutdown_ = h2.recv_eof /\ n = Len(h2.c.queue)]
  BY DEF ClientWritesApp
<1> DEFINE g == [h2.c EXCEPT !.queue = Rest(h2.c.queue, n)]
           shut == h2.recv_eof /\ n = Len(h2.c.queue)
<1>3. n \in 0 .. Len(h2.c.queue)
  <2>1. h2.c.queue \in Seq(ChunkTokens)
    BY <1>1 DEF TunnelOK, EndpointOK
  <2>2. Len(h2.c.queue) \in Nat
    BY <2>1, LenProperties
  <2> QED BY <2>2
<1>4. TunnelOK(g, h2.s, h2.c2s, h2.s2c, h2.channel, h2.recv_eof, shut, h2.app.sent, h2.app.got \o First(h2.c.queue,
               n), h2.remote.sent, h2.remote.got)
  BY <1>1, <1>3, WritesApp
<1>5. h2' = [h2 EXCEPT !.c = g, !.app.got = @ \o First(h2.c.queue, n), !.shutdown_ = shut]
  BY <1>2
<1> HIDE DEF g, shut
<1>6s. TunnelShape(h2')
  BY <1>1, <1>5 DEF TunnelShape, TunnelFields
<1>6f. /\ h2'.c = g
      /\ h2'.s = h2.s
      /\ h2'.c2s = h2.c2s
      /\ h2'.s2c = h2.s2c
      /\ h2'.channel = h2.channel
      /\ h2'.recv_eof = h2.recv_eof
      /\ h2'.shutdown_ = shut
      /\ h2'.app.sent = h2.app.sent
      /\ h2'.app.got = h2.app.got \o First(h2.c.queue, n)
      /\ h2'.remote.sent = h2.remote.sent
      /\ h2'.remote.got = h2.remote.got
  BY <1>1, <1>5 DEF TunnelShape, TunnelFields
<1> QED BY <1>4, <1>6s, <1>6f DEF TunnelInv

\* WriteUpstreamInPipe.
LEMMA KeptByServerWritesRemote ==
  ASSUME TunnelInv, ServerWritesRemote
  PROVE  TunnelInv'
<1>1. TunnelShape(h2) /\ TunnelOK(h2.c, h2.s, h2.c2s, h2.s2c, h2.channel, h2.recv_eof, h2.shutdown_, h2.app.sent,
                                  h2.app.got, h2.remote.sent, h2.remote.got)
  BY DEF TunnelInv
<1> DEFINE queue == h2.s.queue
           n == Len(queue)
           g == [h2.s EXCEPT !.queue = Rest(h2.s.queue, n)]
<1>2. queue \in Seq(ChunkTokens)
  BY <1>1 DEF TunnelOK, EndpointOK
<1>3. n \in Nat /\ n \in 0 .. n
  BY <1>2, LenProperties
<1>4. First(queue, n) = queue /\ Rest(queue, n) = << >>
  <2>1. First(queue, n) = queue
    BY <1>2, SubSeqFull DEF First
  <2>2. Rest(queue, n) \in Seq(ChunkTokens) /\ Len(Rest(queue, n)) = n - n
    BY <1>2, <1>3, RestIs
  <2>3. n - n = 0
    BY <1>3
  <2> QED BY <2>1, <2>2, <2>3, EmptySeq
<1>5. TunnelOK(h2.c, g, h2.c2s, h2.s2c, h2.channel, h2.recv_eof, h2.shutdown_, h2.app.sent, h2.app.got,
               h2.remote.sent, h2.remote.got \o First(h2.s.queue, n))
  BY <1>1, <1>3, WritesRemote
<1>6. h2' = [h2 EXCEPT !.s = g, !.remote.got = @ \o queue]
  BY <1>4 DEF ServerWritesRemote
<1> HIDE DEF g
<1>7s. TunnelShape(h2')
  BY <1>1, <1>6 DEF TunnelShape, TunnelFields
<1>7f. /\ h2'.c = h2.c
      /\ h2'.s = g
      /\ h2'.c2s = h2.c2s
      /\ h2'.s2c = h2.s2c
      /\ h2'.channel = h2.channel
      /\ h2'.recv_eof = h2.recv_eof
      /\ h2'.shutdown_ = h2.shutdown_
      /\ h2'.app.sent = h2.app.sent
      /\ h2'.app.got = h2.app.got
      /\ h2'.remote.sent = h2.remote.sent
      /\ h2'.remote.got = h2.remote.got \o queue
  BY <1>1, <1>6 DEF TunnelShape, TunnelFields
<1> QED BY <1>4, <1>5, <1>7s, <1>7f DEF TunnelInv

\* The last frame of the stream.
LEMMA KeptByLastFrame ==
  ASSUME TunnelInv, h2.channel \in {"connecting", "connected"}, h2.s.chunks_ = << >>,
         h2' = LastFrame([h2 EXCEPT !.remote.ended = TRUE])
  PROVE  TunnelInv'
<1>1. TunnelShape(h2) /\ TunnelOK(h2.c, h2.s, h2.c2s, h2.s2c, h2.channel, h2.recv_eof, h2.shutdown_, h2.app.sent,
                                  h2.app.got, h2.remote.sent, h2.remote.got)
  BY DEF TunnelInv
<1> DEFINE g == [h2.s EXCEPT !.data_frame_ = FALSE]
<1>2. TunnelOK(h2.c, g, h2.c2s, h2.s2c \o <<EndStream>>, "eof", h2.recv_eof, h2.shutdown_, h2.app.sent, h2.app.got,
               h2.remote.sent, h2.remote.got)
  BY <1>1, ChannelEnds
<1>3. h2' = [[h2 EXCEPT !.remote.ended = TRUE] EXCEPT !.channel = "eof", !.s = g, !.s2c = Append(@, EndStream)]
  BY <1>1 DEF LastFrame, TunnelShape, TunnelFields
<1> HIDE DEF g
<1>4. Append(h2.s2c, EndStream) = h2.s2c \o <<EndStream>>
  <2>1. h2.s2c \in Seq(Down(h2.c.padding_support_in_fact_))
    BY <1>1 DEF TunnelOK, Agreed
  <2>2. EndStream \in Down(h2.c.padding_support_in_fact_)
    BY DEF Down
  <2> QED BY <2>1, <2>2, AppendIsConcat
<1>t. PICK t : t = [h2 EXCEPT !.remote.ended = TRUE]
  OBVIOUS
<1>u. TunnelShape(t)
  BY <1>1, <1>t DEF TunnelShape, TunnelFields
<1>v. /\ t.c = h2.c /\ t.c2s = h2.c2s /\ t.s2c = h2.s2c /\ t.recv_eof = h2.recv_eof /\ t.shutdown_ = h2.shutdown_
      /\ t.app = h2.app /\ t.remote.sent = h2.remote.sent /\ t.remote.got = h2.remote.got
  BY <1>1, <1>t DEF TunnelShape, TunnelFields
<1>w. h2' = [t EXCEPT !.channel = "eof", !.s = g, !.s2c = Append(@, EndStream)]
  BY <1>3, <1>t
<1>5s. TunnelShape(h2')
  BY <1>u, <1>w DEF TunnelShape, TunnelFields
<1>x. /\ h2'.c = t.c /\ h2'.s = g /\ h2'.c2s = t.c2s /\ h2'.s2c = Append(t.s2c, EndStream) /\ h2'.channel = "eof"
      /\ h2'.recv_eof = t.recv_eof /\ h2'.shutdown_ = t.shutdown_ /\ h2'.app = t.app /\ h2'.remote = t.remote
  BY <1>u, <1>w DEF TunnelShape, TunnelFields
<1> QED BY <1>2, <1>4, <1>5s, <1>v, <1>x DEF TunnelInv

\* The channel is there, or is not to be had.
LEMMA KeptByServerConnects ==
  ASSUME TunnelInv, ServerConnects
  PROVE  TunnelInv'
<1>1. TunnelShape(h2) /\ TunnelOK(h2.c, h2.s, h2.c2s, h2.s2c, h2.channel, h2.recv_eof, h2.shutdown_, h2.app.sent,
                                  h2.app.got, h2.remote.sent, h2.remote.got)
  BY DEF TunnelInv
<1>2. h2.channel = "connecting"
  BY DEF ServerConnects
<1>3. CASE h2' = [h2 EXCEPT !.channel = "connected"]
  <2>1. TunnelOK(h2.c, h2.s, h2.c2s, h2.s2c, "connected", h2.recv_eof, h2.shutdown_, h2.app.sent, h2.app.got,
                 h2.remote.sent, h2.remote.got)
    BY <1>1, <1>2, Connects
  <2>2s. TunnelShape(h2')
    BY <1>1, <1>3 DEF TunnelShape, TunnelFields
  <2>2f. /\ h2'.c = h2.c
        /\ h2'.s = h2.s
        /\ h2'.c2s = h2.c2s
        /\ h2'.s2c = h2.s2c
        /\ h2'.channel = "connected"
        /\ h2'.recv_eof = h2.recv_eof
        /\ h2'.shutdown_ = h2.shutdown_
        /\ h2'.app.sent = h2.app.sent
        /\ h2'.app.got = h2.app.got
        /\ h2'.remote.sent = h2.remote.sent
        /\ h2'.remote.got = h2.remote.got
    BY <1>1, <1>3 DEF TunnelShape, TunnelFields
  <2> QED BY <2>1, <2>2s, <2>2f DEF TunnelInv
<1>4. CASE h2' = LastFrame([h2 EXCEPT !.remote.ended = TRUE])
  <2>1. h2.s.chunks_ = << >>
    BY <1>1, <1>2 DEF TunnelOK, Finished
  <2> QED BY <1>2, <1>4, <2>1, KeptByLastFrame
<1> QED BY <1>3, <1>4 DEF ServerConnects

\* The request is on its way and nothing else.
LEMMA TunnelStarts ==
  ASSUME "client" \notin Paddings, TunnelInit
  PROVE  TunnelInv
<1>1. PICK who \in Paddings, authorized \in BOOLEAN : h2 = Initial(who, authorized)
  BY DEF TunnelInit
<1> DEFINE pad == who \in {"both", "client"}
           server == who \in {"both", "server"}
           c == [Endpoint(pad) EXCEPT !.data_frame_ = TRUE]
           s == Endpoint(server)
<1>2. pad \in BOOLEAN /\ server \in BOOLEAN /\ (pad => server)
  BY TunnelAssumption
<1>3. /\ TunnelShape(h2) /\ h2.c = c /\ h2.s = s /\ h2.c2s = <<Headers(pad)>> /\ h2.s2c = << >> /\ h2.channel = "none"
      /\ h2.recv_eof = FALSE /\ h2.shutdown_ = FALSE /\ h2.app.sent = 0 /\ h2.app.got = << >>
      /\ h2.remote.sent = 0 /\ h2.remote.got = << >>
  BY <1>1 DEF Initial, TunnelShape, TunnelFields
<1> HIDE DEF pad, server
<1>4. MaxTokens \in Nat /\ kFirstPaddings \in Nat /\ Window \in Nat /\ << >> \in Seq(ChunkTokens)
  BY TunnelAssumption, EmptySeq
<1>5. /\ EndpointOK(c) /\ c.padding_support_in_fact_ = pad /\ c.chunks_ = << >> /\ c.num_padding_send_ = 0
      /\ c.num_padding_recv_ = 0 /\ c.padding_in_middle_buf_ = << >> /\ c.queue = << >>
  <2>1. /\ c = [f \in EndpointFields |-> c[f]] /\ c.padding_support_in_fact_ = pad /\ c.chunks_ = << >>
           /\ c.num_padding_send_ = 0
        /\ c.num_padding_recv_ = 0 /\ c.padding_in_middle_buf_ = << >> /\ c.queue = << >>
           /\ c.data_frame_ = TRUE /\ c.window = Window
    BY DEF Endpoint, EndpointFields
  <2> HIDE DEF c
  <2>2. 0 \in 0 .. kFirstPaddings
    BY <1>4
  <2> QED BY <1>2, <1>4, <2>1, <2>2 DEF EndpointOK
<1>6. /\ EndpointOK(s) /\ s.padding_support_in_fact_ = server /\ s.chunks_ = << >> /\ s.num_padding_send_ = 0
      /\ s.num_padding_recv_ = 0 /\ s.padding_in_middle_buf_ = << >> /\ s.queue = << >>
  <2>1. /\ s = [f \in EndpointFields |-> s[f]] /\ s.padding_support_in_fact_ = server /\ s.chunks_ = << >>
           /\ s.num_padding_send_ = 0
        /\ s.num_padding_recv_ = 0 /\ s.padding_in_middle_buf_ = << >> /\ s.queue = << >>
           /\ s.data_frame_ = FALSE /\ s.window = Window
    BY DEF Endpoint, EndpointFields
  <2> HIDE DEF s
  <2>2. 0 \in 0 .. kFirstPaddings
    BY <1>4
  <2> QED BY <1>2, <1>4, <2>1, <2>2 DEF EndpointOK
<1> HIDE DEF c, s
<1> DEFINE up == <<Headers(pad)>>
<1>7. Headers(pad) \in Controls /\ Headers(pad) \in WireTokens /\ << >> \in Seq(WireTokens)
        /\ << >> \in Seq(Down(pad)) /\ << >> \in Seq(Up)
  BY <1>2, <1>4, WiresTyped, EmptySeq DEF WireTokens
<1>8. Flow(pad, c, s, up, 0, << >>) /\ Flow(pad, s, c, << >>, 0, << >>)
  <2>1. Flow(pad, c, s, << >>, 0, << >>)
    BY <1>2, <1>4, <1>5, <1>6, FlowStarts
  <2>2. Flow(pad, s, c, << >>, 0, << >>)
    BY <1>2, <1>4, <1>5, <1>6, FlowStarts
  <2>3. Flow(pad, c, s, << >> \o <<Headers(pad)>>, 0, << >>)
    BY <1>4, <1>7, <2>1, FlowControl
  <2>4. << >> \o <<Headers(pad)>> = up
    BY <1>7
  <2> QED BY <2>2, <2>3, <2>4
<1>9. Request(pad, up, TRUE)
  <2>1. up \in Seq(WireTokens) /\ up # << >> /\ Head(up) = Headers(pad) /\ Tail(up) = << >>
    BY <1>7
  <2> QED BY <1>7, <2>1 DEF Request
<1> HIDE DEF up
<1>10. Agreed(c, s, up, << >>, "none")
  BY <1>2, <1>5, <1>6, <1>7, <1>9 DEF Agreed
<1>11. Finished(c, s, << >>, "none", FALSE, FALSE)
  <2>1. 1 .. Len(<< >>) = {}
    OBVIOUS
  <2> QED BY <1>6, <2>1 DEF Finished, EndsLast
<1>12. 0 \in 0 .. MaxTokens
  BY <1>4
<1>13. TunnelOK(c, s, up, << >>, "none", FALSE, FALSE, 0, << >>, 0, << >>)
  BY <1>4, <1>5, <1>6, <1>8, <1>10, <1>11, <1>12 DEF TunnelOK
<1> QED BY <1>3, <1>13 DEF TunnelInv, up

\* Every step keeps the invariant.
LEMMA TunnelKept ==
  ASSUME TunnelInv, [TunnelNext]_h2
  PROVE  TunnelInv'
<1>1. CASE ServerReadsEnd
  <2>1. h2.channel \in {"connecting", "connected"} /\ h2.s.chunks_ = << >>
          /\ h2' = LastFrame([h2 EXCEPT !.remote.ended = TRUE])
    BY <1>1 DEF ServerReadsEnd, Readable
  <2> QED BY <2>1, KeptByLastFrame
<1>2. CASE UNCHANGED h2
  BY <1>2 DEF TunnelInv
<1> QED BY <1>1, <1>2, KeptByClientReadsApp, KeptByClientReceives, KeptByClientWritesApp, KeptByServerReceives,
           KeptByServerConnects, KeptByServerWritesRemote, KeptByServerReadsRemote DEF TunnelNext, TunnelSteps

\* The invariant is all that TunnelIntact asks for.
LEMMA TunnelSuffices ==
  ASSUME TunnelInv
  PROVE  TunnelIntact
<1> DEFINE c == h2.c
           s == h2.s
           pad == h2.c.padding_support_in_fact_
<1>1. TunnelOK(c, s, h2.c2s, h2.s2c, h2.channel, h2.recv_eof, h2.shutdown_, h2.app.sent, h2.app.got,
               h2.remote.sent, h2.remote.got)
  BY DEF TunnelInv
<1>2. /\ MaxTokens \in Nat /\ kFirstPaddings \in Nat /\ pad \in BOOLEAN /\ EndpointOK(c) /\ EndpointOK(s)
      /\ h2.app.got \in Seq(ChunkTokens) /\ h2.remote.got \in Seq(ChunkTokens) /\ h2.remote.sent \in 0 .. MaxTokens
      /\ Flow(pad, c, s, h2.c2s, h2.app.sent, h2.remote.got) /\ Flow(pad, s, c, h2.s2c, h2.remote.sent, h2.app.got)
      /\ h2.s2c \in Seq(Down(pad)) /\ Finished(c, s, h2.s2c, h2.channel, h2.recv_eof, h2.shutdown_)
  BY <1>1, TunnelAssumption DEF TunnelOK, EndpointOK, Agreed
<1> HIDE DEF pad, c, s
<1>3. \A i \in DOMAIN h2.remote.got : h2.remote.got[i] = Payload(i)
  BY <1>2, LenProperties DEF Flow, InOrder
<1>4. \A i \in DOMAIN h2.app.got : h2.app.got[i] = Payload(i)
  BY <1>2, LenProperties DEF Flow, InOrder
<1>5. ASSUME h2.shutdown_ PROVE Len(h2.app.got) = h2.remote.sent
  <2>1. c.queue = << >> /\ s.chunks_ = << >> /\ \A i \in 1 .. Len(h2.s2c) : ~IsData(h2.s2c[i])
    BY <1>2, <1>5 DEF Finished
  <2>2. h2.s2c \in Seq(WireTokens) /\ h2.remote.sent \in Nat
    BY <1>2, WiresTyped, SeqSubset
  <2>3. Len(h2.app.got) + Len(c.queue) = h2.remote.sent
    BY <1>2, <2>1, <2>2, FlowEnds
  <2>4. Len(h2.app.got) \in Nat /\ Len(c.queue) = 0
    BY <1>2, <2>1, LenProperties
  <2> QED BY <2>3, <2>4
<1> QED BY <1>3, <1>4, <1>5 DEF TunnelIntact

\* What either side of an HTTP/2 tunnel got is what the other sent, in order,
\* whoever pads but for a client alone (see the README).
THEOREM TunnelCorrect ==
  ASSUME "client" \notin Paddings
  PROVE  TunnelSpec => []TunnelIntact
<1>1. TunnelInit => TunnelInv
  BY TunnelStarts
<1>2. TunnelInv /\ [TunnelNext]_h2 => TunnelInv'
  BY TunnelKept
<1>3. TunnelInv => TunnelIntact
  BY TunnelSuffices
<1> QED BY <1>1, <1>2, <1>3, PTL DEF TunnelSpec
=============================================================================
