----------------------------- MODULE RateLimit -----------------------------
(***************************************************************************)
(* The rate limiter of net::stream (src/net/stream.hpp): what Stream takes *)
(* for a delay of any length.  Before a wait_read or a wait_write goes to  *)
(* the socket, pgrsLimitWaitTime compares the bytes moved since a stamp    *)
(* with the time since that stamp, and the wait sits out the difference on *)
(* a timer.  ratelimit() renews the stamps of both directions, at most     *)
(* once in MIN_RATE_LIMIT_PERIOD.                                          *)
(*                                                                         *)
(* The stamps are of the wall clock (absl::Now), which can be set back;    *)
(* the timers run on the steady clock.  Bytes also move while a wait is    *)
(* delayed: a connection reads its upstream when its downlink is writable. *)
(* Times are in milliseconds since the stream connected.                   *)
(***************************************************************************)
EXTENDS Integers

CONSTANTS
  Rate,       \* FLAGS_limit_rate, in bytes per second; 0 turns the limiter off
  Int64Max,   \* INT64_MAX
  Amounts,    \* bound: the bytes a read_some or write_some may move
  Burst,      \* bound: the bytes moved between two waits that were let through
  Steps,      \* bound: the lengths of time that may pass in a step
  MaxTime,    \* bound: the age of the stream
  MaxBack     \* bound: how far the wall clock is set back in all

ASSUME RateAssumption ==
  /\ Amounts \subseteq Nat
  /\ Rate \in Nat \ {0} /\ Int64Max \in Nat /\ Burst \in Nat
  /\ Steps \subseteq Nat /\ MaxTime \in Nat /\ MaxBack \in Nat
  /\ MaxTime < Int64Max

Directions == {"dl", "ul"}
Other(d) == IF d = "dl" THEN "ul" ELSE "dl"
MIN_RATE_LIMIT_PERIOD == 3000

VARIABLES
  mono,         \* the steady clock
  wall,         \* the wall clock
  transferred,  \* rbytes_transferred_ and wbytes_transferred_
  limit_start,  \* the next three: dl_limit_start_ and ul_limit_start_, and so on
  limit_size,
  limit_state,
  delayed,      \* the wait of this direction is on its delay timer,
  due,          \* which expires at this time of the steady clock (0 without one)
  stamped,      \* ghost: the steady clock when the stamp was set
  windows,      \* ghost: the number of stamps
  passed,       \* ghost: transferred when a wait was let through last
  disturbed     \* ghost: since the delay began, bytes moved or the clock was set back

stamps == <<limit_start, limit_size, stamped, windows>>
limitVars == <<mono, wall, transferred, stamps, limit_state, delayed, due, passed, disturbed>>

\* stream::on_async_connected.  Its call of ratelimit finds stamps that are new.
LimitInit ==
  /\ mono = 0 /\ wall = 0
  /\ transferred = [d \in Directions |-> 0]
  /\ limit_start = [d \in Directions |-> 0]
  /\ limit_size = [d \in Directions |-> 0]
  /\ limit_state = [d \in Directions |-> FALSE]
  /\ delayed = [d \in Directions |-> FALSE]
  /\ due = [d \in Directions |-> 0]
  /\ stamped = [d \in Directions |-> 0]
  /\ windows = [d \in Directions |-> 1]
  /\ passed = [d \in Directions |-> 0]
  /\ disturbed = [d \in Directions |-> FALSE]

\* Mutant: the size is not turned into milliseconds beyond the first test.
minimum_in_seconds(size, limit) ==
  IF size < Int64Max \div 1000 THEN (1000 * size) \div limit ELSE size \div limit

\* The milliseconds size should take to stay below limit; the order of the
\* product and the quotient keeps both in the range of int64_t.
minimum(size, limit) ==
  IF size < Int64Max \div 1000
    THEN (1000 * size) \div limit
    ELSE IF size \div limit < Int64Max \div 1000 THEN (size \div limit) * 1000 ELSE Int64Max

pgrsLimitWaitTime(cursize, startsize, limit, start, now) ==
  LET size == cursize - startsize
      actual == now - start
  IN IF limit = 0 \/ size = 0 \/ actual >= minimum(size, limit)
       THEN 0
       ELSE minimum(size, limit) - actual

WaitTime(d) == pgrsLimitWaitTime(transferred[d], limit_size[d], Rate, limit_start[d], wall)

\* The stamp of d is old enough to be renewed.
old_stamp(d) == wall - limit_start[d] >= MIN_RATE_LIMIT_PERIOD

\* ratelimit(now), for both directions.
ratelimit ==
  /\ limit_start' = [d \in Directions |-> IF old_stamp(d) THEN wall ELSE limit_start[d]]
  /\ limit_size' = [d \in Directions |-> IF old_stamp(d) THEN transferred[d] ELSE limit_size[d]]
  /\ stamped' = [d \in Directions |-> IF old_stamp(d) THEN mono ELSE stamped[d]]
  /\ windows' = [d \in Directions |-> IF old_stamp(d) THEN windows[d] + 1 ELSE windows[d]]

\* wait_read or wait_write, asked for by the user or by the delay timer: the
\* wait goes to the timer, which enters the limited state, or
delay(d) ==
  /\ WaitTime(d) > 0
  /\ IF \E e \in Directions : limit_state[e] THEN UNCHANGED stamps ELSE ratelimit
  /\ limit_state' = [limit_state EXCEPT ![d] = TRUE]
  /\ delayed' = [delayed EXCEPT ![d] = TRUE]
  /\ due' = [due EXCEPT ![d] = mono + WaitTime(d)]
  /\ disturbed' = [disturbed EXCEPT ![d] = FALSE]
  /\ UNCHANGED <<mono, wall, transferred, passed>>

\* to the socket (or the yield timer, after which it is asked for again), which
\* leaves the limited state.
let_through(d) ==
  /\ WaitTime(d) = 0
  /\ IF limit_state[d] /\ ~limit_state[Other(d)] THEN ratelimit ELSE UNCHANGED stamps
  /\ limit_state' = [limit_state EXCEPT ![d] = FALSE]
  /\ delayed' = [delayed EXCEPT ![d] = FALSE]
  /\ due' = [due EXCEPT ![d] = 0]
  /\ passed' = [passed EXCEPT ![d] = transferred[d]]
  /\ disturbed' = [disturbed EXCEPT ![d] = FALSE]
  /\ UNCHANGED <<mono, wall, transferred>>

\* The user asks for a wait when it has none.
ask_wait(d) == ~delayed[d] /\ (delay(d) \/ let_through(d))

\* The delay timer expires.
on_delay(d) == delayed[d] /\ mono >= due[d] /\ (delay(d) \/ let_through(d))

\* read_some or write_some moves n bytes.
move_some(d, n) ==
  /\ transferred[d] + n <= passed[d] + Burst
  /\ transferred' = [transferred EXCEPT ![d] = @ + n]
  /\ disturbed' = [disturbed EXCEPT ![d] = delayed[d]]
  /\ UNCHANGED <<mono, wall, stamps, limit_state, delayed, due, passed>>

\* Time passes on both clocks.
Tick(n) ==
  /\ mono + n <= MaxTime
  /\ mono' = mono + n /\ wall' = wall + n
  /\ UNCHANGED <<transferred, stamps, limit_state, delayed, due, passed, disturbed>>

\* The wall clock is set back.
SetBack(n) ==
  /\ mono - wall + n <= MaxBack
  /\ wall' = wall - n
  /\ disturbed' = delayed
  /\ UNCHANGED <<mono, transferred, stamps, limit_state, delayed, due, passed>>

LimitNext ==
  \/ \E d \in Directions :
       \/ ask_wait(d) \/ on_delay(d)
       \/ \E n \in Amounts : move_some(d, n)
  \/ \E n \in Steps : Tick(n) \/ SetBack(n)

LimitSpec == LimitInit /\ [][LimitNext]_limitVars

-----------------------------------------------------------------------------
(* Properties. *)

\* Type invariant of the rate limiter.
LimitTypeOK ==
  /\ mono \in 0 .. MaxTime /\ wall \in Int
  /\ transferred \in [Directions -> Nat] /\ passed \in [Directions -> Nat]
  /\ limit_start \in [Directions -> Int] /\ limit_size \in [Directions -> Nat]
  /\ limit_state \in [Directions -> BOOLEAN] /\ delayed \in [Directions -> BOOLEAN]
  /\ due \in [Directions -> Nat] /\ stamped \in [Directions -> Nat]
  /\ windows \in [Directions -> Nat \ {0}] /\ disturbed \in [Directions -> BOOLEAN]

\* However the two directions renew each other's stamps and whatever the wall
\* clock is set back, a direction has moved no more than its rate allows, and
\* one burst and one second's worth for each stamp; and the stamps are at least
\* the minimum period apart in real time.
RateBounded == \A d \in Directions :
  /\ 1000 * transferred[d] <= Rate * (mono + 1000 * windows[d]) + 1000 * (Burst * windows[d])
  /\ MIN_RATE_LIMIT_PERIOD * (windows[d] - 1) <= mono

\* A wait is delayed once: when its timer expires it is let through, unless
\* bytes were moved meanwhile or the clock was set back, even if the other
\* direction renewed the stamp under it.
DelayedOnce == \A d \in Directions :
  delayed[d] /\ ~disturbed[d] /\ mono >= due[d] => WaitTime(d) = 0

\* The limiter keeps the rate and no wait is held back longer than it has to be.
LimitKept == LimitTypeOK /\ RateBounded /\ DelayedOnce
=============================================================================
