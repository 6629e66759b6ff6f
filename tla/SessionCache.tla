---------------------------- MODULE SessionCache ----------------------------
(***************************************************************************)
(* net::SSLClientSessionCache (src/net/ssl_client_session_cache.cpp): the  *)
(* TLS sessions the client keeps for resumption, two per key, in an LRU    *)
(* map.  Lookup hands a session to a new SSLSocket, Insert takes one from  *)
(* the TLS library's callback, ClearEarlyData comes after a rejected       *)
(* 0-RTT attempt.                                                          *)
(*                                                                         *)
(* The clock is the wall clock: it may jump either way.  This is the build *)
(* without TBB's concurrent LRU cache.  The order of the LRU map decides   *)
(* which entry makes room for a new one and nothing else; here it may be   *)
(* any.                                                                    *)
(***************************************************************************)
EXTENDS Naturals, FiniteSets

CONSTANTS
  Keys,
  max_entries, expiration_check_count,  \* of the Config
  Timeout,                              \* the lifetime of a session
  Width,                                \* the modulus of uint64_t arithmetic
  MaxTime,                              \* bound: the clock
  MaxSessions                           \* bound: sessions inserted

ASSUME EntriesAssumption == max_entries \in Nat \ {0}

VARIABLES
  cache_,                \* the entry of each key that has one
  lookups_since_flush_,
  now,
  inserted,              \* how many sessions were inserted: the last one's id
  handed                 \* the sessions handed out

cacheVars == <<cache_, lookups_since_flush_, now, inserted, handed>>

nullptr == [id |-> 0]
NoEntries == [key \in {} |-> <<nullptr, nullptr>>]

CacheInit ==
  /\ cache_ = NoEntries
  /\ lookups_since_flush_ = 0
  /\ now \in 0 .. MaxTime
  /\ inserted = 0
  /\ handed = {}

\* One second of room for clocks that differ.  At time 0 the subtraction wraps.
IsExpired(session, t) ==
  \/ t < (session.time + Width - 1) % Width
  \/ t >= session.time + Timeout

-----------------------------------------------------------------------------
(* An entry: its sessions[0] and sessions[1]. *)

Push(sessions, session) ==
  IF sessions[1] # nullptr /\ sessions[1].single_use
    THEN <<session, sessions[1]>>
    ELSE <<session, sessions[2]>>

\* The slots once sessions[0] was popped.
Popped(sessions) ==
  IF sessions[1] # nullptr /\ sessions[1].single_use
    THEN <<sessions[2], nullptr>>
    ELSE sessions

\* ExpireSessions: whether the entry can go, and what it keeps if not.
Deletable(sessions, t) == sessions[1] = nullptr \/ IsExpired(sessions[1], t)
Expired(sessions, t) ==
  IF sessions[2] # nullptr /\ IsExpired(sessions[2], t)
    THEN <<sessions[1], nullptr>>
    ELSE sessions

-----------------------------------------------------------------------------
(* gurl_base::LRUCache, external. *)

Holds(cache, key) == key \in DOMAIN cache
With(cache, key, sessions) ==
  [k \in DOMAIN cache \union {key} |-> IF k = key THEN sessions ELSE cache[k]]
Without(cache, key) == [k \in DOMAIN cache \ {key} |-> cache[k]]
\* Put of a new key evicts an entry of a full cache.
Put(cache, key, sessions) ==
  IF Cardinality(DOMAIN cache) < max_entries
    THEN {With(cache, key, sessions)}
    ELSE {With(Without(cache, least), key, sessions) : least \in DOMAIN cache}

-----------------------------------------------------------------------------

\* Mutant: the entries that can go stay, without the sessions that expired.
FlushExpiredSessions_keeps(cache, t) ==
  [key \in DOMAIN cache |-> IF Deletable(cache[key], t) THEN <<nullptr, nullptr>> ELSE cache[key]]

FlushExpiredSessions(cache, t) ==
  [key \in {k \in DOMAIN cache : ~Deletable(cache[k], t)} |-> Expired(cache[key], t)]

\* Lookup, from the SSLSocket constructor.
Lookup(key) ==
  LET flush == lookups_since_flush_ + 1 >= expiration_check_count
      cache == IF flush THEN FlushExpiredSessions(cache_, now) ELSE cache_
  IN /\ lookups_since_flush_' = IF flush THEN 0 ELSE lookups_since_flush_ + 1
     /\ \/ /\ ~Holds(cache, key)
           /\ cache_' = cache
           /\ UNCHANGED handed
        \/ /\ Holds(cache, key)
           /\ LET session == cache[key][1]
                  left == Popped(cache[key])
              IN /\ cache_' = IF Deletable(left, now)
                                THEN Without(cache, key)
                                ELSE With(cache, key, Expired(left, now))
                 /\ handed' = IF session = nullptr \/ IsExpired(session, now)
                                THEN handed
                                ELSE handed \union {session.id}
     /\ UNCHANGED <<now, inserted>>

\* Insert, from NewSessionCallback.  TLS 1.3 sessions are for a single use.
Insert(key, single_use) ==
  /\ inserted < MaxSessions
  /\ inserted' = inserted + 1
  /\ LET session == [id |-> inserted + 1, single_use |-> single_use, early |-> TRUE, time |-> now]
     IN IF Holds(cache_, key)
          THEN cache_' = With(cache_, key, Push(cache_[key], session))
          ELSE cache_' \in Put(cache_, key, Push(<<nullptr, nullptr>>, session))
  /\ UNCHANGED <<lookups_since_flush_, now, handed>>

WithoutEarlyData(session) ==
  IF session = nullptr THEN nullptr ELSE [session EXCEPT !.early = FALSE]

ClearEarlyData(key) ==
  /\ Holds(cache_, key)
  /\ cache_' = With(cache_, key, <<WithoutEarlyData(cache_[key][1]), WithoutEarlyData(cache_[key][2])>>)
  /\ UNCHANGED <<lookups_since_flush_, now, inserted, handed>>

\* Time passes, or the clock is set.
Clock ==
  /\ now' \in 0 .. MaxTime
  /\ UNCHANGED <<cache_, lookups_since_flush_, inserted, handed>>

CacheNext ==
  \/ \E key \in Keys :
       \/ Lookup(key) \/ ClearEarlyData(key)
       \/ \E single_use \in BOOLEAN : Insert(key, single_use)
  \/ Clock

CacheSpec == CacheInit /\ [][CacheNext]_cacheVars

-----------------------------------------------------------------------------
(* Properties. *)

\* A single-use session is handed to one connection at most, though its entry
\* shifts its slots and expires them meanwhile: once handed out it is nowhere
\* in the cache, and no session is cached twice.
SingleUseOnce ==
  \A key \in DOMAIN cache_, i \in 1 .. 2 :
    LET session == cache_[key][i] IN
    session # nullptr =>
      /\ session.single_use => session.id \notin handed
      /\ \A k \in DOMAIN cache_, j \in 1 .. 2 :
           cache_[k][j].id = session.id => k = key /\ j = i

\* Lookup passes what it popped to IsExpired without looking whether it is
\* null, so no entry may stay in the cache with an empty first slot; and the
\* cache keeps its limit.
EntriesFilled ==
  /\ Cardinality(DOMAIN cache_) <= max_entries
  /\ \A key \in DOMAIN cache_ : cache_[key][1] # nullptr

\* A single-use session goes to one connection at most, and Lookup never finds
\* an entry without a session, however lookups, insertions, flushes and settings
\* of the clock follow each other.
CacheSound == SingleUseOnce /\ EntriesFilled
=============================================================================
