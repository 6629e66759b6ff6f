----------------------------- MODULE TlsProofs -----------------------------
(***************************************************************************)
(* The TLS session cache hands a single-use session out once and keeps no  *)
(* empty entry, for any keys, limit, timeout and clock; and no handshake   *)
(* of a listener comes out with a protocol it does not support, for any    *)
(* number of connections and any offers; and the trust store holds the     *)
(* required roots and nothing it must not, whatever its sources hold; and  *)
(* no TLS socket keeps a callback that nothing will run, for streams of    *)
(* any capacity and any number of requests and greetings.                  *)
(*                                                                         *)
(* For the cache, CacheInv says what CacheSound leaves open: every session *)
(* in the cache has a number that was given out, so the next one is new;   *)
(* the two slots of an entry differ, and no two entries share a session.   *)
(* Every operation on an entry takes sessions away or adds the new one, so *)
(* it suffices to follow the set of the numbers in an entry, Ids.          *)
(*                                                                         *)
(* For ALPN, the callback may run on behalf of another connection and      *)
(* change the cipher of that one; AlpnInv says that whatever cipher a      *)
(* connection has, the listener supports it.                               *)
(*                                                                         *)
(* For the certificates, CaInv follows the sources: each keeps what it     *)
(* must not let in out, a root that is marked as found is in the store, so *)
(* that leaving the supplementary bundle out leaves nothing out, and where *)
(* the stores of a Mac were looked at, the root its user trusts is there.  *)
(*                                                                         *)
(* For the sockets, a step is a chain of calls over worlds, and in between *)
(* the operation that runs is neither armed nor queued.  Kept(v, e, ops)   *)
(* is the invariant of such a world: callbacks may be served by ops, what  *)
(* end e is running.  A call of the library keeps all that Lib lists, so   *)
(* each socket function is proved from what its calls leave behind.        *)
(***************************************************************************)
EXTENDS SessionCache, AlpnSelect, CaStore, TlsSockets, FiniteSetTheorems, SequenceTheorems,
        WellFoundedInduction, TLAPS

-----------------------------------------------------------------------------
(* Entries of the cache. *)

\* The sessions, slots and entries there can be.
Session == [id : Nat \ {0}, single_use : BOOLEAN, early : BOOLEAN, time : Nat]
Slot == Session \union {nullptr}
Entry == Slot \X Slot

\* What holds of a slot and of an entry, given the sessions inserted and handed
\* out so far.
SlotOK(s, n, given) ==
  /\ s \in Slot
  /\ s # nullptr => s.id <= n /\ (s.single_use => s.id \notin given)
EntryOK(e, n, given) ==
  /\ e \in Entry /\ SlotOK(e[1], n, given) /\ SlotOK(e[2], n, given)
  /\ e[1] # nullptr /\ e[1].id # e[2].id

\* The sessions of an entry.
Ids(e) == {e[1].id, e[2].id} \ {0}

\* What holds of the cache: it keeps its limit, its entries are sound, and no two
\* share a session.
CacheOK(cache, n, given) ==
  /\ IsFiniteSet(DOMAIN cache) /\ Cardinality(DOMAIN cache) <= max_entries
  /\ \A k \in DOMAIN cache : EntryOK(cache[k], n, given)
  /\ \A k, l \in DOMAIN cache : k # l => Ids(cache[k]) \intersect Ids(cache[l]) = {}

\* The inductive invariant of the cache.
CacheInv ==
  /\ inserted \in Nat /\ now \in Nat /\ handed \subseteq 1 .. inserted
  /\ CacheOK(cache_, inserted, handed)

\* A slot without a session is the one with the number 0.
LEMMA SlotFacts ==
  /\ nullptr.id = 0
  /\ \A s \in Slot : s.id \in Nat /\ (s # nullptr <=> s.id # 0) /\ (s # nullptr <=> s \in Session)
  BY DEF Slot, Session, nullptr

\* An entry is a pair of slots.
LEMMA EntryFacts ==
  ASSUME NEW a \in Slot, NEW b \in Slot
  PROVE  <<a, b>> \in Entry /\ <<a, b>>[1] = a /\ <<a, b>>[2] = b
  BY DEF Entry

\* And every pair is made of its slots.
LEMMA Slots ==
  ASSUME NEW e \in Entry
  PROVE  e[1] \in Slot /\ e[2] \in Slot /\ e = <<e[1], e[2]>>
  BY DEF Entry

\* An entry is its two slots.
LEMMA Filled ==
  ASSUME NEW n, NEW given, NEW a, SlotOK(a, n, given), NEW b, SlotOK(b, n, given),
         a # nullptr, a.id # b.id
  PROVE  EntryOK(<<a, b>>, n, given) /\ Ids(<<a, b>>) = {a.id, b.id} \ {0}
  BY EntryFacts DEF EntryOK, SlotOK, Ids

\* The empty slot is sound.
LEMMA EmptySlot == ASSUME NEW n, NEW given PROVE SlotOK(nullptr, n, given)
  BY DEF SlotOK, Slot

\* ExpireSessions on an entry it does not delete.
LEMMA ExpiredOK ==
  ASSUME NEW e, NEW n, NEW given, EntryOK(e, n, given), NEW t
  PROVE  EntryOK(Expired(e, t), n, given) /\ Ids(Expired(e, t)) \subseteq Ids(e)
  <1>1. CASE Expired(e, t) = e BY <1>1
  <1>2. CASE Expired(e, t) = <<e[1], nullptr>>
    <2>1. SlotOK(e[1], n, given) /\ SlotOK(nullptr, n, given) /\ e[1] # nullptr BY EmptySlot DEF EntryOK
    <2>2. e[1].id # nullptr.id BY <2>1, SlotFacts DEF SlotOK
    <2>3. EntryOK(<<e[1], nullptr>>, n, given) /\ Ids(<<e[1], nullptr>>) = {e[1].id, nullptr.id} \ {0}
      BY <2>1, <2>2, Filled
    <2> QED BY <1>2, <2>3, SlotFacts DEF Ids
  <1> QED BY <1>1, <1>2 DEF Expired

\* A sound slot stays sound when others are inserted or handed out.
LEMMA SlotStays ==
  ASSUME NEW s, NEW n \in Nat, NEW given, SlotOK(s, n, given), NEW m \in Nat, n <= m,
         NEW more, s.id \in more => s.id \in given
  PROVE  SlotOK(s, m, more)
  <1>1. s.id \in Nat BY SlotFacts DEF SlotOK
  <1> QED BY <1>1 DEF SlotOK

\* So does a sound entry.
LEMMA EntryStays ==
  ASSUME NEW e, NEW n \in Nat, NEW given, EntryOK(e, n, given), NEW m \in Nat, n <= m,
         NEW more, 0 \notin more, more \intersect Ids(e) \subseteq given
  PROVE  EntryOK(e, m, more)
  <1>1. (e[1].id \in more => e[1].id \in given) /\ (e[2].id \in more => e[2].id \in given) BY DEF Ids
  <1>2. SlotOK(e[1], m, more) /\ SlotOK(e[2], m, more) BY <1>1, SlotStays DEF EntryOK
  <1> QED BY <1>2 DEF EntryOK

\* Pop: what is left of an entry is sound, also once the session popped was
\* handed out, unless it is empty.
LEMMA PoppedOK ==
  ASSUME NEW e, NEW n \in Nat, NEW given, EntryOK(e, n, given), Popped(e)[1] # nullptr,
         NEW more, more \subseteq given \union {e[1].id}
  PROVE  EntryOK(Popped(e), n, more) /\ Ids(Popped(e)) \subseteq Ids(e)
  <1>0. /\ e[1] \in Slot /\ e[2] \in Slot /\ e = <<e[1], e[2]>> /\ e[1] # nullptr /\ e[1].id # e[2].id
        /\ SlotOK(e[1], n, given) /\ SlotOK(e[2], n, given)
    BY Slots DEF EntryOK, Slot
  <1>1. SlotOK(e[2], n, more) BY <1>0, SlotStays
  <1>2. CASE e[1].single_use
    <2>1. Popped(e) = <<e[2], nullptr>> BY <1>0, <1>2 DEF Popped
    <2>2. e[2] # nullptr /\ e[2].id # nullptr.id BY <1>0, <2>1, SlotFacts
    <2>3. SlotOK(nullptr, n, more) BY EmptySlot
    <2>4. EntryOK(<<e[2], nullptr>>, n, more) /\ Ids(<<e[2], nullptr>>) = {e[2].id, nullptr.id} \ {0}
      BY <1>1, <2>2, <2>3, Filled
    <2> QED BY <2>1, <2>4, SlotFacts DEF Ids
  <1>3. CASE ~e[1].single_use
    <2>1. Popped(e) = e BY <1>3 DEF Popped
    <2>2. SlotOK(e[1], n, more) BY <1>0, <1>3 DEF SlotOK
    <2>3. EntryOK(e, n, more) BY <1>0, <1>1, <2>2 DEF EntryOK
    <2> QED BY <2>1, <2>3
  <1> QED BY <1>2, <1>3

\* Push: the new session has a number no session of the cache has.
LEMMA PushOK ==
  ASSUME NEW e, NEW n \in Nat, NEW given, given \subseteq 1 .. n, NEW s \in Session, s.id = n + 1,
         EntryOK(e, n, given) \/ e = <<nullptr, nullptr>>
  PROVE  EntryOK(Push(e, s), n + 1, given) /\ Ids(Push(e, s)) \subseteq Ids(e) \union {n + 1}
  <1>0. SlotOK(e[1], n, given) /\ SlotOK(e[2], n, given)
    <2>1. SlotOK(nullptr, n, given) BY EmptySlot
    <2> QED BY <2>1 DEF EntryOK
  <1>1. s \in Slot /\ s # nullptr /\ SlotOK(s, n + 1, given)
    <2>1. s \in Slot BY DEF Slot
    <2>2. s # nullptr BY <2>1, SlotFacts
    <2>3. s.id <= n + 1 /\ s.id \notin given OBVIOUS
    <2> QED BY <2>1, <2>2, <2>3 DEF SlotOK
  <1>2. ASSUME NEW b, b = e[1] \/ b = e[2], Push(e, s) = <<s, b>>
        PROVE  EntryOK(Push(e, s), n + 1, given) /\ Ids(Push(e, s)) \subseteq Ids(e) \union {n + 1}
    <2>1. SlotOK(b, n, given) BY <1>0, <1>2
    <2>2. b.id \in Nat /\ b.id <= n BY <2>1, SlotFacts DEF SlotOK
    <2>3. s.id # b.id BY <2>2
    <2>4. SlotOK(b, n + 1, given) BY <2>1, SlotStays
    <2>5. EntryOK(<<s, b>>, n + 1, given) /\ Ids(<<s, b>>) = {s.id, b.id} \ {0}
      BY <1>1, <2>3, <2>4, Filled
    <2> QED BY <1>2, <2>5 DEF Ids
  <1> QED BY <1>2 DEF Push

\* ClearEarlyData keeps the sessions and what they are for.
LEMMA ClearedOK ==
  ASSUME NEW e, NEW n, NEW given, EntryOK(e, n, given)
  PROVE  LET d == <<WithoutEarlyData(e[1]), WithoutEarlyData(e[2])>> IN
         EntryOK(d, n, given) /\ Ids(d) \subseteq Ids(e)
  <1> DEFINE a == WithoutEarlyData(e[1])
             b == WithoutEarlyData(e[2])
  <1>0. e[1] \in Slot /\ e[2] \in Slot BY Slots DEF EntryOK
  <1>1. ASSUME NEW s \in Slot
        PROVE  /\ WithoutEarlyData(s) \in Slot /\ WithoutEarlyData(s).id = s.id
               /\ s # nullptr => WithoutEarlyData(s).single_use = s.single_use
    <2>1. CASE s = nullptr BY <2>1 DEF WithoutEarlyData, Slot
    <2>2. CASE s # nullptr
      <3>1. s \in Session BY <2>2, SlotFacts
      <3>2. WithoutEarlyData(s) = [s EXCEPT !.early = FALSE] BY <2>2 DEF WithoutEarlyData
      <3>3. [s EXCEPT !.early = FALSE] \in Session BY <3>1 DEF Session
      <3>4. [s EXCEPT !.early = FALSE].id = s.id /\ [s EXCEPT !.early = FALSE].single_use = s.single_use
        BY <3>1 DEF Session
      <3> QED BY <3>2, <3>3, <3>4 DEF Slot
    <2> QED BY <2>1, <2>2
  <1>2. a \in Slot /\ b \in Slot /\ a.id = e[1].id /\ b.id = e[2].id BY <1>0, <1>1
  <1>3. (e[1] # nullptr => a.single_use = e[1].single_use) /\ (e[2] # nullptr => b.single_use = e[2].single_use)
    BY <1>0, <1>1
  <1> HIDE DEF a, b
  <1>4. (a # nullptr <=> e[1] # nullptr) /\ (b # nullptr <=> e[2] # nullptr) BY <1>0, <1>2, SlotFacts
  <1>6. SlotOK(a, n, given) /\ SlotOK(b, n, given) BY <1>2, <1>3, <1>4 DEF EntryOK, SlotOK
  <1>7. a # nullptr /\ a.id # b.id BY <1>2, <1>4 DEF EntryOK
  <1>5. EntryOK(<<a, b>>, n, given) /\ Ids(<<a, b>>) = {a.id, b.id} \ {0}
    BY <1>6, <1>7, Filled
  <1> QED BY <1>2, <1>5 DEF Ids, a, b

-----------------------------------------------------------------------------
(* The cache. *)

\* Entries go, or lose sessions.
LEMMA SubCache ==
  ASSUME NEW cache, NEW n \in Nat, NEW given, CacheOK(cache, n, given), NEW d, NEW more,
         DOMAIN d \subseteq DOMAIN cache,
         \A k \in DOMAIN d : EntryOK(d[k], n, more) /\ Ids(d[k]) \subseteq Ids(cache[k])
  PROVE  CacheOK(d, n, more)
  <1>1. IsFiniteSet(DOMAIN d) /\ Cardinality(DOMAIN d) <= max_entries
    <2>1. IsFiniteSet(DOMAIN cache) /\ Cardinality(DOMAIN cache) <= max_entries BY DEF CacheOK
    <2>2. IsFiniteSet(DOMAIN d) /\ Cardinality(DOMAIN d) <= Cardinality(DOMAIN cache) BY <2>1, FS_Subset
    <2>3. Cardinality(DOMAIN d) \in Nat /\ Cardinality(DOMAIN cache) \in Nat BY <2>1, <2>2, FS_CardinalityType
    <2> QED BY <2>1, <2>2, <2>3, EntriesAssumption
  <1>2. \A k, l \in DOMAIN d : k # l => Ids(d[k]) \intersect Ids(d[l]) = {} BY DEF CacheOK
  <1> QED BY <1>1, <1>2 DEF CacheOK

\* Of what was handed out since, nothing is in another entry.
Apart(cache, key, given, more) ==
  \A k \in DOMAIN cache \ {key} : more \intersect Ids(cache[k]) \subseteq given

\* The entry of a key is erased.
LEMMA WithoutOK ==
  ASSUME NEW cache, NEW n \in Nat, NEW given, CacheOK(cache, n, given), NEW key, NEW more, 0 \notin more,
         Apart(cache, key, given, more)
  PROVE  CacheOK(Without(cache, key), n, more)
  <1> DEFINE d == Without(cache, key)
  <1>1. DOMAIN d = DOMAIN cache \ {key} /\ \A k \in DOMAIN d : d[k] = cache[k] BY DEF Without
  <1> HIDE DEF d
  <1>2. ASSUME NEW k \in DOMAIN d PROVE EntryOK(d[k], n, more) /\ Ids(d[k]) \subseteq Ids(cache[k])
    <2>1. EntryOK(cache[k], n, given) BY <1>1 DEF CacheOK
    <2>2. more \intersect Ids(cache[k]) \subseteq given BY <1>1 DEF Apart
    <2>3. EntryOK(cache[k], n, more) BY <2>1, <2>2, EntryStays
    <2> QED BY <1>1, <2>3
  <1>3. CacheOK(d, n, more) BY <1>1, <1>2, SubCache
  <1> QED BY <1>3 DEF d

\* The entry of a key is set.
LEMMA WithOK ==
  ASSUME NEW cache, NEW n \in Nat, NEW given, CacheOK(cache, n, given), NEW m \in Nat, n <= m,
         NEW key, NEW more, 0 \notin more, Apart(cache, key, given, more),
         key \in DOMAIN cache \/ Cardinality(DOMAIN cache) < max_entries,
         NEW e, EntryOK(e, m, more),
         \A k \in DOMAIN cache \ {key} : Ids(e) \intersect Ids(cache[k]) = {}
  PROVE  CacheOK(With(cache, key, e), m, more)
  <1> DEFINE d == With(cache, key, e)
  <1>1. DOMAIN d = DOMAIN cache \union {key} BY DEF With
  <1>2. d[key] = e /\ \A k \in DOMAIN cache \ {key} : d[k] = cache[k] BY DEF With
  <1> HIDE DEF d
  <1>3. IsFiniteSet(DOMAIN d) /\ Cardinality(DOMAIN d) <= max_entries
    <2>1. IsFiniteSet(DOMAIN cache) /\ Cardinality(DOMAIN cache) <= max_entries BY DEF CacheOK
    <2>2. Cardinality(DOMAIN cache) \in Nat BY <2>1, FS_CardinalityType
    <2>3. CASE key \in DOMAIN cache
      <3>1. DOMAIN d = DOMAIN cache BY <1>1, <2>3
      <3> QED BY <2>1, <3>1
    <2>4. CASE key \notin DOMAIN cache
      <3>1. IsFiniteSet(DOMAIN d) /\ Cardinality(DOMAIN d) = Cardinality(DOMAIN cache) + 1
        BY <1>1, <2>1, <2>4, FS_AddElement
      <3> QED BY <2>2, <2>4, <3>1, EntriesAssumption
    <2> QED BY <2>3, <2>4
  <1>4. ASSUME NEW k \in DOMAIN d PROVE EntryOK(d[k], m, more)
    <2>1. CASE k = key BY <1>2, <2>1
    <2>2. CASE k # key
      <3>1. EntryOK(cache[k], n, given) BY <1>1, <2>2 DEF CacheOK
      <3>2. more \intersect Ids(cache[k]) \subseteq given BY <1>1, <2>2 DEF Apart
      <3>3. EntryOK(cache[k], m, more) BY <3>1, <3>2, EntryStays
      <3> QED BY <1>1, <1>2, <2>2, <3>3
    <2> QED BY <2>1, <2>2
  <1>5. ASSUME NEW k \in DOMAIN d, NEW l \in DOMAIN d, k # l
        PROVE  Ids(d[k]) \intersect Ids(d[l]) = {}
    BY <1>1, <1>2, <1>5 DEF CacheOK
  <1>6. CacheOK(d, m, more) BY <1>3, <1>4, <1>5 DEF CacheOK
  <1> QED BY <1>6 DEF d

\* FlushExpiredSessions.
LEMMA FlushOK ==
  ASSUME NEW cache, NEW n \in Nat, NEW given, CacheOK(cache, n, given), NEW t
  PROVE  CacheOK(FlushExpiredSessions(cache, t), n, given)
  <1> DEFINE d == FlushExpiredSessions(cache, t)
  <1>1. DOMAIN d \subseteq DOMAIN cache /\ \A k \in DOMAIN d : d[k] = Expired(cache[k], t)
    BY DEF FlushExpiredSessions
  <1> HIDE DEF d
  <1>2. ASSUME NEW k \in DOMAIN d PROVE EntryOK(d[k], n, given) /\ Ids(d[k]) \subseteq Ids(cache[k])
    <2>1. EntryOK(cache[k], n, given) BY <1>1 DEF CacheOK
    <2> QED BY <1>1, <2>1, ExpiredOK
  <1>3. CacheOK(d, n, given) BY <1>1, <1>2, SubCache
  <1> QED BY <1>3 DEF d

-----------------------------------------------------------------------------
(* The steps. *)

\* Lookup keeps the invariant: what it hands out is single-use and gone from the
\* cache, or may be handed out again.
LEMMA LookupStep ==
  ASSUME CacheInv, NEW key \in Keys, Lookup(key)
  PROVE  CacheInv'
  <1> DEFINE flush == lookups_since_flush_ + 1 >= expiration_check_count
             cache == IF flush THEN FlushExpiredSessions(cache_, now) ELSE cache_
  <1>0. inserted \in Nat /\ now \in Nat /\ handed \subseteq 1 .. inserted /\ CacheOK(cache_, inserted, handed)
    BY DEF CacheInv
  <1>1. CacheOK(cache, inserted, handed) BY <1>0, FlushOK
  <1>2. inserted' = inserted /\ now' = now BY DEF Lookup
  <1>3. \/ cache_' = cache /\ handed' = handed
        \/ /\ key \in DOMAIN cache
           /\ cache_' = IF Deletable(Popped(cache[key]), now)
                          THEN Without(cache, key)
                          ELSE With(cache, key, Expired(Popped(cache[key]), now))
           /\ handed' = IF cache[key][1] = nullptr \/ IsExpired(cache[key][1], now)
                          THEN handed
                          ELSE handed \union {cache[key][1].id}
    BY DEF Lookup, Holds
  <1> HIDE DEF cache
  <1>4. CASE cache_' = cache /\ handed' = handed
    BY <1>0, <1>1, <1>2, <1>4 DEF CacheInv
  <1>5. CASE /\ key \in DOMAIN cache
             /\ cache_' = IF Deletable(Popped(cache[key]), now)
                            THEN Without(cache, key)
                            ELSE With(cache, key, Expired(Popped(cache[key]), now))
             /\ handed' = IF cache[key][1] = nullptr \/ IsExpired(cache[key][1], now)
                            THEN handed
                            ELSE handed \union {cache[key][1].id}
    <2> DEFINE e == cache[key]
               left == Popped(e)
    <2>1. EntryOK(e, inserted, handed) BY <1>1, <1>5 DEF CacheOK
    <2>2. e[1].id \in 1 .. inserted /\ e[1].id \in Ids(e)
      <3>1. e[1].id \in Nat /\ e[1].id # 0 /\ e[1].id <= inserted BY <2>1, SlotFacts DEF EntryOK, SlotOK
      <3> QED BY <1>0, <3>1 DEF Ids
    <2>3. handed' = handed \/ handed' = handed \union {e[1].id} BY <1>5
    <2>4. handed' \subseteq 1 .. inserted /\ 0 \notin handed' /\ handed' \subseteq handed \union {e[1].id}
      <3> HIDE DEF e
      <3>1. handed' \subseteq handed \union {e[1].id} BY <2>3
      <3>2. handed' \subseteq 1 .. inserted BY <1>0, <2>2, <3>1
      <3>3. 0 \notin 1 .. inserted BY <1>0
      <3> QED BY <3>1, <3>2, <3>3
    <2>5. Apart(cache, key, handed, handed')
      <3>1. \A k \in DOMAIN cache \ {key} : Ids(cache[k]) \intersect Ids(e) = {} BY <1>1, <1>5 DEF CacheOK
      <3> HIDE DEF e
      <3> QED BY <2>2, <2>4, <3>1 DEF Apart
    <2>6. CASE Deletable(left, now)
      <3>1. cache_' = Without(cache, key) BY <1>5, <2>6
      <3>2. CacheOK(cache_', inserted, handed') BY <1>0, <1>1, <2>4, <2>5, <3>1, WithoutOK
      <3> QED BY <1>0, <1>2, <2>4, <3>2 DEF CacheInv
    <2>7. CASE ~Deletable(left, now)
      <3>1. cache_' = With(cache, key, Expired(left, now)) BY <1>5, <2>7
      <3>2. left[1] # nullptr BY <2>7 DEF Deletable
      <3>3. EntryOK(left, inserted, handed') /\ Ids(left) \subseteq Ids(e)
        BY <1>0, <2>1, <2>4, <3>2, PoppedOK
      <3>4. EntryOK(Expired(left, now), inserted, handed') /\ Ids(Expired(left, now)) \subseteq Ids(left)
        BY <3>3, ExpiredOK
      <3>5. \A k \in DOMAIN cache \ {key} : Ids(Expired(left, now)) \intersect Ids(cache[k]) = {}
        <4>1. \A k \in DOMAIN cache \ {key} : Ids(cache[k]) \intersect Ids(e) = {} BY <1>1, <1>5 DEF CacheOK
        <4> HIDE DEF e, left
        <4> QED BY <3>3, <3>4, <4>1
      <3> DEFINE x == Expired(left, now)
      <3> HIDE DEF x
      <3>6. EntryOK(x, inserted, handed') /\ cache_' = With(cache, key, x)
            /\ \A k \in DOMAIN cache \ {key} : Ids(x) \intersect Ids(cache[k]) = {}
        BY <3>1, <3>4, <3>5 DEF x
      <3>7. CacheOK(cache_', inserted, handed') BY <1>0, <1>1, <1>5, <2>4, <2>5, <3>6, WithOK
      <3> QED BY <1>0, <1>2, <2>4, <3>7 DEF CacheInv
    <2> QED BY <2>6, <2>7
  <1> QED BY <1>3, <1>4, <1>5

\* Insert keeps the invariant, also when it evicts an entry.
LEMMA InsertStep ==
  ASSUME CacheInv, NEW key \in Keys, NEW single_use \in BOOLEAN, Insert(key, single_use)
  PROVE  CacheInv'
  <1> DEFINE s == [id |-> inserted + 1, single_use |-> single_use, early |-> TRUE, time |-> now]
             none == <<nullptr, nullptr>>
  <1>0. inserted \in Nat /\ now \in Nat /\ handed \subseteq 1 .. inserted /\ CacheOK(cache_, inserted, handed)
    BY DEF CacheInv
  <1>1. inserted' = inserted + 1 /\ now' = now /\ handed' = handed BY DEF Insert
  <1>2. s \in Session /\ s.id = inserted + 1 BY <1>0 DEF Session
  <1>3. IF key \in DOMAIN cache_ THEN cache_' = With(cache_, key, Push(cache_[key], s))
                                  ELSE cache_' \in Put(cache_, key, Push(none, s))
    BY DEF Insert, Holds
  <1> HIDE DEF s, none
  <1>4. 0 \notin handed /\ \A c : Apart(c, key, handed, handed) BY <1>0 DEF Apart
  <1>5. \A c : CacheOK(c, inserted, handed) => \A k \in DOMAIN c : inserted + 1 \notin Ids(c[k])
    <2> SUFFICES ASSUME NEW c, CacheOK(c, inserted, handed), NEW k \in DOMAIN c
                 PROVE  inserted + 1 \notin Ids(c[k])
      OBVIOUS
    <2>1. EntryOK(c[k], inserted, handed) BY DEF CacheOK
    <2>2. /\ c[k][1] \in Slot /\ (c[k][1] # nullptr => c[k][1].id <= inserted)
          /\ c[k][2] \in Slot /\ (c[k][2] # nullptr => c[k][2].id <= inserted)
      BY <2>1 DEF EntryOK, SlotOK
    <2> QED BY <1>0, <2>2, SlotFacts DEF Ids
  <1>6. CASE key \in DOMAIN cache_
    <2> DEFINE e == Push(cache_[key], s)
    <2>1. EntryOK(cache_[key], inserted, handed) BY <1>0, <1>6 DEF CacheOK
    <2>2. EntryOK(e, inserted + 1, handed) /\ Ids(e) \subseteq Ids(cache_[key]) \union {inserted + 1}
      BY <1>0, <1>2, <2>1, PushOK
    <2>3. cache_' = With(cache_, key, e) BY <1>3, <1>6
    <2> HIDE DEF e
    <2>4. \A k \in DOMAIN cache_ \ {key} : Ids(e) \intersect Ids(cache_[k]) = {}
      <3>1. \A k \in DOMAIN cache_ \ {key} : Ids(cache_[key]) \intersect Ids(cache_[k]) = {}
        BY <1>0, <1>6 DEF CacheOK
      <3>2. \A k \in DOMAIN cache_ : inserted + 1 \notin Ids(cache_[k]) BY <1>0, <1>5
      <3> QED BY <2>2, <3>1, <3>2
    <2>5. Apart(cache_, key, handed, handed) BY <1>4
    <2>6. inserted + 1 \in Nat /\ inserted <= inserted + 1 BY <1>0
    <2>7. CacheOK(cache_', inserted + 1, handed) BY <1>0, <1>4, <1>6, <2>2, <2>3, <2>4, <2>5, <2>6, WithOK
    <2> QED BY <1>0, <1>1, <2>7 DEF CacheInv
  <1>7. CASE key \notin DOMAIN cache_
    <2> DEFINE e == Push(none, s)
    <2>1. EntryOK(e, inserted + 1, handed) /\ Ids(e) \subseteq Ids(none) \union {inserted + 1}
      <3>1. none = <<nullptr, nullptr>> BY DEF none
      <3> QED BY <1>0, <1>2, <3>1, PushOK
    <2>2. Ids(e) \subseteq {inserted + 1}
      <3>1. Ids(none) = {} BY SlotFacts DEF Ids, none
      <3> QED BY <2>1, <3>1
    <2>3. cache_' \in Put(cache_, key, e) BY <1>3, <1>7
    <2> HIDE DEF e
    <2>4. \E c : /\ cache_' = With(c, key, e) /\ CacheOK(c, inserted, handed)
                 /\ Cardinality(DOMAIN c) < max_entries
      <3>1. CASE Cardinality(DOMAIN cache_) < max_entries
        <4>1. cache_' = With(cache_, key, e) BY <2>3, <3>1 DEF Put
        <4> QED BY <1>0, <3>1, <4>1
      <3>2. CASE ~(Cardinality(DOMAIN cache_) < max_entries)
        <4>1. PICK least \in DOMAIN cache_ : cache_' = With(Without(cache_, least), key, e)
          BY <2>3, <3>2 DEF Put
        <4>2. Apart(cache_, least, handed, handed) BY DEF Apart
        <4>3. CacheOK(Without(cache_, least), inserted, handed) BY <1>0, <1>4, <4>2, WithoutOK
        <4>4. DOMAIN Without(cache_, least) = DOMAIN cache_ \ {least} BY DEF Without
        <4>5. IsFiniteSet(DOMAIN cache_) /\ Cardinality(DOMAIN cache_) <= max_entries BY <1>0 DEF CacheOK
        <4>6. Cardinality(DOMAIN cache_ \ {least}) = Cardinality(DOMAIN cache_) - 1
          BY <4>5, FS_RemoveElement
        <4>7. Cardinality(DOMAIN cache_) \in Nat BY <4>5, FS_CardinalityType
        <4>8. Cardinality(DOMAIN Without(cache_, least)) < max_entries
          BY <4>4, <4>5, <4>6, <4>7, EntriesAssumption
        <4> QED BY <4>1, <4>3, <4>8
      <3> QED BY <3>1, <3>2
    <2>5. PICK c : cache_' = With(c, key, e) /\ CacheOK(c, inserted, handed) /\ Cardinality(DOMAIN c) < max_entries
      BY <2>4
    <2>6. \A k \in DOMAIN c \ {key} : Ids(e) \intersect Ids(c[k]) = {} BY <1>5, <2>2, <2>5
    <2>7. Apart(c, key, handed, handed) BY <1>4
    <2>8. inserted + 1 \in Nat /\ inserted <= inserted + 1 BY <1>0
    <2>9. CacheOK(cache_', inserted + 1, handed) BY <1>0, <1>4, <2>1, <2>5, <2>6, <2>7, <2>8, WithOK
    <2> QED BY <1>0, <1>1, <2>9 DEF CacheInv
  <1> QED BY <1>6, <1>7

\* ClearEarlyData keeps the invariant.
LEMMA ClearStep ==
  ASSUME CacheInv, NEW key \in Keys, ClearEarlyData(key)
  PROVE  CacheInv'
  <1> DEFINE e == <<WithoutEarlyData(cache_[key][1]), WithoutEarlyData(cache_[key][2])>>
  <1>0. inserted \in Nat /\ now \in Nat /\ handed \subseteq 1 .. inserted /\ CacheOK(cache_, inserted, handed)
    BY DEF CacheInv
  <1>1. /\ key \in DOMAIN cache_ /\ cache_' = With(cache_, key, e)
        /\ inserted' = inserted /\ now' = now /\ handed' = handed
    BY DEF ClearEarlyData, Holds
  <1>2. EntryOK(cache_[key], inserted, handed) BY <1>0, <1>1 DEF CacheOK
  <1>3. EntryOK(e, inserted, handed) /\ Ids(e) \subseteq Ids(cache_[key]) BY <1>2, ClearedOK
  <1> HIDE DEF e
  <1>4. \A k \in DOMAIN cache_ \ {key} : Ids(e) \intersect Ids(cache_[k]) = {}
    BY <1>0, <1>1, <1>3 DEF CacheOK
  <1>5. 0 \notin handed /\ Apart(cache_, key, handed, handed) BY <1>0 DEF Apart
  <1>6. CacheOK(cache_', inserted, handed) BY <1>0, <1>1, <1>3, <1>4, <1>5, WithOK
  <1> QED BY <1>0, <1>1, <1>6 DEF CacheInv

\* The invariant holds of the empty cache.
LEMMA CacheInitOK == CacheInit => CacheInv
  <1> SUFFICES ASSUME CacheInit PROVE CacheInv OBVIOUS
  <1>1. cache_ = NoEntries /\ inserted = 0 /\ handed = {} /\ now \in Nat BY DEF CacheInit
  <1>2. DOMAIN cache_ = {} BY <1>1 DEF NoEntries
  <1>3. IsFiniteSet(DOMAIN cache_) /\ Cardinality(DOMAIN cache_) <= max_entries
    BY <1>2, FS_EmptySet, EntriesAssumption
  <1>4. CacheOK(cache_, inserted, handed) BY <1>2, <1>3 DEF CacheOK
  <1> QED BY <1>1, <1>4 DEF CacheInv

\* Every step of the cache keeps it.
LEMMA CacheStepOK == CacheInv /\ [CacheNext]_cacheVars => CacheInv'
  <1> SUFFICES ASSUME CacheInv, [CacheNext]_cacheVars PROVE CacheInv' OBVIOUS
  <1>1. CASE UNCHANGED cacheVars BY <1>1 DEF cacheVars, CacheInv
  <1>2. ASSUME NEW key \in Keys, Lookup(key) PROVE CacheInv' BY <1>2, LookupStep
  <1>3. ASSUME NEW key \in Keys, ClearEarlyData(key) PROVE CacheInv' BY <1>3, ClearStep
  <1>4. ASSUME NEW key \in Keys, NEW single_use \in BOOLEAN, Insert(key, single_use) PROVE CacheInv'
    BY <1>4, InsertStep
  <1>5. CASE Clock BY <1>5 DEF Clock, CacheInv
  <1> QED BY <1>1, <1>2, <1>3, <1>4, <1>5 DEF CacheNext

\* SSLClientSessionCache: however lookups, insertions, evictions, flushes and
\* settings of the clock follow each other, a single-use session goes to one
\* connection at most, no entry without a session is left for Lookup to find, and
\* the cache keeps its limit.
THEOREM CacheCorrect == CacheSpec => []CacheSound
  <1>1. CacheInv => CacheSound
    <2> SUFFICES ASSUME CacheInv PROVE CacheSound OBVIOUS
    <2>0. CacheOK(cache_, inserted, handed) BY DEF CacheInv
    <2>1. EntriesFilled BY <2>0 DEF CacheOK, EntryOK, EntriesFilled
    <2>2. SingleUseOnce
      <3> SUFFICES ASSUME NEW key \in DOMAIN cache_, NEW i \in 1 .. 2, cache_[key][i] # nullptr
                   PROVE  /\ cache_[key][i].single_use => cache_[key][i].id \notin handed
                          /\ \A k \in DOMAIN cache_, j \in 1 .. 2 :
                               cache_[k][j].id = cache_[key][i].id => k = key /\ j = i
        BY DEF SingleUseOnce
      <3>1. ASSUME NEW k \in DOMAIN cache_, NEW j \in 1 .. 2
            PROVE  /\ SlotOK(cache_[k][j], inserted, handed) /\ cache_[k][j] \in Slot
                   /\ cache_[k][j].id # 0 => cache_[k][j].id \in Ids(cache_[k])
        <4>1. EntryOK(cache_[k], inserted, handed) BY <2>0 DEF CacheOK
        <4>2. j = 1 \/ j = 2 OBVIOUS
        <4> QED BY <4>1, <4>2 DEF EntryOK, SlotOK, Ids
      <3>2. cache_[key][i].single_use => cache_[key][i].id \notin handed BY <3>1 DEF SlotOK
      <3>3. cache_[key][i].id # 0 BY <3>1, SlotFacts
      <3>4. ASSUME NEW k \in DOMAIN cache_, NEW j \in 1 .. 2, cache_[k][j].id = cache_[key][i].id
            PROVE  k = key /\ j = i
        <4>1. cache_[k][j].id \in Ids(cache_[k]) /\ cache_[k][j].id \in Ids(cache_[key])
          BY <3>1, <3>3, <3>4
        <4>2. k = key BY <2>0, <4>1 DEF CacheOK
        <4>3. cache_[key][1].id # cache_[key][2].id BY <2>0 DEF CacheOK, EntryOK
        <4> QED BY <3>4, <4>2, <4>3
      <3> QED BY <3>2, <3>4
    <2> QED BY <2>1, <2>2 DEF CacheSound
  <1> QED BY <1>1, CacheInitOK, CacheStepOK, PTL DEF CacheSpec

-----------------------------------------------------------------------------
(* ALPN. *)

\* The cipher of a connection is the listener's, or https where the listener
\* allows HTTP/1.1.
CipherOK(x) ==
  /\ x \in {"http2", "https"}
  /\ x = "http2" => cipher = "http2"
  /\ x = "https" => cipher = "https" \/ renego_allowed_for_http11_proto

\* The inductive invariant of the listener.
AlpnInv ==
  /\ next_connection_id_ \in Nat /\ alpn_arg \in 0 .. MaxConnections
  /\ local_cipher_ \in [Connections -> {"http2", "https"}] /\ DOMAIN negotiated = Connections
  /\ \A c \in Connections : CipherOK(local_cipher_[c])
  /\ NegotiatedSupported

\* It holds before the first accept.
LEMMA AlpnInitOK == AlpnInit => AlpnInv
  <1> SUFFICES ASSUME AlpnInit PROVE AlpnInv OBVIOUS
  <1>1. next_connection_id_ \in Nat /\ alpn_arg \in 0 .. MaxConnections BY ConnectionsAssumption DEF AlpnInit
  <1>2. local_cipher_ \in [Connections -> {"http2", "https"}] /\ DOMAIN negotiated = Connections
    BY CipherAssumption DEF AlpnInit
  <1>3. \A c \in Connections : local_cipher_[c] = cipher /\ negotiated[c] = "unknown" BY DEF AlpnInit
  <1>4. \A c \in Connections : CipherOK(local_cipher_[c]) BY <1>3, CipherAssumption DEF CipherOK
  <1> QED BY <1>1, <1>2, <1>3, <1>4 DEF AlpnInv, NegotiatedSupported

\* A ClientHello keeps it, whichever connection the callback finds.
LEMMA HelloStep ==
  ASSUME AlpnInv, NEW c \in Connections, client_hello(c)
  PROVE  AlpnInv'
  <1>0. next_connection_id_' = next_connection_id_ /\ alpn_arg' = alpn_arg BY DEF client_hello
  <1>1. PICK offer \in Offers, found \in Found :
          LET good == {i \in DOMAIN offer : found # 0 /\ Selects(found, offer[i])} IN
          \/ UNCHANGED <<selected_proto_, local_cipher_, negotiated>>
          \/ \E i \in good :
               /\ negotiated' = [negotiated EXCEPT ![c] = offer[i]]
               /\ local_cipher_' = [local_cipher_ EXCEPT
                    ![found] = IF offer[i] = "http/1.1" THEN "https" ELSE @]
    BY DEF client_hello
  <1>2. CASE UNCHANGED <<selected_proto_, local_cipher_, negotiated>>
    BY <1>0, <1>2 DEF AlpnInv, NegotiatedSupported
  <1>3. ASSUME NEW p, found # 0, Selects(found, p), negotiated' = [negotiated EXCEPT ![c] = p],
               local_cipher_' = [local_cipher_ EXCEPT ![found] = IF p = "http/1.1" THEN "https" ELSE @]
        PROVE  AlpnInv'
    <2>1. found \in Connections
      <3>1. found = alpn_arg \/ found \in Connections BY <1>3 DEF Found
      <3> QED BY <1>3, <3>1 DEF AlpnInv, Connections
    <2>2. CipherOK(local_cipher_[found]) BY <2>1 DEF AlpnInv
    <2>3. /\ p = "h2" => cipher = "http2"
          /\ p = "http/1.1" => cipher = "https" \/ renego_allowed_for_http11_proto
      BY <1>3, <2>2 DEF Selects, CipherOK
    <2>4. NegotiatedSupported'
      <3>1. \A k \in Connections : negotiated'[k] = IF k = c THEN p ELSE negotiated[k]
        BY <1>3 DEF AlpnInv
      <3> QED BY <2>3, <3>1 DEF AlpnInv, NegotiatedSupported
    <2>5. /\ local_cipher_' \in [Connections -> {"http2", "https"}]
          /\ \A k \in Connections :
               \/ local_cipher_'[k] = local_cipher_[k]
               \/ p = "http/1.1" /\ local_cipher_'[k] = "https"
      BY <1>3 DEF AlpnInv
    <2>6. \A k \in Connections : CipherOK(local_cipher_'[k]) BY <2>3, <2>5 DEF AlpnInv, CipherOK
    <2>7. DOMAIN negotiated' = Connections BY <1>3 DEF AlpnInv
    <2> QED BY <1>0, <2>4, <2>5, <2>6, <2>7 DEF AlpnInv, CipherOK
  <1> QED BY <1>1, <1>2, <1>3

\* Every step keeps it.
LEMMA AlpnStepOK == AlpnInv /\ [AlpnNext]_alpnVars => AlpnInv'
  <1> SUFFICES ASSUME AlpnInv, [AlpnNext]_alpnVars PROVE AlpnInv' OBVIOUS
  <1>1. CASE UNCHANGED alpnVars BY <1>1 DEF alpnVars, AlpnInv, NegotiatedSupported, CipherOK
  <1>2. CASE on_async_accept
    <2>1. /\ next_connection_id_' \in Nat /\ alpn_arg' \in 0 .. MaxConnections
          /\ local_cipher_' = local_cipher_ /\ negotiated' = negotiated
      BY <1>2, ConnectionsAssumption DEF on_async_accept, AlpnInv
    <2> QED BY <2>1 DEF AlpnInv, NegotiatedSupported, CipherOK
  <1>3. ASSUME NEW c \in Connections, client_hello(c) PROVE AlpnInv' BY <1>3, HelloStep
  <1>4. ASSUME NEW c \in Connections, client_hello_without_alpn(c) \/ on_tlsext_mismatch(c) \/ on_disconnect(c)
        PROVE  AlpnInv'
    BY <1>4 DEF client_hello_without_alpn, on_tlsext_mismatch, on_disconnect, AlpnInv, NegotiatedSupported, CipherOK
  <1> QED BY <1>1, <1>2, <1>3, <1>4 DEF AlpnNext

\* on_alpn_select: whichever connection the callback finds, no handshake comes out
\* with HTTP/2 on a listener without it, or with HTTP/1.1 where it is not allowed.
THEOREM AlpnCorrect == AlpnSpec => []NegotiatedSupported
  <1>1. AlpnInv => NegotiatedSupported BY DEF AlpnInv
  <1> QED BY <1>1, AlpnInitOK, AlpnStepOK, PTL DEF AlpnSpec

-----------------------------------------------------------------------------
(* The certificates a context trusts. *)

\* Where a certificate came from, and what a context of certificates may be.
Sources == {"system", "cacert", "capath", "yass_ca_bundle", "builtin", "supplementary"}
Context ==
  [ platform : Platforms,
    phase : {"ca_native", "cacert", "capath", "yass_ca_bundle", "system_extra", "builtin", "done", "end"},
    store : SUBSET (Certificates \X Sources), found : SUBSET RequiredRoots, refused : SUBSET CommonNames,
    loaded : BOOLEAN,
    ca_native : BOOLEAN, given : SUBSET {"cacert", "capath"},
    system : SystemStores, cacert : Bundles, capath : Bundles, yass_ca_bundle : Bundles, own : Embedded ]

\* What a certificate must be to be let in from a source.
Acceptable(platform, cert, from) ==
  /\ cert.active /\ cert.cn \notin Blacklisted
  /\ from = "system" /\ platform \in {"windows", "mac"} => cert.eku # "other"
  /\ from = "system" /\ platform = "mac" =>
       cert.is_ca /\ cert.user # Deny /\ (cert.admin = Deny => cert.user.there)
Sound(c) == \A e \in c.store : Acceptable(c.platform, e[1], e[2])

\* A root that is marked as found is there, or was refused.
There(c, cn) == cn \in c.refused \/ \E e \in c.store : e[1].cn = cn
FoundThere(c) == \A cn \in c.found : There(c, cn)

\* The sources are gone through in order: where the stores of a Mac were looked
\* at, the root its user trusts is there.
Trusts(c) == <<Overruled, "system">> \in c.store
InMac(c) == c.platform = "mac" /\ Overruled \in All(c)
Ordered(c) ==
  InMac(c) => /\ c.ca_native /\ c.phase # "ca_native" => Trusts(c)
              /\ c.phase = "builtin" => Trusts(c)
              /\ (\E e \in c.store : e[2] = "builtin") => Trusts(c)

\* At the end every required root is there that the program has in its time.
RootsIn(c) == \A cn \in RequiredRoots : HasInTime(c.own.supplementary, cn) => There(c, cn)

CaInv ==
  /\ ca \in Context /\ Sound(ca) /\ FoundThere(ca) /\ Ordered(ca)
  /\ ca.phase = "end" => RootsIn(ca)

\* What loading the certificates of a source does.
Loaded(c, certs, from, r) ==
  /\ r \in Context
  /\ r.platform = c.platform /\ r.phase = c.phase /\ r.ca_native = c.ca_native
  /\ r.system = c.system /\ r.loaded = c.loaded /\ r.own = c.own
  /\ c.store \subseteq r.store /\ c.refused \subseteq r.refused
  /\ \A e \in r.store : \/ e \in c.store
                        \/ e[1] \in certs /\ e[2] = from /\ Reaches(e[1])
  /\ \A cert \in certs : Reaches(cert) /\ cert.adds => <<cert, from>> \in r.store
  /\ \A cert \in certs : Reaches(cert) /\ ~cert.adds => cert.cn \in r.refused
  /\ FoundThere(c) => FoundThere(r)

\* And that it does.
LEMMA LoadAllIs ==
  ASSUME NEW c, c \in Context, NEW certs, certs \subseteq Certificates, NEW from, from \in Sources
  PROVE  Loaded(c, certs, from, LoadAll(c, certs, from))
<1> DEFINE reach == {cert \in certs : Reaches(cert)}
<1> DEFINE loaded == {cert \in reach : cert.adds}
<1> DEFINE refused == {cert \in reach : ~cert.adds}
<1> DEFINE st == c.store \cup {<<cert, from>> : cert \in loaded}
<1> DEFINE rf == c.refused \cup {cert.cn : cert \in refused}
<1> DEFINE fd == c.found \cup ({cert.cn : cert \in reach} \cap RequiredRoots)
<1> DEFINE r == LoadAll(c, certs, from)
<1>1. r = [c EXCEPT !.store = st, !.refused = rf, !.found = fd] BY DEF LoadAll
<1>2. st \in SUBSET (Certificates \X Sources) BY DEF Context
<1>3. fd \in SUBSET RequiredRoots BY DEF Context
<1>4. rf \in SUBSET CommonNames
  <2>1. \A cert \in refused : cert.cn \in CommonNames BY DEF Certificates
  <2> HIDE DEF refused
  <2> QED BY <2>1 DEF Context
<1>5. \A cert \in certs : /\ Reaches(cert) /\ cert.adds <=> cert \in loaded
                          /\ Reaches(cert) /\ ~cert.adds <=> cert \in refused
  OBVIOUS
<1>6. loaded \subseteq certs /\ reach = loaded \cup refused OBVIOUS
<1> HIDE DEF r
<1>7. r \in Context /\ r.store = st /\ r.found = fd /\ r.refused = rf
  <2> HIDE DEF st, fd, rf
  <2> QED BY <1>1, <1>2, <1>3, <1>4 DEF Context
<1>8. /\ r.platform = c.platform /\ r.phase = c.phase /\ r.ca_native = c.ca_native
      /\ r.system = c.system /\ r.loaded = c.loaded /\ r.own = c.own
  <2> HIDE DEF st, fd, rf
  <2> QED BY <1>1 DEF Context
<1> HIDE DEF loaded, refused, reach
<1>9. \A e \in r.store : e \in c.store \/ (e[1] \in loaded /\ e[2] = from) BY <1>7
<1>10. \A e \in r.store : \/ e \in c.store
                          \/ e[1] \in certs /\ e[2] = from /\ Reaches(e[1])
  BY <1>5, <1>6, <1>9
<1>11. \A cert \in loaded : <<cert, from>> \in r.store BY <1>7
<1>12. \A cert \in refused : cert.cn \in r.refused BY <1>7
<1>13. c.store \subseteq r.store /\ c.refused \subseteq r.refused BY <1>7
<1>14. ASSUME FoundThere(c) PROVE FoundThere(r)
  <2>1. SUFFICES ASSUME NEW cn \in r.found PROVE There(r, cn) BY DEF FoundThere
  <2>2. CASE cn \in c.found BY <1>13, <1>14, <2>2 DEF FoundThere, There
  <2>3. CASE \E cert \in reach : cn = cert.cn
    <3>1. PICK cert \in reach : cn = cert.cn BY <2>3
    <3>2. <<cert, from>>[1].cn = cn BY <3>1
    <3> QED BY <1>6, <1>11, <1>12, <3>1, <3>2 DEF There
  <2> QED BY <1>7, <2>2, <2>3
<1>15. Loaded(c, certs, from, r)
  BY <1>5, <1>7, <1>8, <1>10, <1>11, <1>12, <1>13, <1>14 DEF Loaded
<1> QED BY <1>15 DEF r

\* The first status of two that says something.
LEMMA FirstOfTwo ==
  ASSUME NEW a, NEW b
  PROVE  /\ a # "UNSPECIFIED" => FirstSpecified(<<a, b>>) = a
         /\ (a = "UNSPECIFIED" /\ b # "UNSPECIFIED") => FirstSpecified(<<a, b>>) = b
<1> DEFINE t == <<a, b>>
<1> DEFINE some == {i \in DOMAIN t : t[i] # "UNSPECIFIED"}
<1>1. DOMAIN t = {1, 2} /\ t[1] = a /\ t[2] = b OBVIOUS
<1>2. FirstSpecified(t) = IF some = {} THEN "UNSPECIFIED"
                          ELSE t[CHOOSE i \in some : \A j \in some : i <= j]
  BY DEF FirstSpecified
<1> HIDE DEF t
<1>3. ASSUME a # "UNSPECIFIED" PROVE FirstSpecified(t) = a
  <2>1. 1 \in some /\ \A j \in some : 1 <= j BY <1>1, <1>3
  <2>2. some \subseteq {1, 2} BY <1>1
  <2> HIDE DEF some
  <2>3. \A i \in some : (\A j \in some : i <= j) => i = 1 BY <2>1, <2>2
  <2>4. (CHOOSE i \in some : \A j \in some : i <= j) = 1 BY <2>1, <2>3
  <2> QED BY <1>1, <1>2, <2>1, <2>4
<1>4. ASSUME a = "UNSPECIFIED", b # "UNSPECIFIED" PROVE FirstSpecified(t) = b
  <2>1. some = {2} BY <1>1, <1>4
  <2> HIDE DEF some
  <2>2. (CHOOSE i \in some : \A j \in some : i <= j) = 2 BY <2>1
  <2> QED BY <1>1, <1>2, <2>1, <2>2
<1> QED BY <1>3, <1>4 DEF t

\* And of one.
LEMMA FirstOfOne ==
  ASSUME NEW a, a # "UNSPECIFIED" PROVE FirstSpecified(<<a>>) = a
<1> DEFINE t == <<a>>
<1> DEFINE some == {i \in DOMAIN t : t[i] # "UNSPECIFIED"}
<1>1. DOMAIN t = {1} /\ t[1] = a OBVIOUS
<1>2. FirstSpecified(t) = IF some = {} THEN "UNSPECIFIED"
                          ELSE t[CHOOSE i \in some : \A j \in some : i <= j]
  BY DEF FirstSpecified
<1> HIDE DEF t
<1>3. some = {1} BY <1>1
<1> HIDE DEF some
<1>4. (CHOOSE i \in some : \A j \in some : i <= j) = 1 BY <1>3
<1> QED BY <1>1, <1>2, <1>3, <1>4 DEF t

\* What one dictionary says, is said by the settings.
LEMMA OneDict ==
  ASSUME NEW d, NEW self \in BOOLEAN, NEW a,
         a = IsTrustDictionaryTrustedForPolicy(d, self), a # "UNSPECIFIED"
  PROVE  IsTrustSettingsTrustedForPolicy(Settings(<<d>>), self) = a
<1> DEFINE st == Settings(<<d>>)
<1>1. st.there = TRUE /\ st.dicts = <<d>> BY DEF Settings
<1>2. st.dicts # << >> BY <1>1
<1>3. DOMAIN st.dicts = {1} /\ st.dicts[1] = d BY <1>1
<1>4. [i \in DOMAIN st.dicts |-> IsTrustDictionaryTrustedForPolicy(st.dicts[i], self)] = <<a>>
  BY <1>3
<1> HIDE DEF st
<1> DEFINE f == [i \in DOMAIN st.dicts |-> IsTrustDictionaryTrustedForPolicy(st.dicts[i], self)]
<1>5. IsTrustSettingsTrustedForPolicy(st, self) = FirstSpecified(f)
  BY <1>1, <1>2 DEF IsTrustSettingsTrustedForPolicy
<1>6. FirstSpecified(<<a>>) = a BY FirstOfOne
<1> QED BY <1>4, <1>5, <1>6 DEF st

\* The settings that deny do, and none say nothing.
LEMMA Denials ==
  ASSUME NEW self \in BOOLEAN
  PROVE  /\ IsTrustSettingsTrustedForPolicy(Deny, self) = "DISTRUSTED"
         /\ \A s \in TrustSettings : ~s.there =>
              IsTrustSettingsTrustedForPolicy(s, self) = "UNSPECIFIED"
<1> DEFINE d == Dict(FALSE, "ssl", "deny")
<1>1. "DISTRUSTED" = IsTrustDictionaryTrustedForPolicy(d, self)
  BY DEF IsTrustDictionaryTrustedForPolicy, Dict
<1>2. Deny = Settings(<<d>>) BY DEF Deny
<1> HIDE DEF d
<1>3. IsTrustSettingsTrustedForPolicy(Deny, self) = "DISTRUSTED" BY <1>1, <1>2, OneDict
<1>4. ASSUME NEW s \in TrustSettings, ~s.there
      PROVE  IsTrustSettingsTrustedForPolicy(s, self) = "UNSPECIFIED"
  BY <1>4 DEF IsTrustSettingsTrustedForPolicy
<1> QED BY <1>3, <1>4

\* What a Mac does not distrust is not denied by its user, nor by its
\* administrator alone.
LEMMA MacTrust ==
  ASSUME NEW cert \in Certificates, IsCertificateTrustedForPolicy(cert) # "DISTRUSTED"
  PROVE  cert.user # Deny /\ (cert.admin = Deny => cert.user.there)
<1>1. cert.self \in BOOLEAN /\ cert.user \in TrustSettings /\ cert.admin \in TrustSettings
  BY DEF Certificates
<1> DEFINE u == IsTrustSettingsTrustedForPolicy(cert.user, cert.self)
<1> DEFINE a == IsTrustSettingsTrustedForPolicy(cert.admin, cert.self)
<1>2. IsCertificateTrustedForPolicy(cert) = FirstSpecified(<<u, a>>)
  BY DEF IsCertificateTrustedForPolicy
<1>3. cert.user = Deny => u = "DISTRUSTED" BY <1>1, Denials
<1>4. cert.admin = Deny => a = "DISTRUSTED" BY <1>1, Denials
<1>5. ~cert.user.there => u = "UNSPECIFIED" BY <1>1, Denials
<1>6. cert.user.there \in BOOLEAN BY <1>1 DEF TrustSettings
<1> HIDE DEF u, a
<1>7. cert.user # Deny BY <1>2, <1>3, FirstOfTwo
<1>8. cert.admin = Deny => cert.user.there BY <1>2, <1>4, <1>5, <1>6, FirstOfTwo
<1> QED BY <1>7, <1>8

\* No settings.
LEMMA AbsentType == Absent \in TrustSettings
<1> DEFINE D == [scoped : BOOLEAN, policy : {"any", "ssl", "other"},
                 result : {"deny", "asroot", "root", "other"}]
<1>1. << >> \in Seq(D) OBVIOUS
<1> QED BY <1>1 DEF TrustSettings, Absent

\* A dictionary the user of a Mac may have.
LEMMA DictType ==
  ASSUME NEW a, NEW p, NEW r, a \in BOOLEAN,
         p \in {"any", "ssl", "other"}, r \in {"deny", "asroot", "root", "other"}
  PROVE  Settings(<<Dict(a, p, r)>>) \in TrustSettings
<1> DEFINE D == [scoped : BOOLEAN, policy : {"any", "ssl", "other"},
                 result : {"deny", "asroot", "root", "other"}]
<1>1. Dict(a, p, r) \in D BY DEF Dict
<1>2. <<Dict(a, p, r)>> \in Seq(D) BY <1>1
<1> DEFINE ds == <<Dict(a, p, r)>>
<1> HIDE DEF ds
<1>4. Settings(ds) \in TrustSettings BY <1>2 DEF Settings, TrustSettings, ds
<1> QED BY <1>4 DEF ds

\* A plain certificate.
LEMMA CertificateType ==
  ASSUME NEW cn, cn \in CommonNames
  PROVE  Certificate(cn) \in Certificates
<1>1. Absent \in TrustSettings BY AbsentType
<1>3. TRUE \in BOOLEAN /\ FALSE \in BOOLEAN OBVIOUS
<1> DEFINE none == "none"
<1>6. none \in {"none", "server", "any", "other"} OBVIOUS
<1>7. Certificate(cn) = [cn |-> cn, active |-> TRUE, self |-> TRUE, is_ca |-> TRUE, eku |-> none,
                         added |-> FALSE, user |-> Absent, admin |-> Absent, adds |-> TRUE]
  BY DEF Certificate
<1> HIDE DEF none
<1> QED BY <1>1, <1>3, <1>6, <1>7 DEF Certificates

\* The root its user trusts is let in on a Mac.
LEMMA OverruledTrusted ==
  /\ Overruled \in Certificates /\ Reaches(Overruled) /\ Overruled.adds
  /\ Overruled.added
  /\ IsCertificateTrustedForPolicy(Overruled) # "DISTRUSTED" /\ ~IsNotAcceptableIntermediate(Overruled)
<1> DEFINE d == Dict(FALSE, "any", "root")
<1> DEFINE u == Settings(<<d>>)
<1>1. u \in TrustSettings /\ Deny \in TrustSettings
  <2> DEFINE no == FALSE
             x1 == "any"
             x2 == "root"
             x3 == "ssl"
             x4 == "deny"
  <2>1. /\ no \in BOOLEAN /\ x1 \in {"any", "ssl", "other"} /\ x2 \in {"deny", "asroot", "root", "other"}
        /\ x3 \in {"any", "ssl", "other"} /\ x4 \in {"deny", "asroot", "root", "other"}
    OBVIOUS
  <2>2. u = Settings(<<Dict(no, x1, x2)>>) /\ Deny = Settings(<<Dict(no, x3, x4)>>) BY DEF Deny
  <2> HIDE DEF no, x1, x2, x3, x4, u
  <2> QED BY <2>1, <2>2, DictType
<1>2. "TRUSTED" = IsTrustDictionaryTrustedForPolicy(d, TRUE)
  BY DEF IsTrustDictionaryTrustedForPolicy, Dict
<1> HIDE DEF d
<1>3. IsTrustSettingsTrustedForPolicy(u, TRUE) = "TRUSTED" BY <1>2, OneDict
<1> HIDE DEF u
<1>4. Overruled = [Certificate("overruled") EXCEPT !.added = TRUE, !.user = u, !.admin = Deny]
  BY DEF Overruled, u, d
<1>5. Certificate("overruled") \in Certificates
  <2> DEFINE n == "overruled"
  <2>1. n \in CommonNames BY NamesAssumption
  <2> HIDE DEF n
  <2>2. Certificate(n) \in Certificates BY <2>1, CertificateType
  <2> QED BY <2>2 DEF n
<1>6. Overruled \in Certificates BY <1>1, <1>4, <1>5 DEF Certificates
<1>7. /\ Overruled.user = u /\ Overruled.self = TRUE /\ Overruled.active = TRUE /\ Overruled.is_ca = TRUE
      /\ Overruled.eku = "none" /\ Overruled.cn = "overruled" /\ Overruled.added = TRUE
      /\ Overruled.adds = TRUE
  BY <1>4 DEF Certificate
<1> DEFINE a == IsTrustSettingsTrustedForPolicy(Overruled.admin, Overruled.self)
<1>8. IsCertificateTrustedForPolicy(Overruled)
        = FirstSpecified(<<IsTrustSettingsTrustedForPolicy(Overruled.user, Overruled.self), a>>)
  BY DEF IsCertificateTrustedForPolicy
<1>9. IsTrustSettingsTrustedForPolicy(Overruled.user, Overruled.self) = "TRUSTED" BY <1>3, <1>7
<1> HIDE DEF a
<1>10. IsCertificateTrustedForPolicy(Overruled) = "TRUSTED"
  <2> DEFINE b == IsTrustSettingsTrustedForPolicy(Overruled.user, Overruled.self)
  <2>1. b = "TRUSTED" BY <1>9
  <2>2. IsCertificateTrustedForPolicy(Overruled) = FirstSpecified(<<b, a>>) BY <1>8
  <2> HIDE DEF b
  <2> QED BY <2>1, <2>2, FirstOfTwo
<1> QED BY <1>6, <1>7, <1>10 DEF IsNotAcceptableIntermediate, Reaches, Blacklisted

\* Every certificate of the inputs is one.
LEMMA InputTypes ==
  ASSUME NEW c \in Context
  PROVE  All(c) \subseteq Certificates /\ Added(c) \subseteq Certificates
<1>1. c.system \in Seq(Certificates) BY StoresAssumption DEF Context
<1>2. \A i \in DOMAIN c.system : c.system[i] \in Certificates BY <1>1
<1> QED BY <1>2 DEF All, Added

\* A bundle's certificates are loaded.
LEMMA MemIs ==
  ASSUME NEW c \in Context, NEW b \in AnyBundle,
         NEW from \in Sources
  PROVE  \E certs \in SUBSET Certificates :
           /\ load_ca_to_ssl_ctx_from_mem(c, b, from) = LoadAll(c, certs, from)
           /\ b.newline => \A i \in DOMAIN b.certs : b.certs[i] \in certs
<1> DEFINE n == Len(b.certs)
<1> DEFINE last == IF b.newline \/ n = 0 THEN n ELSE n - 1
<1> DEFINE certs == {b.certs[i] : i \in 1 .. last}
<1>1. b.certs \in Seq(Certificates) BY DEF AnyBundle
<1>2. n \in Nat BY <1>1
<1>3. last \in Nat /\ last <= n BY <1>2
<1> HIDE DEF last
<1>4. \A i \in 1 .. last : i \in 1 .. n BY <1>2, <1>3
<1>5. \A i \in 1 .. last : b.certs[i] \in Certificates BY <1>1, <1>4
<1>6. certs \in SUBSET Certificates BY <1>5
<1>7. load_ca_to_ssl_ctx_from_mem(c, b, from) = LoadAll(c, certs, from)
  BY DEF load_ca_to_ssl_ctx_from_mem, last
<1>8. b.newline => \A i \in DOMAIN b.certs : b.certs[i] \in certs BY <1>1 DEF last
<1> HIDE DEF certs
<1> QED BY <1>6, <1>7, <1>8

\* What holds of a context whatever its phase is.
CaOK(c) == c \in Context /\ Sound(c) /\ FoundThere(c)

\* A source other than the system's store, and what it leaves alone.
LEMMA MemOK ==
  ASSUME NEW c, CaOK(c), NEW b, b \in AnyBundle,
         NEW from, from \in Sources, from # "system"
  PROVE  LET r == load_ca_to_ssl_ctx_from_mem(c, b, from) IN
         /\ CaOK(r) /\ r.platform = c.platform /\ r.phase = c.phase /\ r.ca_native = c.ca_native
         /\ r.system = c.system /\ r.loaded = c.loaded /\ c.store \subseteq r.store
         /\ \A e \in r.store : e \in c.store \/ e[2] = from
<1>1. c \in Context BY DEF CaOK
<1>2. PICK certs \in SUBSET Certificates :
        load_ca_to_ssl_ctx_from_mem(c, b, from) = LoadAll(c, certs, from)
  BY <1>1, MemIs
<1> DEFINE r == LoadAll(c, certs, from)
<1>3. /\ r \in Context
      /\ r.platform = c.platform /\ r.phase = c.phase /\ r.ca_native = c.ca_native
      /\ r.system = c.system /\ r.loaded = c.loaded
      /\ c.store \subseteq r.store
      /\ \A e \in r.store : \/ e \in c.store
                            \/ e[1] \in certs /\ e[2] = from /\ Reaches(e[1])
      /\ FoundThere(c) => FoundThere(r)
  <2>1. certs \subseteq Certificates OBVIOUS
  <2>2. Loaded(c, certs, from, r) BY <1>1, <2>1, LoadAllIs
  <2> HIDE DEF r
  <2> QED BY <2>2 DEF Loaded
<1> HIDE DEF r
<1>4. Sound(r)
  <2>1. SUFFICES ASSUME NEW e \in r.store PROVE Acceptable(r.platform, e[1], e[2]) BY DEF Sound
  <2>2. CASE e \in c.store BY <1>3, <2>2 DEF CaOK, Sound
  <2>3. CASE e[2] = from /\ Reaches(e[1]) BY <2>3 DEF Acceptable, Reaches
  <2> QED BY <1>3, <2>2, <2>3
<1>5. CaOK(r) BY <1>3, <1>4 DEF CaOK
<1> QED BY <1>2, <1>3, <1>5 DEF r

\* The store of the system.
LEMMA SystemOK ==
  ASSUME NEW c, CaOK(c), NEW certs \in SUBSET Certificates, Added(c) \subseteq certs
  PROVE  LET r == load_ca_to_ssl_ctx_from_system(c, certs) IN
         c.platform \in {"windows", "mac", "ios", "unix"} =>
         /\ CaOK(r) /\ r.platform = c.platform /\ r.phase = c.phase /\ r.ca_native = c.ca_native
         /\ r.system = c.system /\ c.store \subseteq r.store
         /\ \A e \in r.store : e \in c.store \/ e[2] = "system"
         /\ InMac(c) => Trusts(r)
<1>1. c \in Context BY DEF CaOK
<1> DEFINE sys == "system"
<1>2. sys \in Sources /\ sys = "system" BY DEF Sources
<1> HIDE DEF sys
<1>3. ASSUME NEW some \in SUBSET Certificates,
             \A cert \in some : Reaches(cert) => Acceptable(c.platform, cert, "system"),
             InMac(c) => Overruled \in some
      PROVE  LET r == LoadAll(c, some, "system") IN
             /\ CaOK(r) /\ r.platform = c.platform /\ r.phase = c.phase /\ r.ca_native = c.ca_native
             /\ r.system = c.system /\ c.store \subseteq r.store
             /\ \A e \in r.store : e \in c.store \/ e[2] = "system"
             /\ InMac(c) => Trusts(r)
  <2> DEFINE r == LoadAll(c, some, sys)
  <2>1. /\ r \in Context
        /\ r.platform = c.platform /\ r.phase = c.phase /\ r.ca_native = c.ca_native
        /\ r.system = c.system
        /\ c.store \subseteq r.store
        /\ \A e \in r.store : \/ e \in c.store
                              \/ e[1] \in some /\ e[2] = sys /\ Reaches(e[1])
        /\ \A cert \in some : Reaches(cert) /\ cert.adds => <<cert, sys>> \in r.store
        /\ FoundThere(c) => FoundThere(r)
    <3>1. some \subseteq Certificates OBVIOUS
    <3>2. Loaded(c, some, sys, r) BY <1>1, <1>2, <3>1, LoadAllIs
    <3> HIDE DEF r
    <3> QED BY <3>2 DEF Loaded
  <2> HIDE DEF r
  <2>2. Sound(r)
    <3>1. SUFFICES ASSUME NEW e \in r.store PROVE Acceptable(r.platform, e[1], e[2]) BY DEF Sound
    <3>2. CASE e \in c.store BY <2>1, <3>2 DEF CaOK, Sound
    <3>3. CASE e[1] \in some /\ e[2] = sys /\ Reaches(e[1])
      BY <1>2, <1>3, <2>1, <3>3
    <3> QED BY <2>1, <3>2, <3>3
  <2>3. CaOK(r) BY <2>1, <2>2 DEF CaOK
  <2>4. InMac(c) => Trusts(r) BY <1>2, <1>3, <2>1, OverruledTrusted DEF Trusts
  <2> QED BY <1>2, <2>1, <2>3, <2>4 DEF r
<1>4. InMac(c) => Overruled \in certs
  BY OverruledTrusted DEF InMac, Added
<1>5. CASE c.platform = "windows"
  <2> DEFINE some == {cert \in certs : IsCertTrustedForServerAuth(cert)}
  <2>1. some \in SUBSET Certificates OBVIOUS
  <2>2. \A cert \in some : Reaches(cert) => Acceptable(c.platform, cert, "system")
    BY <1>5 DEF Acceptable, Reaches, IsCertTrustedForServerAuth
  <2>3. ~InMac(c) BY <1>5 DEF InMac
  <2>4. load_ca_to_ssl_ctx_from_system(c, certs) = LoadAll(c, some, "system")
    BY <1>5 DEF load_ca_to_ssl_ctx_from_system, FromSchannelStore
  <2> HIDE DEF some
  <2> QED BY <1>3, <2>1, <2>2, <2>3, <2>4
<1>6. CASE c.platform = "mac"
  <2> DEFINE some == {cert \in certs : /\ IsCertificateTrustedForPolicy(cert) # "DISTRUSTED"
                                       /\ ~IsNotAcceptableIntermediate(cert)}
  <2>1. some \in SUBSET Certificates OBVIOUS
  <2>2. \A cert \in some : Reaches(cert) => Acceptable(c.platform, cert, "system")
    <3>1. SUFFICES ASSUME NEW cert \in some, Reaches(cert)
                   PROVE  Acceptable(c.platform, cert, "system")
      OBVIOUS
    <3>2. cert \in Certificates OBVIOUS
    <3>3. cert.user # Deny /\ (cert.admin = Deny => cert.user.there) BY <3>2, MacTrust
    <3>4. cert.is_ca /\ cert.eku # "other"
      BY <3>2 DEF IsNotAcceptableIntermediate, Certificates
    <3> QED BY <3>1, <3>3, <3>4 DEF Acceptable, Reaches
  <2>3. InMac(c) => Overruled \in some BY <1>4, OverruledTrusted
  <2>4. load_ca_to_ssl_ctx_from_system(c, certs) = LoadAll(c, some, "system")
    BY <1>6 DEF load_ca_to_ssl_ctx_from_system, FromSecTrustDomains
  <2> HIDE DEF some
  <2> QED BY <1>3, <2>1, <2>2, <2>3, <2>4
<1>7. CASE c.platform = "ios"
  <2>1. load_ca_to_ssl_ctx_from_system(c, certs) = c BY <1>7 DEF load_ca_to_ssl_ctx_from_system
  <2>2. ~InMac(c) BY <1>7 DEF InMac
  <2> QED BY <2>1, <2>2
<1>8. CASE c.platform = "unix"
  <2> DEFINE some == All(c)
  <2>1. some \in SUBSET Certificates BY <1>1, InputTypes
  <2>2. \A cert \in some : Reaches(cert) => Acceptable(c.platform, cert, "system")
    BY <1>8 DEF Acceptable, Reaches
  <2>3. ~InMac(c) BY <1>8 DEF InMac
  <2>4. load_ca_to_ssl_ctx_from_system(c, certs) = LoadAll(c, some, "system")
    BY <1>8 DEF load_ca_to_ssl_ctx_from_system, FromUnixStore
  <2> HIDE DEF some
  <2> QED BY <1>3, <2>1, <2>2, <2>3, <2>4
<1> QED BY <1>5, <1>6, <1>7, <1>8

\* The phases, and the step to the next of them.
Phases == {"ca_native", "cacert", "capath", "yass_ca_bundle", "system_extra", "builtin", "done", "end"}
Moved(c, x, p) ==
  /\ CaOK(x) /\ x.platform = c.platform /\ x.phase = p /\ x.ca_native = c.ca_native
  /\ x.system = c.system /\ x.store = c.store /\ x.found = c.found
  /\ x.refused = c.refused /\ x.own = c.own

LEMMA MovedOK ==
  ASSUME NEW c, CaOK(c), NEW l, l \in BOOLEAN, NEW p, p \in Phases
  PROVE  Moved(c, [c EXCEPT !.loaded = l, !.phase = p], p) /\ Moved(c, [c EXCEPT !.phase = p], p)
<1>1. c \in Context BY DEF CaOK
<1> DEFINE x == [c EXCEPT !.loaded = l, !.phase = p]
<1> DEFINE y == [c EXCEPT !.phase = p]
<1>2. x \in Context /\ y \in Context BY <1>1 DEF Context, Phases
<1>3. /\ x.platform = c.platform /\ x.phase = p /\ x.ca_native = c.ca_native
      /\ x.system = c.system /\ x.store = c.store /\ x.found = c.found
      /\ x.refused = c.refused /\ x.own = c.own
  BY <1>1 DEF Context
<1>4. /\ y.platform = c.platform /\ y.phase = p /\ y.ca_native = c.ca_native
      /\ y.system = c.system /\ y.store = c.store /\ y.found = c.found
      /\ y.refused = c.refused /\ y.own = c.own
  BY <1>1 DEF Context
<1> HIDE DEF x, y
<1>5. CaOK(x) BY <1>2, <1>3 DEF CaOK, Sound, FoundThere, There
<1>6. CaOK(y) BY <1>2, <1>4 DEF CaOK, Sound, FoundThere, There
<1>7. Moved(c, x, p) /\ Moved(c, y, p) BY <1>3, <1>4, <1>5, <1>6 DEF Moved
<1> QED BY <1>7 DEF x, y

\* A step that only adds to the store keeps what was ordered, if it gives what
\* its phase asks for.
LEMMA OrderStays ==
  ASSUME NEW c, Ordered(c), NEW x, x.platform = c.platform, x.system = c.system,
         x.ca_native = c.ca_native, c.store \subseteq x.store,
         InMac(c) => /\ c.phase = "ca_native" /\ c.ca_native => Trusts(x)
                     /\ x.phase = "builtin" => Trusts(x)
                     /\ (\E e \in x.store : e \notin c.store /\ e[2] = "builtin") => Trusts(x)
  PROVE  Ordered(x)
<1>1. InMac(x) <=> InMac(c) BY DEF InMac, All
<1>2. Trusts(c) => Trusts(x) BY DEF Trusts
<1> QED BY <1>1, <1>2 DEF Ordered

\* What the steps before the last show.
LEMMA StepOK ==
  ASSUME CaInv, NEW x, ca' = x, CaOK(x), Ordered(x), x.phase # "end"
  PROVE  CaInv'
  BY DEF CaInv, CaOK

\* A file or a directory is loaded, or not, and the next phase is begun.
LEMMA FileOK ==
  ASSUME CaInv, NEW b, b \in AnyBundle, NEW g, g \in BOOLEAN,
         NEW from, from \in Sources, from \notin {"system", "builtin"}, ca.phase # "ca_native"
  PROVE  LET r == IF g THEN load_ca_to_ssl_ctx_from_mem(ca, b, from) ELSE ca IN
         /\ CaOK(r) /\ r.platform = ca.platform /\ r.ca_native = ca.ca_native
         /\ r.system = ca.system /\ ca.store \subseteq r.store /\ r.loaded = ca.loaded
         /\ \A e \in r.store : e \notin ca.store => e[2] # "builtin"
<1>1. CaOK(ca) BY DEF CaInv, CaOK
<1> DEFINE r == load_ca_to_ssl_ctx_from_mem(ca, b, from)
<1>2. /\ CaOK(r) /\ r.platform = ca.platform /\ r.ca_native = ca.ca_native
      /\ r.system = ca.system /\ r.loaded = ca.loaded /\ ca.store \subseteq r.store
      /\ \A e \in r.store : e \in ca.store \/ e[2] = from
  BY <1>1, MemOK
<1> HIDE DEF r
<1> QED BY <1>1, <1>2 DEF r

\* The system's own store, if it was asked for.
LEMMA CaNativeOK == ASSUME CaInv, CaNative PROVE CaInv'
<1>1. CaOK(ca) /\ Ordered(ca) /\ ca \in Context /\ ca.phase = "ca_native"
  BY DEF CaInv, CaOK, CaNative
<1> DEFINE sys == load_ca_to_ssl_ctx_from_system(ca, All(ca))
<1> DEFINE r == IF ca.ca_native THEN sys ELSE ca
<1>2. ca.platform \in {"windows", "mac", "ios", "unix"} BY <1>1, PlatformsAssumption DEF Context
<1>3. /\ CaOK(sys) /\ sys.platform = ca.platform /\ sys.ca_native = ca.ca_native
      /\ sys.system = ca.system /\ ca.store \subseteq sys.store
      /\ \A e \in sys.store : e \in ca.store \/ e[2] = "system"
      /\ InMac(ca) => Trusts(sys)
  <2>1. All(ca) \subseteq Certificates BY <1>1, InputTypes
  <2>2. Added(ca) \subseteq All(ca) BY DEF Added
  <2> DEFINE A == All(ca)
  <2>3. A \in SUBSET Certificates /\ Added(ca) \subseteq A BY <2>1, <2>2
  <2> HIDE DEF A
  <2>4. LET q == load_ca_to_ssl_ctx_from_system(ca, A) IN
         /\ CaOK(q) /\ q.platform = ca.platform /\ q.ca_native = ca.ca_native
         /\ q.system = ca.system /\ ca.store \subseteq q.store
         /\ \A e \in q.store : e \in ca.store \/ e[2] = "system"
         /\ InMac(ca) => Trusts(q)
    BY <1>1, <1>2, <2>3, SystemOK
  <2> QED BY <2>4 DEF A
<1> HIDE DEF sys
<1> DEFINE l == ca.ca_native
           p == "cacert"
           x == [r EXCEPT !.loaded = l, !.phase = p]
<1>4. ca' = x BY DEF CaNative, sys
<1>5. CaOK(r) /\ l \in BOOLEAN /\ p \in Phases BY <1>1, <1>3 DEF Phases, Context
<1>6. /\ r.platform = ca.platform /\ r.ca_native = ca.ca_native /\ r.system = ca.system
      /\ ca.store \subseteq r.store /\ (\A e \in r.store : e \notin ca.store => e[2] # "builtin")
      /\ (InMac(ca) /\ ca.ca_native) => Trusts(r)
  BY <1>3
<1> HIDE DEF r, l, p
<1>7. CaOK(x) /\ x.platform = r.platform /\ x.phase = p /\ x.ca_native = r.ca_native
      /\ x.system = r.system /\ x.store = r.store
  <2>1. Moved(r, x, p) BY <1>5, MovedOK
  <2> HIDE DEF x
  <2> QED BY <2>1 DEF Moved
<1> HIDE DEF x
<1>8. p = "cacert" BY DEF p
<1>9. InMac(ca) => /\ ca.phase = "ca_native" /\ ca.ca_native => Trusts(x)
                   /\ x.phase = "builtin" => Trusts(x)
                   /\ (\E e \in x.store : e \notin ca.store /\ e[2] = "builtin") => Trusts(x)
  BY <1>6, <1>7, <1>8 DEF Trusts
<1>10. Ordered(x) BY <1>1, <1>6, <1>7, <1>9, OrderStays
<1> QED BY <1>4, <1>7, <1>8, <1>10, StepOK

\* A file that was given.
LEMMA CaCertOK == ASSUME CaInv, CaCert PROVE CaInv'
<1>1. CaOK(ca) /\ Ordered(ca) /\ ca \in Context /\ ca.phase = "cacert"
  BY DEF CaInv, CaOK, CaCert
<1> DEFINE g == "cacert" \in ca.given
           from == "cacert"
           b == ca.cacert
           r == IF g THEN load_ca_to_ssl_ctx_from_mem(ca, b, from) ELSE ca
           l == r.loaded \/ g
           p == "capath"
           x == [r EXCEPT !.loaded = l, !.phase = p]
<1>2. /\ b \in AnyBundle /\ g \in BOOLEAN
      /\ from \in Sources /\ from \notin {"system", "builtin"} /\ p \in Phases /\ p = "capath"
  BY <1>1, BundlesAssumption DEF Context, Sources, Phases
<1>3. ca' = x BY DEF CaCert
<1> HIDE DEF g, from, b, p
<1>4. /\ CaOK(r) /\ r.platform = ca.platform /\ r.ca_native = ca.ca_native
      /\ r.system = ca.system /\ ca.store \subseteq r.store /\ r.loaded = ca.loaded
      /\ \A e \in r.store : e \notin ca.store => e[2] # "builtin"
  BY <1>1, <1>2, FileOK
<1>5. l \in BOOLEAN BY <1>2, <1>1, <1>4 DEF Context
<1> HIDE DEF r, l
<1>6. Moved(r, x, p) BY <1>2, <1>4, <1>5, MovedOK
<1> HIDE DEF x
<1>7. /\ CaOK(x) /\ x.platform = ca.platform /\ x.phase = p /\ x.ca_native = ca.ca_native
      /\ x.system = ca.system /\ ca.store \subseteq x.store
      /\ ~\E e \in x.store : e \notin ca.store /\ e[2] = "builtin"
  BY <1>4, <1>6 DEF Moved
<1>8. Ordered(x) BY <1>1, <1>2, <1>7, OrderStays
<1> QED BY <1>2, <1>3, <1>7, <1>8, StepOK

\* A directory that was given; what was given ends the search.
LEMMA CaPathOK == ASSUME CaInv, CaPath PROVE CaInv'
<1>1. CaOK(ca) /\ Ordered(ca) /\ ca \in Context /\ ca.phase = "capath"
  BY DEF CaInv, CaOK, CaPath
<1> DEFINE g == "capath" \in ca.given
           from == "capath"
           b == ca.capath
           r == IF g THEN load_ca_to_ssl_ctx_from_mem(ca, b, from) ELSE ca
           l == ca.loaded \/ g
           p == IF l THEN "done" ELSE "yass_ca_bundle"
           x == [r EXCEPT !.loaded = l, !.phase = p]
<1>2. /\ b \in AnyBundle /\ g \in BOOLEAN
      /\ from \in Sources /\ from \notin {"system", "builtin"} /\ p \in Phases
      /\ p \notin {"end", "builtin"}
  BY <1>1, BundlesAssumption DEF Context, Sources, Phases
<1>3. ca' = x BY DEF CaPath
<1> HIDE DEF g, from, b, p
<1>4. /\ CaOK(r) /\ r.platform = ca.platform /\ r.ca_native = ca.ca_native
      /\ r.system = ca.system /\ ca.store \subseteq r.store /\ r.loaded = ca.loaded
      /\ \A e \in r.store : e \notin ca.store => e[2] # "builtin"
  BY <1>1, <1>2, FileOK
<1>5. l \in BOOLEAN BY <1>2, <1>1 DEF Context
<1> HIDE DEF r, l
<1>6. Moved(r, x, p) BY <1>2, <1>4, <1>5, MovedOK
<1> HIDE DEF x
<1>7. /\ CaOK(x) /\ x.platform = ca.platform /\ x.phase = p /\ x.ca_native = ca.ca_native
      /\ x.system = ca.system /\ ca.store \subseteq x.store
      /\ ~\E e \in x.store : e \notin ca.store /\ e[2] = "builtin"
  BY <1>4, <1>6 DEF Moved
<1>8. Ordered(x) BY <1>1, <1>2, <1>7, OrderStays
<1> QED BY <1>2, <1>3, <1>7, <1>8, StepOK

\* The file beside the program.
LEMMA YassCaBundleOK == ASSUME CaInv, YassCaBundle PROVE CaInv'
<1>1. CaOK(ca) /\ Ordered(ca) /\ ca \in Context /\ ca.phase = "yass_ca_bundle"
  BY DEF CaInv, CaOK, YassCaBundle
<1> DEFINE g == ca.platform = "windows"
           from == "yass_ca_bundle"
           b == ca.yass_ca_bundle
           r == IF g THEN load_ca_to_ssl_ctx_from_mem(ca, b, from) ELSE ca
           l == TRUE
           p == IF r.store # ca.store THEN "done" ELSE "system_extra"
           x == [r EXCEPT !.phase = p]
<1>2. /\ b \in AnyBundle /\ g \in BOOLEAN
      /\ from \in Sources /\ from \notin {"system", "builtin"} /\ p \in Phases
      /\ p \notin {"end", "builtin"} /\ l \in BOOLEAN
  BY <1>1, BundlesAssumption DEF Context, Sources, Phases
<1>3. ca' = x BY DEF YassCaBundle
<1> HIDE DEF g, from, b, p, l
<1>4. /\ CaOK(r) /\ r.platform = ca.platform /\ r.ca_native = ca.ca_native
      /\ r.system = ca.system /\ ca.store \subseteq r.store /\ r.loaded = ca.loaded
      /\ \A e \in r.store : e \notin ca.store => e[2] # "builtin"
  BY <1>1, <1>2, FileOK
<1> HIDE DEF r
<1>6. Moved(r, x, p) BY <1>2, <1>4, MovedOK
<1> HIDE DEF x
<1>7. /\ CaOK(x) /\ x.platform = ca.platform /\ x.phase = p /\ x.ca_native = ca.ca_native
      /\ x.system = ca.system /\ ca.store \subseteq x.store
      /\ ~\E e \in x.store : e \notin ca.store /\ e[2] = "builtin"
  BY <1>4, <1>6 DEF Moved
<1>8. Ordered(x) BY <1>1, <1>2, <1>7, OrderStays
<1> QED BY <1>2, <1>3, <1>7, <1>8, StepOK

\* What the user added to the system's store.
LEMMA SystemExtraOK == ASSUME CaInv, SystemExtra PROVE CaInv'
<1>1. CaOK(ca) /\ Ordered(ca) /\ ca \in Context /\ ca.phase = "system_extra"
  BY DEF CaInv, CaOK, SystemExtra
<1> DEFINE r == load_ca_to_ssl_ctx_from_system_extra(ca)
           l == TRUE
           p == "builtin"
           x == [r EXCEPT !.phase = p]
<1>2. ca.platform \in {"windows", "mac", "ios", "unix"} BY <1>1, PlatformsAssumption DEF Context
<1>3. /\ CaOK(r) /\ r.platform = ca.platform /\ r.ca_native = ca.ca_native
      /\ r.system = ca.system /\ ca.store \subseteq r.store
      /\ \A e \in r.store : e \in ca.store \/ e[2] = "system"
      /\ InMac(ca) => Trusts(r)
  <2> DEFINE A == Added(ca)
  <2>3. A \in SUBSET Certificates /\ Added(ca) \subseteq A BY <1>1, InputTypes
  <2> HIDE DEF A
  <2>4. LET q == load_ca_to_ssl_ctx_from_system(ca, A) IN
         /\ CaOK(q) /\ q.platform = ca.platform /\ q.ca_native = ca.ca_native
         /\ q.system = ca.system /\ ca.store \subseteq q.store
         /\ \A e \in q.store : e \in ca.store \/ e[2] = "system"
         /\ InMac(ca) => Trusts(q)
    BY <1>1, <1>2, <2>3, SystemOK
  <2> QED BY <2>4 DEF A, load_ca_to_ssl_ctx_from_system_extra
<1>4. l \in BOOLEAN /\ p \in Phases /\ p = "builtin" BY DEF Phases
<1>5. ca' = x BY DEF SystemExtra
<1> HIDE DEF r, l, p
<1>6. Moved(r, x, p) BY <1>3, <1>4, MovedOK
<1> HIDE DEF x
<1>7. /\ CaOK(x) /\ x.platform = ca.platform /\ x.phase = p /\ x.ca_native = ca.ca_native
      /\ x.system = ca.system /\ ca.store \subseteq x.store
      /\ InMac(ca) => Trusts(x)
  BY <1>3, <1>6 DEF Moved, Trusts
<1>8. Ordered(x) BY <1>1, <1>7, OrderStays
<1> QED BY <1>4, <1>5, <1>7, <1>8, StepOK

\* The bundle in the program.
LEMMA BuiltinBundleOK == ASSUME CaInv, BuiltinBundle PROVE CaInv'
<1>1. CaOK(ca) /\ Ordered(ca) /\ ca \in Context /\ ca.phase = "builtin"
  BY DEF CaInv, CaOK, BuiltinBundle
<1> DEFINE from == "builtin"
           b == ca.own.builtin
           r == load_ca_to_ssl_ctx_from_mem(ca, b, from)
           l == TRUE
           p == "done"
           x == [r EXCEPT !.phase = p]
<1>2. b \in AnyBundle BY <1>1, EmbeddedAssumption DEF Context
<1>3. from \in Sources /\ from # "system" /\ l \in BOOLEAN /\ p \in Phases /\ p = "done"
  BY DEF Sources, Phases
<1>4. ca' = x BY DEF BuiltinBundle
<1> HIDE DEF from, b, l, p
<1>5. /\ CaOK(r) /\ r.platform = ca.platform /\ r.ca_native = ca.ca_native
      /\ r.system = ca.system /\ ca.store \subseteq r.store
  BY <1>1, <1>2, <1>3, MemOK
<1> HIDE DEF r
<1>6. Moved(r, x, p) BY <1>3, <1>5, MovedOK
<1> HIDE DEF x
<1>7. /\ CaOK(x) /\ x.platform = ca.platform /\ x.phase = p /\ x.ca_native = ca.ca_native
      /\ x.system = ca.system /\ ca.store \subseteq x.store
  BY <1>5, <1>6 DEF Moved
<1>8. InMac(ca) => Trusts(x) BY <1>1, <1>7 DEF Ordered, Trusts
<1>9. Ordered(x) BY <1>1, <1>7, <1>8, OrderStays
<1> QED BY <1>3, <1>4, <1>7, <1>9, StepOK

\* The roots that are missing.
LEMMA SupplementOK == ASSUME CaInv, Supplement PROVE CaInv'
<1>1. CaOK(ca) /\ Ordered(ca) /\ ca \in Context /\ ca.phase = "done"
  BY DEF CaInv, CaOK, Supplement
<1> DEFINE from == "supplementary"
           b == ca.own.supplementary
           s == load_ca_to_ssl_ctx_from_mem(ca, b, from)
           r == IF ca.found # RequiredRoots THEN s ELSE ca
           l == TRUE
           p == "end"
           x == [r EXCEPT !.phase = p]
<1>2. from \in Sources /\ from \notin {"system", "builtin"} /\ l \in BOOLEAN /\ p \in Phases /\ p = "end"
  BY DEF Sources, Phases
<1>3. ca' = x BY DEF Supplement
<1>4. b \in AnyBundle /\ b.newline BY <1>1, EmbeddedAssumption DEF Context
<1> HIDE DEF from, l, p
<1>5. /\ CaOK(s) /\ s.platform = ca.platform /\ s.ca_native = ca.ca_native
      /\ s.system = ca.system /\ ca.store \subseteq s.store
      /\ \A e \in s.store : e \in ca.store \/ e[2] = from
  <2> HIDE DEF b
  <2> QED BY <1>1, <1>2, <1>4, MemOK
<1>6. s.own = ca.own /\ RootsIn(s)
  <2>1. PICK certs \in SUBSET Certificates :
          s = LoadAll(ca, certs, from) /\ \A i \in DOMAIN b.certs : b.certs[i] \in certs
    <3> HIDE DEF b
    <3> QED BY <1>1, <1>2, <1>4, MemIs
  <2> HIDE DEF s
  <2>2. Loaded(ca, certs, from, s)
    <3>1. certs \subseteq Certificates OBVIOUS
    <3>2. Loaded(ca, certs, from, LoadAll(ca, certs, from)) BY <1>1, <1>2, <3>1, LoadAllIs
    <3> QED BY <2>1, <3>2
  <2>3. s.own = ca.own BY <2>2 DEF Loaded
  <2>4. ASSUME NEW cn \in RequiredRoots, HasInTime(s.own.supplementary, cn) PROVE There(s, cn)
    <3>1. PICK i \in DOMAIN b.certs : b.certs[i].cn = cn /\ b.certs[i].active
      BY <2>3, <2>4 DEF HasInTime
    <3> DEFINE cert == b.certs[i]
    <3>2. cert \in certs /\ cert.cn = cn /\ Reaches(cert)
      BY <2>1, <3>1, RootsAssumption DEF Reaches
    <3> HIDE DEF cert
    <3>3. cert.adds \in BOOLEAN BY <3>2 DEF Certificates
    <3>4. CASE cert.adds
      <4>1. <<cert, from>> \in s.store BY <2>2, <3>2, <3>4 DEF Loaded
      <4>2. <<cert, from>>[1].cn = cn BY <3>2
      <4> QED BY <4>1, <4>2 DEF There
    <3>5. CASE ~cert.adds BY <2>2, <3>2, <3>5 DEF Loaded, There
    <3> QED BY <3>3, <3>4, <3>5
  <2> QED BY <2>3, <2>4 DEF RootsIn
<1> HIDE DEF s, b
<1>7. ca.found = RequiredRoots => RootsIn(ca) BY <1>1 DEF CaOK, FoundThere, RootsIn
<1>8. /\ CaOK(r) /\ r.platform = ca.platform /\ r.ca_native = ca.ca_native /\ r.system = ca.system
      /\ ca.store \subseteq r.store /\ (\A e \in r.store : e \notin ca.store => e[2] # "builtin")
      /\ RootsIn(r)
  BY <1>1, <1>2, <1>5, <1>6, <1>7
<1> HIDE DEF r
<1>9. Moved(r, x, p) BY <1>2, <1>8, MovedOK
<1> HIDE DEF x
<1>10. /\ CaOK(x) /\ x.platform = ca.platform /\ x.phase = p /\ x.ca_native = ca.ca_native
       /\ x.system = ca.system /\ ca.store \subseteq x.store
       /\ ~\E e \in x.store : e \notin ca.store /\ e[2] = "builtin"
       /\ RootsIn(x)
  BY <1>8, <1>9 DEF Moved, RootsIn, There
<1>11. Ordered(x) BY <1>1, <1>2, <1>10, OrderStays
<1> QED BY <1>3, <1>10, <1>11 DEF CaInv, CaOK

\* Nothing is there at first.
LEMMA CaInitOK == CaInit => CaInv
<1>1. SUFFICES ASSUME CaInit PROVE CaInv OBVIOUS
<1>2. ca \in Context /\ ca.store = {} /\ ca.found = {} /\ ca.phase = "ca_native"
  BY <1>1 DEF CaInit, Context
<1> QED BY <1>2 DEF CaInv, Sound, FoundThere, Ordered

\* Every step keeps the invariant.
LEMMA CaStepOK == CaInv /\ [CaNext]_ca => CaInv'
<1>1. SUFFICES ASSUME CaInv, [CaNext]_ca PROVE CaInv' OBVIOUS
<1>2. CASE UNCHANGED ca BY <1>1, <1>2 DEF CaInv, Sound, FoundThere, There, RootsIn, Ordered, InMac, Trusts, All
<1> QED
  BY <1>1, <1>2, CaNativeOK, CaCertOK, CaPathOK, YassCaBundleOK, SystemExtraOK, BuiltinBundleOK,
     SupplementOK DEF CaNext

\* The invariant says it.
LEMMA CaImplies == CaInv => StoreRight
<1>1. SUFFICES ASSUME CaInv PROVE StoreRight OBVIOUS
<1>2. StoreSound BY <1>1 DEF CaInv, StoreSound, Sound, Acceptable
<1>3. RootsThere
  <2>1. SUFFICES ASSUME ca.phase = "end" PROVE RootsThere BY DEF RootsThere
  <2>2. \A cn \in RequiredRoots : \/ cn \in ca.refused \/ ~HasInTime(ca.own.supplementary, cn)
                                  \/ \E e \in ca.store : e[1].cn = cn
    BY <1>1, <2>1 DEF CaInv, RootsIn, There
  <2>3. ASSUME ca.platform = "mac", ca.ca_native \/ (\E e \in ca.store : e[2] = "builtin"),
               \E i \in DOMAIN ca.system : ca.system[i] = Overruled
        PROVE  <<Overruled, "system">> \in ca.store
    <3>1. InMac(ca) BY <2>3 DEF InMac, All
    <3>2. Ordered(ca) BY <1>1 DEF CaInv
    <3> QED BY <2>1, <2>3, <3>1, <3>2 DEF Ordered, Trusts
  <2> QED BY <2>2, <2>3 DEF RootsThere
<1> QED BY <1>2, <1>3 DEF StoreRight

\* Whatever the stores, files and directories of a system hold, no context gets a
\* certificate that is not to be trusted, and each ends up with every required
\* root that the program has in its time and the store does not refuse
\* (load_ca_to_ssl_ctx).
THEOREM StoreCorrect == CaSpec => []StoreRight
<1>1. CaSpec => []CaInv BY CaInitOK, CaStepOK, PTL DEF CaSpec
<1> QED BY <1>1, CaImplies, PTL

-----------------------------------------------------------------------------
(* The two sockets. *)

\* What a socket and a world consist of.
Socket ==
  [next_handshake_state_ : {"NONE", "HANDSHAKE"}, completed : BOOLEAN, in_confirm_handshake_ : BOOLEAN,
   user_callback : {"none", "connect", "confirm"},
   wait_read_callback_ : BOOLEAN, wait_write_callback_ : BOOLEAN,
   wait_shutdown_callback_ : BOOLEAN, disconnected_ : BOOLEAN,
   handled_early_data_result_ : BOOLEAN, peek_complete_ : BOOLEAN,
   reading : Seq(ReadOps), writing : Seq(WriteOps),
   ssl : {"before", "waiting", "early", "finishing", "up", "rejected", "failed"},
   held : BOOLEAN, sent_shutdown : BOOLEAN, received_shutdown : BOOLEAN,
   started : BOOLEAN, connected : BOOLEAN, to_send : Nat, sent : Nat, got : Nat, shut : BOOLEAN]
World ==
  [s : [Ends -> Socket], in : [Ends -> Seq(Records)], q : [Ends -> Seq(Handlers)],
   cached : 0 .. 2, offered : BOOLEAN]

\* The server does not peek, and has no early data to be rejected.
Good(v) ==
  /\ v \in World
  /\ v.s["server"].ssl \notin {"finishing", "rejected"} /\ ~v.s["server"].held

\* Records that end e may still send without looking for room: its part of the
\* handshake and the end of the stream.
Spare(e, x) ==
  CASE x.disconnected_ -> 0
    [] ~x.disconnected_ /\ x.ssl = "before" -> IF e = "client" THEN 2 ELSE 3
    [] ~x.disconnected_ /\ x.ssl = "waiting" -> IF e = "client" THEN 1 ELSE 2
    [] OTHER -> 1
Budget(v, e) == Len(v.in[Peer(e)]) + Spare(e, v.s[e]) <= Capacity + 3

\* Data on its way to the server.
Data(r) == Cardinality({i \in 1 .. Len(r) : r[i] = "data"})

\* What was sent, is under way, was got and is to be answered.
Amounts(v) ==
  /\ v.s["client"].to_send + v.s["client"].sent = Requests
  /\ Data(v.in["server"]) + v.s["server"].got <= v.s["client"].sent
  /\ v.s["server"].to_send <= Greetings + v.s["server"].got

\* The operations of end e that are armed or queued.
Ops(x) == Among(x.reading) \union Among(x.writing)
Due(v, e) == Ops(v.s[e]) \union Among(v.q[e])

\* Every callback that socket x keeps has an operation that runs it among due:
\* armed, queued or running, "handshake" being the loop of the handshake itself.
Served(x, due) ==
  /\ x.user_callback # "none" =>
       \/ "handshake" \in due
       \/ /\ x.next_handshake_state_ = "HANDSHAKE"
          /\ "OnReadReady" \in due \/ "OnWriteReady" \in due
  /\ x.wait_read_callback_ => "OnWaitRead" \in due
  /\ x.wait_write_callback_ => "OnWaitWrite" \in due /\ x.to_send > 0
  /\ x.wait_shutdown_callback_ => x.connected
  /\ x.disconnected_ =>
       x.user_callback = "none" /\ ~x.wait_read_callback_ /\ ~x.wait_write_callback_
         /\ ~x.wait_shutdown_callback_
  /\ ~x.started => x.user_callback = "none"

\* The invariant while end e runs the operations ops.
Kept(v, e, ops) ==
  /\ Good(v) /\ Amounts(v) /\ \A d \in Ends : Budget(v, d)
  /\ Served(v.s[e], Due(v, e) \union ops) /\ Served(v.s[Peer(e)], Due(v, Peer(e)))

\* The inductive invariant.
SocketsInv == Kept(w, "client", {})

\* Counting the data of a stream.
LEMMA DataType ==
  ASSUME NEW r \in Seq(Records)
  PROVE  /\ IsFiniteSet({i \in 1 .. Len(r) : r[i] = "data"})
         /\ Data(r) \in Nat
<1> DEFINE P == {i \in 1 .. Len(r) : r[i] = "data"}
<1>1. IsFiniteSet(1 .. Len(r)) BY FS_Interval, LenProperties
<1>2. P \in SUBSET (1 .. Len(r)) OBVIOUS
<1>3. IsFiniteSet(P) BY <1>1, <1>2, FS_Subset
<1> QED BY <1>3, FS_CardinalityType DEF Data

\* An empty stream carries no data.
LEMMA DataEmpty == Data(<< >>) = 0
<1>1. {i \in 1 .. Len(<< >>) : << >>[i] = "data"} = {} OBVIOUS
<1> QED BY <1>1, FS_EmptySet DEF Data

\* A record adds to the data if it is data.
LEMMA DataAppend ==
  ASSUME NEW r \in Seq(Records), NEW x \in Records
  PROVE  Data(Append(r, x)) = Data(r) + IF x = "data" THEN 1 ELSE 0
<1> DEFINE P == {i \in 1 .. Len(r) : r[i] = "data"}
           a == Append(r, x)
           Q == {i \in 1 .. Len(a) : a[i] = "data"}
<1>1. /\ a \in Seq(Records) /\ Len(a) = Len(r) + 1 /\ Len(r) \in Nat
      /\ \A i \in 1 .. Len(r) : a[i] = r[i]
      /\ a[Len(r) + 1] = x
  BY AppendProperties, LenProperties
<1> HIDE DEF a
<1>2. IsFiniteSet(P) /\ Len(r) + 1 \notin P BY <1>1, DataType
<1>3. CASE x = "data"
  <2>1. Q = P \cup {Len(r) + 1} BY <1>1, <1>3
  <2> QED BY <2>1, <1>2, <1>3, FS_AddElement DEF Data, a
<1>4. CASE x # "data"
  <2>1. Q = P BY <1>1, <1>4
  <2>2. Data(a) = Cardinality(Q) /\ Data(r) = Cardinality(P) /\ Data(r) \in Nat BY DataType DEF Data
  <2> HIDE DEF Q, P
  <2> QED BY <2>1, <2>2, <1>4 DEF a
<1> QED BY <1>3, <1>4

\* What is left of a stream whose first n records are taken.
LEMMA DataDrop ==
  ASSUME NEW r \in Seq(Records), NEW n \in 0 .. Len(r)
  PROVE  LET t == SubSeq(r, n + 1, Len(r))
         IN  /\ t \in Seq(Records) /\ Len(t) = Len(r) - n
             /\ Data(t) <= Data(r)
             /\ n > 0 /\ Head(r) = "data" => Data(t) + 1 <= Data(r)
<1> DEFINE P == {i \in 1 .. Len(r) : r[i] = "data"}
           t == SubSeq(r, n + 1, Len(r))
           T == {i \in 1 .. Len(t) : t[i] = "data"}
           f == [i \in T |-> i + n]
           Q == IF n > 0 THEN P \ {1} ELSE P
<1>1. Len(r) \in Nat /\ \A i \in 1 .. Len(r) : r[i] \in Records BY LenProperties
<1>2. /\ t \in Seq(Records) /\ Len(t) = IF n + 1 <= Len(r) THEN Len(r) - (n + 1) + 1 ELSE 0
      /\ \A i \in 1 .. Len(r) - (n + 1) + 1 : t[i] = r[n + 1 + i - 1]
  <2>1. \A i \in n + 1 .. Len(r) : r[i] \in Records BY <1>1
  <2>2. n + 1 \in Int /\ Len(r) \in Int BY <1>1
  <2> HIDE DEF t
  <2> QED BY <2>1, <2>2, SubSeqProperties DEF t
<1> HIDE DEF t
<1>3. Len(t) = Len(r) - n /\ \A i \in 1 .. Len(t) : t[i] = r[n + i]
  <2>1. Len(t) = Len(r) - n BY <1>1, <1>2
  <2>2. ASSUME NEW i \in 1 .. Len(t) PROVE t[i] = r[n + i]
    <3>1. i \in 1 .. Len(r) - (n + 1) + 1 BY <2>1, <1>1
    <3>2. n + 1 + i - 1 = n + i BY <1>1, <2>1
    <3> QED BY <3>1, <3>2, <1>2
  <2> QED BY <2>1, <2>2
<1>4. IsFiniteSet(P) /\ IsFiniteSet(P \ {1})
      /\ Cardinality(P \ {1}) = IF 1 \in P THEN Cardinality(P) - 1 ELSE Cardinality(P)
  BY DataType, FS_RemoveElement
<1>5. IsFiniteSet(Q) BY <1>4
<1>6. f \in Injection(T, Q)
  <2>1. \A i \in T : i + n \in Q BY <1>1, <1>3
  <2>2. f \in [T -> Q] BY <2>1
  <2>3. \A i, j \in T : f[i] = f[j] => i = j BY <1>1, <1>3
  <2> HIDE DEF f, T, Q
  <2> QED BY <2>2, <2>3 DEF Injection, IsInjective
<1>7. Cardinality(T) <= Cardinality(Q) BY <1>5, <1>6, FS_Injection
<1>8. Cardinality(T) \in Nat /\ Cardinality(P) \in Nat BY <1>2, DataType DEF Data
<1>9. n > 0 /\ Head(r) = "data" => 1 \in P BY <1>1
<1>10. Cardinality(T) <= Cardinality(P) BY <1>4, <1>7, <1>8
<1>11. n > 0 /\ Head(r) = "data" => Cardinality(T) + 1 <= Cardinality(P) BY <1>4, <1>7, <1>8, <1>9
<1>12. Data(t) = Cardinality(T) /\ Data(r) = Cardinality(P) BY DEF Data
<1> HIDE DEF T, P
<1> QED BY <1>2, <1>3, <1>10, <1>11, <1>12 DEF t

\* There are two ends.
LEMMA PeerIs ==
  ASSUME NEW e \in Ends
  PROVE  Peer(e) \in Ends /\ Peer(e) # e /\ Peer(Peer(e)) = e /\ Ends = {e, Peer(e)}
BY DEF Ends, Peer

\* What a world has at each end.
LEMMA WorldHas ==
  ASSUME NEW v \in World, NEW e \in Ends
  PROVE  /\ v.s[e] \in Socket /\ v.in[e] \in Seq(Records) /\ v.q[e] \in Seq(Handlers)
         /\ v.cached \in 0 .. 2 /\ v.offered \in BOOLEAN
BY DEF World

\* What u is when v's socket at end e becomes y.
Having(u, v, e, y) ==
  u \in World /\ u.s[e] = y /\ u.s[Peer(e)] = v.s[Peer(e)] /\ u.in = v.in /\ u.q = v.q

\* Replacing the socket of an end.
LEMMA HavingIs ==
  ASSUME NEW v \in World, NEW e \in Ends, NEW y \in Socket
  PROVE  Having([v EXCEPT !.s = [v.s EXCEPT ![e] = y]], v, e, y)
<1> DEFINE u == [v EXCEPT !.s = [v.s EXCEPT ![e] = y]]
<1>1. u \in World BY DEF World
<1>2. u.s = [v.s EXCEPT ![e] = y] /\ u.in = v.in /\ u.q = v.q BY DEF World
<1>3. v.s \in [Ends -> Socket] BY DEF World
<1>4. u.s[e] = y /\ u.s[Peer(e)] = v.s[Peer(e)] BY <1>2, <1>3, PeerIs
<1> QED BY <1>1, <1>2, <1>4 DEF Having

\* Set replaces one member of a socket.
LEMMA SetIs ==
  ASSUME NEW v \in World, NEW e \in Ends, NEW f, NEW x, [v.s[e] EXCEPT ![f] = x] \in Socket
  PROVE  Having(Set(v, e, f, x), v, e, [v.s[e] EXCEPT ![f] = x])
<1>1. Set(v, e, f, x) = [v EXCEPT !.s = [v.s EXCEPT ![e] = [v.s[e] EXCEPT ![f] = x]]]
  BY DEF Set, World
<1> QED BY <1>1, HavingIs

\* The values a field of a socket may be set to.
LEMMA SocketSet ==
  ASSUME NEW x \in Socket
  PROVE  /\ \A y \in {"before", "waiting", "early", "finishing", "up", "rejected", "failed"} :
              [x EXCEPT !["ssl"] = y] \in Socket
         /\ \A y \in {"NONE", "HANDSHAKE"} : [x EXCEPT !["next_handshake_state_"] = y] \in Socket
         /\ \A y \in {"none", "connect", "confirm"} : [x EXCEPT !["user_callback"] = y] \in Socket
         /\ \A y \in BOOLEAN :
              /\ [x EXCEPT !["completed"] = y] \in Socket
              /\ [x EXCEPT !["in_confirm_handshake_"] = y] \in Socket
              /\ [x EXCEPT !["wait_read_callback_"] = y] \in Socket
              /\ [x EXCEPT !["wait_write_callback_"] = y] \in Socket
              /\ [x EXCEPT !["wait_shutdown_callback_"] = y] \in Socket
              /\ [x EXCEPT !["handled_early_data_result_"] = y] \in Socket
              /\ [x EXCEPT !["peek_complete_"] = y] \in Socket
              /\ [x EXCEPT !["held"] = y] \in Socket
              /\ [x EXCEPT !["sent_shutdown"] = y] \in Socket
              /\ [x EXCEPT !["received_shutdown"] = y] \in Socket
              /\ [x EXCEPT !["started"] = y] \in Socket
              /\ [x EXCEPT !["connected"] = y] \in Socket
              /\ [x EXCEPT !["shut"] = y] \in Socket
<1>1. \A y \in {"before", "waiting", "early", "finishing", "up", "rejected", "failed"} :
        [x EXCEPT !["ssl"] = y] \in Socket
  BY DEF Socket
<1>2. \A y \in {"NONE", "HANDSHAKE"} : [x EXCEPT !["next_handshake_state_"] = y] \in Socket
  BY DEF Socket
<1>3. \A y \in {"none", "connect", "confirm"} : [x EXCEPT !["user_callback"] = y] \in Socket
  BY DEF Socket
<1>4. ASSUME NEW y \in BOOLEAN
      PROVE  /\ [x EXCEPT !["completed"] = y] \in Socket
             /\ [x EXCEPT !["in_confirm_handshake_"] = y] \in Socket
             /\ [x EXCEPT !["wait_read_callback_"] = y] \in Socket
             /\ [x EXCEPT !["wait_write_callback_"] = y] \in Socket
             /\ [x EXCEPT !["wait_shutdown_callback_"] = y] \in Socket
  BY DEF Socket
<1>5. ASSUME NEW y \in BOOLEAN
      PROVE  /\ [x EXCEPT !["handled_early_data_result_"] = y] \in Socket
             /\ [x EXCEPT !["peek_complete_"] = y] \in Socket
             /\ [x EXCEPT !["held"] = y] \in Socket
             /\ [x EXCEPT !["sent_shutdown"] = y] \in Socket
             /\ [x EXCEPT !["received_shutdown"] = y] \in Socket
  BY DEF Socket
<1>6. ASSUME NEW y \in BOOLEAN
      PROVE  /\ [x EXCEPT !["started"] = y] \in Socket
             /\ [x EXCEPT !["connected"] = y] \in Socket
             /\ [x EXCEPT !["shut"] = y] \in Socket
  BY DEF Socket
<1> QED BY <1>1, <1>2, <1>3, <1>4, <1>5, <1>6

\* The socket x with one more operation armed.
WithOp(x, op) ==
  IF op \in ReadOps THEN [x EXCEPT !.reading = Append(x.reading, op)]
                    ELSE [x EXCEPT !.writing = Append(x.writing, op)]

\* Arm adds an operation to a socket.
LEMMA ArmIs ==
  ASSUME NEW v \in World, NEW e \in Ends, NEW op \in ReadOps \union WriteOps
  PROVE  Having(Arm(v, e, op), v, e, WithOp(v.s[e], op))
<1> DEFINE y == WithOp(v.s[e], op)
<1>1. Arm(v, e, op) = [v EXCEPT !.s = [v.s EXCEPT ![e] = y]]
  BY DEF Arm, World, WithOp
<1>2. v.s[e] \in Socket /\ v.s[e].reading \in Seq(ReadOps) /\ v.s[e].writing \in Seq(WriteOps)
  BY WorldHas DEF Socket
<1>3. y \in Socket
  <2>1. CASE op \in ReadOps
    <3>1. Append(v.s[e].reading, op) \in Seq(ReadOps) BY <1>2, <2>1, AppendProperties
    <3>2. y = [v.s[e] EXCEPT !.reading = Append(v.s[e].reading, op)] BY <2>1 DEF WithOp
    <3> QED BY <1>2, <3>1, <3>2 DEF Socket
  <2>2. CASE op \notin ReadOps
    <3>1. Append(v.s[e].writing, op) \in Seq(WriteOps) BY <1>2, <2>2, AppendProperties
    <3>2. y = [v.s[e] EXCEPT !.writing = Append(v.s[e].writing, op)] BY <2>2 DEF WithOp
    <3> QED BY <1>2, <3>1, <3>2 DEF Socket
  <2> QED BY <2>1, <2>2
<1> HIDE DEF y
<1>4. Having(Arm(v, e, op), v, e, y) BY <1>1, <1>3, HavingIs
<1> QED BY <1>4 DEF y

\* What u is when the stream to end e becomes r.
Flows(u, v, e, r) ==
  u \in World /\ u.s = v.s /\ u.q = v.q /\ u.in[e] = r /\ u.in[Peer(e)] = v.in[Peer(e)]

\* Replacing the stream towards an end.
LEMMA FlowsIs ==
  ASSUME NEW v \in World, NEW e \in Ends, NEW r \in Seq(Records)
  PROVE  Flows([v EXCEPT !.in = [v.in EXCEPT ![e] = r]], v, e, r)
<1> DEFINE u == [v EXCEPT !.in = [v.in EXCEPT ![e] = r]]
<1>1. u \in World BY DEF World
<1>2. u.in = [v.in EXCEPT ![e] = r] /\ u.s = v.s /\ u.q = v.q BY DEF World
<1>3. v.in \in [Ends -> Seq(Records)] BY DEF World
<1>4. u.in[e] = r /\ u.in[Peer(e)] = v.in[Peer(e)] BY <1>2, <1>3, PeerIs
<1> QED BY <1>1, <1>2, <1>4 DEF Flows

\* Send appends to the peer's stream, unless the peer has closed.
LEMMA SendIs ==
  ASSUME NEW v \in World, NEW e \in Ends, NEW record \in Records
  PROVE  LET t == v.in[Peer(e)]
         IN Flows(Send(v, e, record), v, Peer(e),
                  IF v.s[Peer(e)].disconnected_ THEN t ELSE Append(t, record))
<1> DEFINE d == Peer(e)  r == Append(v.in[d], record)
<1>1. d \in Ends BY PeerIs
<1>2. v.in[d] \in Seq(Records) BY <1>1, WorldHas
<1>3. r \in Seq(Records) BY <1>2, AppendProperties
<1>4. CASE v.s[d].disconnected_ BY <1>4 DEF Send, Flows
<1>5. CASE ~v.s[d].disconnected_
  <2>1. Send(v, e, record) = [v EXCEPT !.in = [v.in EXCEPT ![d] = r]] BY <1>5 DEF Send, World
  <2> HIDE DEF d, r
  <2>2. Flows(Send(v, e, record), v, d, r) BY <2>1, <1>1, <1>3, FlowsIs
  <2> QED BY <2>2, <1>5 DEF d, r
<1> QED BY <1>4, <1>5

\* Taken drops the first records.
LEMMA TakenIs ==
  ASSUME NEW v \in World, NEW e \in Ends, NEW n \in 0 .. Len(v.in[e])
  PROVE  Flows(Taken(v, e, n), v, e, SubSeq(v.in[e], n + 1, Len(v.in[e])))
<1> DEFINE r == SubSeq(v.in[e], n + 1, Len(v.in[e]))
<1>1. v.in[e] \in Seq(Records) BY WorldHas
<1>2. r \in Seq(Records) BY <1>1, DataDrop
<1>3. Taken(v, e, n) = [v EXCEPT !.in = [v.in EXCEPT ![e] = r]] BY DEF Taken, World
<1> HIDE DEF r
<1>4. Flows(Taken(v, e, n), v, e, r) BY <1>2, <1>3, FlowsIs
<1> QED BY <1>4 DEF r

\* The members that the callbacks of a socket depend on are the same.
Like(x, y) ==
  /\ y.user_callback = x.user_callback /\ y.wait_read_callback_ = x.wait_read_callback_
  /\ y.wait_write_callback_ = x.wait_write_callback_
  /\ y.wait_shutdown_callback_ = x.wait_shutdown_callback_ /\ y.disconnected_ = x.disconnected_
  /\ y.started = x.started /\ y.connected = x.connected /\ y.shut = x.shut
  /\ y.to_send = x.to_send /\ y.sent = x.sent /\ y.got = x.got

\* Steps of end e that leave its callbacks as they are and take no operation away.
Moves(v, u, e) ==
  /\ Good(u)
  /\ u.s[Peer(e)] = v.s[Peer(e)] /\ u.q[Peer(e)] = v.q[Peer(e)]
  /\ \A d \in Ends : Budget(v, d) => Budget(u, d)
  /\ Data(u.in["server"]) <= Data(v.in["server"])
  /\ Due(v, e) \subseteq Due(u, e)
  /\ Like(v.s[e], u.s[e])

\* The same, of the library.
Lib(v, u, e) == Moves(v, u, e) /\ u.s[e].next_handshake_state_ = v.s[e].next_handshake_state_

\* The data under way is counted.
LEMMA DataOf == ASSUME NEW v, Good(v) PROVE Data(v.in["server"]) \in Nat
BY WorldHas, DataType DEF Good, Ends

\* Doing nothing is a move.
LEMMA MovesRefl == ASSUME NEW v, Good(v), NEW e PROVE Moves(v, v, e)
BY DataOf DEF Moves, Like

\* Moves add up.
LEMMA MovesTrans ==
  ASSUME NEW v, NEW u, NEW t, NEW e, Good(v), Moves(v, u, e), Moves(u, t, e)
  PROVE  Moves(v, t, e)
<1>1. Data(v.in["server"]) \in Nat /\ Data(u.in["server"]) \in Nat /\ Data(t.in["server"]) \in Nat
  BY DataOf DEF Moves
<1>2. Data(t.in["server"]) <= Data(v.in["server"]) BY <1>1 DEF Moves
<1>3. Like(v.s[e], t.s[e]) BY DEF Moves, Like
<1> QED BY <1>2, <1>3 DEF Moves

\* At most three records are sent without looking for room.
LEMMA SpareType == ASSUME NEW e \in Ends, NEW x \in Socket PROVE Spare(e, x) \in 0 .. 3
BY DEF Spare, Ends, Socket

\* What becomes of the budgets when only the socket of end e changes.
LEMMA HavingMoves ==
  ASSUME NEW v, Good(v), NEW e \in Ends, NEW y, NEW u, Having(u, v, e, y),
         e = "server" => y.ssl \notin {"finishing", "rejected"} /\ ~y.held,
         Like(v.s[e], y), Ops(v.s[e]) \subseteq Ops(y),
         Spare(e, y) <= Spare(e, v.s[e])
  PROVE  Moves(v, u, e)
<1>1. v \in World /\ u \in World /\ v.s[e] \in Socket /\ y \in Socket
  BY WorldHas DEF Good, Having
<1>2. Spare(e, y) \in Nat /\ Spare(e, v.s[e]) \in Nat BY <1>1, SpareType
<1>3. \A d \in Ends : Len(v.in[d]) \in Nat BY <1>1, WorldHas, LenProperties
<1>4. ASSUME NEW d \in Ends, Budget(v, d) PROVE Budget(u, d)
  <2>1. CASE d = e
    <3>1. Len(v.in[Peer(e)]) \in Nat BY <1>3, PeerIs
    <3>2. u.in = v.in /\ u.s[e] = y BY DEF Having
    <3> QED BY <3>1, <3>2, <2>1, <1>4, <1>2, TlsAssumption DEF Budget
  <2>2. CASE d # e
    <3>1. d = Peer(e) BY <2>2, PeerIs
    <3> QED BY <3>1, <1>4 DEF Budget, Having
  <2> QED BY <2>1, <2>2
<1>5. Good(u)
  <2>1. CASE e = "server" BY <2>1, <1>1 DEF Good, Having
  <2>2. CASE e = "client"
    <3>1. Peer(e) = "server" BY <2>2 DEF Peer
    <3> QED BY <3>1, <1>1 DEF Good, Having
  <2> QED BY <2>1, <2>2 DEF Ends
<1>6. Data(u.in["server"]) <= Data(v.in["server"]) BY DataOf DEF Having
<1>7. Due(v, e) \subseteq Due(u, e) BY DEF Due, Having
<1> QED BY <1>4, <1>5, <1>6, <1>7 DEF Moves, Having

\* The first records of the stream to end e are taken.
LEMMA TakenMoves ==
  ASSUME NEW v, Good(v), NEW e \in Ends, NEW n \in 0 .. Len(v.in[e])
  PROVE  /\ Lib(v, Taken(v, e, n), e) /\ Taken(v, e, n).s = v.s
         /\ Taken(v, e, n).in[e] = SubSeq(v.in[e], n + 1, Len(v.in[e]))
         /\ e = "server" /\ n > 0 /\ Head(v.in[e]) = "data" =>
              Data(Taken(v, e, n).in["server"]) + 1 <= Data(v.in["server"])
<1> DEFINE u == Taken(v, e, n)
           r == v.in[e]
           t == SubSeq(r, n + 1, Len(r))
<1>1. v \in World BY DEF Good
<1>2. Flows(u, v, e, t) BY <1>1, TakenIs
<1>3. r \in Seq(Records) BY <1>1, WorldHas
<1>4. /\ Len(t) = Len(r) - n /\ Data(t) <= Data(r)
      /\ n > 0 /\ Head(r) = "data" => Data(t) + 1 <= Data(r)
  BY <1>3, DataDrop
<1> HIDE DEF u, t
<1>5. Good(u) BY <1>2 DEF Good, Flows
<1>6. ASSUME NEW d \in Ends, Budget(v, d) PROVE Budget(u, d)
  <2>1. CASE Peer(d) = e
    <3>1. Len(r) \in Nat BY <1>3, LenProperties
    <3>2. Spare(d, v.s[d]) \in Nat BY <1>1, WorldHas, SpareType
    <3> QED BY <3>1, <3>2, <2>1, <1>2, <1>4, <1>6, TlsAssumption DEF Budget, Flows
  <2>2. CASE Peer(d) # e
    <3>1. Peer(d) = Peer(e) BY <2>2, PeerIs
    <3> QED BY <3>1, <1>2, <1>6 DEF Budget, Flows
  <2> QED BY <2>1, <2>2
<1>7. Data(u.in["server"]) <= Data(v.in["server"])
  <2>1. CASE e = "server" BY <2>1, <1>2, <1>4 DEF Flows
  <2>2. CASE e = "client" BY <2>2, <1>2, DataOf DEF Flows, Peer
  <2> QED BY <2>1, <2>2 DEF Ends
<1>8. u.s = v.s /\ u.q = v.q BY <1>2 DEF Flows
<1>9. Moves(v, u, e) BY <1>5, <1>6, <1>7, <1>8 DEF Moves, Like, Due
<1> QED BY <1>9, <1>8, <1>2, <1>4 DEF Lib, Flows, u, t

\* A record of the handshake is sent, which the budget of end e allows, and
\* the socket moves on.
LEMMA SendMoves ==
  ASSUME NEW v, Good(v), NEW e \in Ends, NEW record \in Records \ {"data"}, NEW y, NEW u,
         Having(u, Send(v, e, record), e, y),
         e = "server" => y.ssl \notin {"finishing", "rejected"} /\ ~y.held,
         Like(v.s[e], y), Ops(v.s[e]) \subseteq Ops(y),
         \/ Spare(e, y) + 1 <= Spare(e, v.s[e])
         \/ Room(v, e) /\ Spare(e, y) <= Spare(e, v.s[e])
  PROVE  Moves(v, u, e)
<1> DEFINE x == Send(v, e, record)
           r == v.in[Peer(e)]
           t == IF v.s[Peer(e)].disconnected_ THEN r ELSE Append(r, record)
<1>1. v \in World /\ record \in Records BY DEF Good
<1>2. Flows(x, v, Peer(e), t) BY <1>1, SendIs
<1>3. r \in Seq(Records) BY <1>1, PeerIs, WorldHas
<1>4. Len(r) \in Nat /\ Len(Append(r, record)) = Len(r) + 1 BY <1>1, <1>3, LenProperties, AppendProperties
<1>5. Data(t) = Data(r)
  <2>1. Data(r) \in Nat /\ Data(Append(r, record)) = Data(r) + 0
    BY <1>3, <1>1, DataAppend, DataType
  <2>2. Data(Append(r, record)) = Data(r) BY <2>1
  <2> QED BY <2>2
<1>6. Len(t) <= Len(r) + 1 /\ Len(t) \in Nat /\ (Room(v, e) => Len(t) = Len(r) \/ Len(t) <= Capacity)
  BY <1>4, TlsAssumption DEF Room
<1> HIDE DEF x, t
<1>7. /\ u \in World /\ u.s[e] = y /\ u.s[Peer(e)] = v.s[Peer(e)] /\ u.q = v.q
      /\ u.in[Peer(e)] = t /\ u.in[e] = v.in[e]
  <2>1. Having(u, x, e, y) BY DEF x
  <2> QED BY <2>1, <1>2, PeerIs DEF Having, Flows
<1>8. Good(u)
  <2>1. CASE e = "server" BY <2>1, <1>7 DEF Good
  <2>2. CASE e = "client"
    <3>1. Peer(e) = "server" BY <2>2 DEF Peer
    <3> QED BY <3>1, <1>7 DEF Good
  <2> QED BY <2>1, <2>2 DEF Ends
<1>9. v.s[e] \in Socket /\ y \in Socket BY <1>1, <1>7, WorldHas
<1>10. Spare(e, y) \in 0 .. 3 /\ Spare(e, v.s[e]) \in 0 .. 3 BY <1>9, SpareType
<1>11. ASSUME NEW d \in Ends, Budget(v, d) PROVE Budget(u, d)
  <2>1. CASE d = e
    <3>1. Len(t) + Spare(e, y) <= Capacity + 3 BY <2>1, <1>11, <1>10, <1>6, <1>4, TlsAssumption DEF Budget
    <3> QED BY <3>1, <2>1, <1>7 DEF Budget
  <2>2. CASE d # e
    <3>1. d = Peer(e) /\ Peer(d) = e BY <2>2, PeerIs
    <3> QED BY <3>1, <1>7, <1>11 DEF Budget
  <2> QED BY <2>1, <2>2
<1>12. Data(u.in["server"]) <= Data(v.in["server"])
  <2>1. CASE e = "server" BY <2>1, <1>7, DataOf
  <2>2. CASE e = "client"
    <3>1. Peer(e) = "server" BY <2>2 DEF Peer
    <3> QED BY <3>1, <1>7, <1>5, DataOf
  <2> QED BY <2>1, <2>2 DEF Ends
<1>13. Due(v, e) \subseteq Due(u, e) BY <1>7 DEF Due
<1> QED BY <1>7, <1>8, <1>11, <1>12, <1>13 DEF Moves

\* A call of the library may do nothing.
LEMMA LibRefl == ASSUME NEW v, Good(v), NEW e PROVE Lib(v, v, e)
BY MovesRefl DEF Lib

\* Calls of the library add up.
LEMMA LibTrans ==
  ASSUME NEW v, NEW u, NEW t, NEW e, Good(v), Lib(v, u, e), Lib(u, t, e)
  PROVE  Lib(v, t, e)
BY MovesTrans DEF Lib

\* The handshake of the library moves on without sending.
LEMMA SslLib ==
  ASSUME NEW v, Good(v), NEW e \in Ends, NEW x \in {"early", "finishing", "up", "rejected", "failed"},
         e = "server" => x \notin {"finishing", "rejected"}
  PROVE  /\ Lib(v, Set(v, e, "ssl", x), e) /\ Set(v, e, "ssl", x).in = v.in
         /\ Set(v, e, "ssl", x).s[e] = [v.s[e] EXCEPT !["ssl"] = x]
<1> DEFINE y == [v.s[e] EXCEPT !["ssl"] = x]  u == Set(v, e, "ssl", x)
<1>1. v \in World /\ v.s[e] \in Socket BY WorldHas DEF Good
<1>2. y \in Socket BY <1>1, SocketSet
<1>3. Having(u, v, e, y) BY <1>1, <1>2, SetIs
<1>4. /\ Like(v.s[e], y) /\ Ops(y) = Ops(v.s[e]) /\ y.ssl = x /\ y.held = v.s[e].held
      /\ y.next_handshake_state_ = v.s[e].next_handshake_state_
  BY <1>1 DEF Socket, Like, Ops
<1>5. Spare(e, y) <= Spare(e, v.s[e])
  <2>1. y.disconnected_ = v.s[e].disconnected_ BY <1>4 DEF Like
  <2> HIDE DEF y
  <2> QED BY <2>1, <1>4 DEF Spare
<1>6. e = "server" => y.ssl \notin {"finishing", "rejected"} /\ ~y.held BY <1>4 DEF Good
<1> HIDE DEF y, u
<1>7. Moves(v, u, e) BY <1>3, <1>4, <1>5, <1>6, HavingMoves
<1>8. u.s[e] = y /\ u.in = v.in BY <1>3 DEF Having
<1> QED BY <1>4, <1>7, <1>8 DEF Lib, u, y

\* A flag of the socket that no callback depends on.
LEMMA FlagLib ==
  ASSUME NEW v, Good(v), NEW e \in Ends, NEW x \in BOOLEAN,
         NEW f \in {"completed", "in_confirm_handshake_", "handled_early_data_result_", "peek_complete_",
                    "sent_shutdown", "received_shutdown", "held"},
         f = "held" => e = "client" \/ ~x
  PROVE  Lib(v, Set(v, e, f, x), e) /\ Set(v, e, f, x).in = v.in
<1> DEFINE y == [v.s[e] EXCEPT ![f] = x]  u == Set(v, e, f, x)
<1>1. v \in World /\ v.s[e] \in Socket BY WorldHas DEF Good
<1>2. y \in Socket
  <2>1. CASE f \in {"completed", "in_confirm_handshake_"} BY <2>1, <1>1, SocketSet
  <2>2. CASE f \in {"handled_early_data_result_", "peek_complete_", "sent_shutdown", "received_shutdown", "held"}
    BY <2>2, <1>1, SocketSet
  <2> QED BY <2>1, <2>2
<1>3. Having(u, v, e, y) BY <1>1, <1>2, SetIs
<1>4. /\ Like(v.s[e], y) /\ Ops(y) = Ops(v.s[e]) /\ y.ssl = v.s[e].ssl
      /\ y.held = IF f = "held" THEN x ELSE v.s[e].held
      /\ y.next_handshake_state_ = v.s[e].next_handshake_state_
  BY <1>1 DEF Socket, Like, Ops
<1>5. Spare(e, y) <= Spare(e, v.s[e])
  <2>1. y.disconnected_ = v.s[e].disconnected_ BY <1>4 DEF Like
  <2>2. Spare(e, y) = Spare(e, v.s[e]) BY <2>1, <1>4 DEF Spare
  <2> QED BY <2>2, <1>1, SpareType
<1>6. e = "server" => y.ssl \notin {"finishing", "rejected"} /\ ~y.held BY <1>4 DEF Good
<1> HIDE DEF y, u
<1>7. Moves(v, u, e) BY <1>3, <1>4, <1>5, <1>6, HavingMoves
<1> QED BY <1>3, <1>4, <1>7 DEF Lib, Having, u

\* A record of the handshake goes out, and the library moves on with it.
LEMMA SendSslLib ==
  ASSUME NEW v, Good(v), NEW e \in Ends, NEW record \in Records \ {"data"},
         NEW x \in {"waiting", "early", "up", "failed"}, ~v.s[e].disconnected_,
         \/ v.s[e].ssl = "before"
         \/ e = "server" /\ v.s[e].ssl = "waiting" /\ x # "waiting"
         \/ Room(v, e) /\ x # "waiting"
  PROVE  LET u == Set(Send(v, e, record), e, "ssl", x)
         IN  Lib(v, u, e) /\ u.s[e] = [v.s[e] EXCEPT !["ssl"] = x]
<1> DEFINE z == Send(v, e, record)  y == [z.s[e] EXCEPT !["ssl"] = x]  u == Set(z, e, "ssl", x)
<1>1. v \in World /\ v.s[e] \in Socket BY WorldHas DEF Good
<1>2. z \in World /\ z.s[e] = v.s[e] BY <1>1, SendIs DEF Flows
<1> HIDE DEF z
<1>3. y \in Socket BY <1>1, <1>2, SocketSet
<1>4. Having(u, z, e, y) BY <1>2, <1>3, SetIs
<1>5. /\ Like(v.s[e], y) /\ Ops(y) = Ops(v.s[e]) /\ y.ssl = x /\ y.held = v.s[e].held
      /\ y.next_handshake_state_ = v.s[e].next_handshake_state_
  BY <1>1, <1>2 DEF Socket, Like, Ops
<1>6. y.disconnected_ = v.s[e].disconnected_ /\ y = [v.s[e] EXCEPT !["ssl"] = x] BY <1>2, <1>5 DEF Like
<1> HIDE DEF y, u
<1>7. \/ Spare(e, y) + 1 <= Spare(e, v.s[e])
      \/ Room(v, e) /\ Spare(e, y) <= Spare(e, v.s[e])
  BY <1>5, <1>6 DEF Spare, Ends
<1>8. e = "server" => y.ssl \notin {"finishing", "rejected"} /\ ~y.held BY <1>5 DEF Good
<1>9. Having(u, Send(v, e, record), e, y) BY <1>4 DEF z
<1>10. Moves(v, u, e) BY <1>5, <1>7, <1>8, <1>9, SendMoves
<1>11. Lib(v, u, e) /\ u.s[e] = y BY <1>4, <1>5, <1>10 DEF Lib, Having
<1> QED BY <1>11, <1>6 DEF u, z

\* The results of a handshake.
Outcomes == {"ok", "want_read", "want_write", "error", "early_data_rejected"}
Gives(v, x, e) == Lib(v, x.v, e) /\ x.r \in Outcomes

\* A result of the handshake.
LEMMA ResultIs ==
  ASSUME NEW v, NEW u, NEW r \in Outcomes, NEW e, Lib(v, u, e) PROVE Gives(v, Result(u, r), e)
BY DEF Gives, Result

\* A stream with records has a first one.
LEMMA HeadOf ==
  ASSUME NEW v, Good(v), NEW e \in Ends, v.in[e] # << >>
  PROVE  1 \in 0 .. Len(v.in[e]) /\ v.in[e] \in Seq(Records)
<1>1. v.in[e] \in Seq(Records) BY WorldHas DEF Good
<1>2. Len(v.in[e]) \in Nat /\ Len(v.in[e]) # 0 BY <1>1, LenProperties, EmptySeq
<1> QED BY <1>1, <1>2

\* What SSL_do_handshake leaves behind, of the client.
LEMMA ClientHandshakeGives ==
  ASSUME NEW v, Good(v), ~v.s["client"].disconnected_
  PROVE  Gives(v, ClientHandshake(v), "client")
<1> DEFINE ssl == v.s["client"].ssl
           in == v.in["client"]
           e == "client"
           t == Taken(v, e, 1)
           F(u) == IF Room(u, "client")
                     THEN Result(Set(Send(u, "client", "finished"), "client", "ssl", "up"), "ok")
                     ELSE Result(Set(u, "client", "ssl", "finishing"), "want_write")
<1>1. e \in Ends BY DEF Ends
<1>2. ssl \in {"before", "waiting", "early", "finishing", "up", "rejected", "failed"}
  BY <1>1, WorldHas DEF Good, Socket
<1>3. ASSUME NEW u, Good(u), ~u.s["client"].disconnected_ PROVE Gives(u, F(u), "client")
  <2>1. CASE Room(u, "client")
    <3>1. Lib(u, Set(Send(u, "client", "finished"), "client", "ssl", "up"), "client")
      BY <1>1, <1>3, <2>1, SendSslLib DEF Records
    <3> QED BY <2>1, <3>1, ResultIs DEF Outcomes
  <2>2. CASE ~Room(u, "client")
    <3>1. Lib(u, Set(u, "client", "ssl", "finishing"), "client") BY <1>1, <1>3, SslLib
    <3> QED BY <2>2, <3>1, ResultIs DEF Outcomes
  <2> QED BY <2>1, <2>2
<1>4. CASE ssl \in {"up", "failed", "rejected"}
  <2>1. ClientHandshake(v) \in {Result(v, "ok"), Result(v, "error"), Result(v, "early_data_rejected")}
    BY <1>4 DEF ClientHandshake
  <2> QED BY <2>1, LibRefl, ResultIs DEF Outcomes
<1>5. CASE ssl = "finishing"
  <2>1. ClientHandshake(v) = F(v) BY <1>5 DEF ClientHandshake
  <2> QED BY <2>1, <1>3
<1>6. CASE ssl = "before"
  <2>1. Lib(v, Set(Send(v, e, "hello_early"), e, "ssl", "early"), e)
    BY <1>1, <1>6, SendSslLib DEF Records
  <2>2. Lib(v, Set(Send(v, e, "hello"), e, "ssl", "waiting"), e)
    BY <1>1, <1>6, SendSslLib DEF Records
  <2>3. ClientHandshake(v) \in {Result(Set(Send(v, e, "hello_early"), e, "ssl", "early"), "ok"),
                                Result(Set(Send(v, e, "hello"), e, "ssl", "waiting"), "want_read")}
    BY <1>6 DEF ClientHandshake
  <2> QED BY <2>1, <2>2, <2>3, ResultIs DEF Outcomes
<1>7. CASE ssl \in {"waiting", "early"} /\ in = << >>
  <2>1. ClientHandshake(v) = Result(v, "want_read") BY <1>7 DEF ClientHandshake
  <2> QED BY <2>1, LibRefl, ResultIs DEF Outcomes
<1>8. CASE ssl \in {"waiting", "early"} /\ in # << >>
  <2>1. Lib(v, t, e) /\ t.s = v.s BY <1>1, <1>8, HeadOf, TakenMoves
  <2>2. Good(t) BY <2>1 DEF Lib, Moves
  <2> HIDE DEF t
  <2>3. CASE Head(in) = "flight"
    <3>1. ClientHandshake(v) = F(t) BY <1>8, <2>3 DEF ClientHandshake, t
    <3>2. Gives(t, F(t), e) BY <1>3, <2>1, <2>2
    <3> HIDE DEF F
    <3> QED BY <3>1, <3>2, <2>1, LibTrans DEF Gives
  <2>4. CASE Head(in) = "flight_rejecting"
    <3>1. ClientHandshake(v) = Result(Set(t, e, "ssl", "rejected"), "early_data_rejected")
      BY <1>8, <2>4 DEF ClientHandshake, t
    <3>2. Lib(t, Set(t, e, "ssl", "rejected"), e) BY <1>1, <2>2, SslLib
    <3>3. Lib(v, Set(t, e, "ssl", "rejected"), e) BY <3>2, <2>1, LibTrans
    <3> QED BY <3>1, <3>3, ResultIs DEF Outcomes
  <2>5. CASE Head(in) \notin {"flight", "flight_rejecting"}
    <3>1. ClientHandshake(v) = Result(Set(v, e, "ssl", "failed"), "error")
      BY <1>8, <2>5 DEF ClientHandshake, Fail
    <3>2. Lib(v, Set(v, e, "ssl", "failed"), e) BY <1>1, SslLib
    <3> QED BY <3>1, <3>2, ResultIs DEF Outcomes
  <2> QED BY <2>3, <2>4, <2>5
<1> QED BY <1>2, <1>4, <1>5, <1>6, <1>7, <1>8

\* A record sent out of the budget.
LEMMA SendOnly ==
  ASSUME NEW v \in World, NEW e \in Ends, NEW record \in Records
  PROVE  Send(v, e, record) \in World /\ Send(v, e, record).s = v.s
BY SendIs DEF Flows

\* What SSL_do_handshake leaves behind, of the server.
LEMMA ServerHandshakeGives ==
  ASSUME NEW v, Good(v), ~v.s["server"].disconnected_
  PROVE  Gives(v, ServerHandshake(v), "server")
<1> DEFINE ssl == v.s["server"].ssl
           in == v.in["server"]
           e == "server"
           t == Taken(v, e, 1)
           Flown(record, state) == Set(Send(t, e, record), e, "ssl", state)
<1>1. e \in Ends BY DEF Ends
<1>2. ssl \in {"before", "waiting", "early", "up", "failed"}
  <2>1. v.s["server"] \in Socket BY <1>1, WorldHas DEF Good
  <2> QED BY <2>1 DEF Good, Socket
<1>3. CASE ssl \in {"up", "early", "failed"} \/ (ssl \in {"before", "waiting"} /\ in = << >>)
  <2>1. ServerHandshake(v) \in {Result(v, "ok"), Result(v, "error"), Result(v, "want_read")}
    BY <1>3 DEF ServerHandshake
  <2> QED BY <2>1, LibRefl, ResultIs DEF Outcomes
<1>4. ASSUME ssl \in {"before", "waiting"}, in # << >>
      PROVE  /\ Lib(v, t, e) /\ t.s = v.s /\ Good(t)
             /\ Lib(v, Set(v, e, "ssl", "failed"), e)
  <2>1. Lib(v, t, e) /\ t.s = v.s BY <1>1, <1>4, HeadOf, TakenMoves
  <2>2. Lib(v, Set(v, e, "ssl", "failed"), e) BY <1>1, SslLib
  <2> QED BY <2>1, <2>2 DEF Lib, Moves
<1>5. ASSUME ssl = "before", in # << >>, NEW record \in Records \ {"data"},
             NEW state \in {"waiting", "failed"}
      PROVE  Lib(v, Flown(record, state), e)
  <2>1. Lib(v, t, e) /\ t.s = v.s /\ Good(t) BY <1>4, <1>5
  <2> HIDE DEF t
  <2>2. Lib(t, Flown(record, state), e) BY <1>1, <1>5, <2>1, SendSslLib
  <2> QED BY <2>1, <2>2, LibTrans
<1>6. ASSUME ssl = "before", in # << >>
      PROVE  Lib(v, Send(Flown("flight", "early"), e, "ticket"), e)
  <2>1. Lib(v, t, e) /\ t.s = v.s /\ Good(t) BY <1>4, <1>6
  <2> DEFINE a == Send(t, e, "flight")
             y == [a.s[e] EXCEPT !["ssl"] = "early"]
             b == Set(a, e, "ssl", "early")
             z == Send(b, e, "ticket")
             r == t.in[Peer(e)]
             dis == t.s[Peer(e)].disconnected_
             ra == IF dis THEN r ELSE Append(r, "flight")
             rz == IF dis THEN ra ELSE Append(ra, "ticket")
  <2> HIDE DEF t
  <2>2. t \in World /\ t.s[e] \in Socket /\ r \in Seq(Records) /\ Peer(e) \in Ends
    BY <2>1, <1>1, PeerIs, WorldHas DEF Good
  <2>3. Flows(a, t, Peer(e), ra) BY <1>1, <2>2, SendIs DEF Records
  <2> HIDE DEF a
  <2>4. a \in World /\ a.s = t.s /\ a.q = t.q BY <2>3 DEF Flows
  <2>5. y \in Socket BY <2>4, <2>2, SocketSet
  <2>6. Having(b, a, e, y) BY <1>1, <2>4, <2>5, SetIs
  <2> HIDE DEF b
  <2>7. b \in World /\ b.in = a.in /\ b.s[Peer(e)] = t.s[Peer(e)] /\ b.q = t.q /\ b.s[e] = y
    BY <2>6, <2>4 DEF Having
  <2>8. b.in[Peer(e)] = ra BY <2>7, <2>3 DEF Flows
  <2>9. Flows(z, b, Peer(e), rz) BY <1>1, <2>7, <2>8, SendIs DEF Records
  <2> HIDE DEF z, y
  <2>10. /\ z \in World /\ z.s[e] = y /\ z.s[Peer(e)] = t.s[Peer(e)] /\ z.q = t.q
         /\ z.in[Peer(e)] = rz /\ z.in[e] = t.in[e]
    BY <2>9, <2>7, <2>3, PeerIs, <1>1 DEF Flows
  <2>11. /\ Like(t.s[e], y) /\ Ops(y) = Ops(t.s[e]) /\ y.ssl = "early" /\ y.held = t.s[e].held
         /\ y.next_handshake_state_ = t.s[e].next_handshake_state_
    BY <2>2, <2>4 DEF Socket, Like, Ops, y
  <2>12. Len(rz) <= Len(r) + 2 /\ Len(r) \in Nat /\ Len(rz) \in Nat
    <3>1. Len(r) \in Nat /\ Append(r, "flight") \in Seq(Records) /\ Len(Append(r, "flight")) = Len(r) + 1
      BY <2>2, LenProperties, AppendProperties DEF Records
    <3>2. Len(Append(Append(r, "flight"), "ticket")) = Len(r) + 2
      BY <3>1, AppendProperties DEF Records
    <3> QED BY <3>1, <3>2
  <2>13. Spare(e, t.s[e]) = 3 /\ Spare(e, y) = 1
    BY <2>1, <2>11, <1>6 DEF Spare, Like
  <2>14. Good(z) BY <2>10, <2>11, <2>1 DEF Good
  <2>15. ASSUME NEW d \in Ends, Budget(t, d) PROVE Budget(z, d)
    <3>1. CASE d = e
      <4>1. Len(rz) + 1 <= Capacity + 3 BY <3>1, <2>15, <2>13, <2>12, TlsAssumption DEF Budget
      <4> QED BY <4>1, <3>1, <2>10, <2>13 DEF Budget
    <3>2. CASE d # e
      <4>1. d = Peer(e) /\ Peer(d) = e BY <3>2, <1>1, PeerIs
      <4> QED BY <4>1, <2>10, <2>15 DEF Budget
    <3> QED BY <3>1, <3>2
  <2>16. Data(z.in["server"]) <= Data(t.in["server"]) BY <2>10, <2>1, DataOf
  <2>17. Lib(t, z, e) BY <2>10, <2>11, <2>14, <2>15, <2>16 DEF Lib, Moves, Due
  <2>18. Lib(v, z, e) BY <2>1, <2>17, LibTrans
  <2> QED BY <2>18 DEF z, b, a
<1>7. CASE ssl = "before" /\ in # << >>
  <2>1. ServerHandshake(v) \in
          {Result(Set(v, e, "ssl", "failed"), "error"), Result(Flown("alert", "failed"), "error"),
           Result(Flown("flight", "waiting"), "want_read"),
           Result(Send(Flown("flight", "early"), e, "ticket"), "ok"),
           Result(Flown("flight_rejecting", "waiting"), "want_read")}
    BY <1>7 DEF ServerHandshake, Fail
  <2>2. Lib(v, Flown("alert", "failed"), e) BY <1>5, <1>7 DEF Records
  <2>3. Lib(v, Flown("flight", "waiting"), e) BY <1>5, <1>7 DEF Records
  <2>4. Lib(v, Flown("flight_rejecting", "waiting"), e) BY <1>5, <1>7 DEF Records
  <2>5. Lib(v, Send(Flown("flight", "early"), e, "ticket"), e) BY <1>6, <1>7
  <2>6. Lib(v, Set(v, e, "ssl", "failed"), e) BY <1>4, <1>7
  <2> HIDE DEF Flown
  <2> QED BY <2>1, <2>2, <2>3, <2>4, <2>5, <2>6, ResultIs DEF Outcomes
<1>8. CASE ssl = "waiting" /\ in # << >>
  <2>1. ServerHandshake(v) \in
          {Result(Set(v, e, "ssl", "failed"), "error"), Result(t, "want_read"),
           Result(Set(Send(t, e, "ticket"), e, "ssl", "up"), "ok")}
    BY <1>8 DEF ServerHandshake, Fail
  <2>2. Lib(v, t, e) /\ t.s = v.s /\ Good(t) /\ Lib(v, Set(v, e, "ssl", "failed"), e) BY <1>4, <1>8
  <2> HIDE DEF t
  <2>3. Lib(t, Set(Send(t, e, "ticket"), e, "ssl", "up"), e) BY <1>1, <1>8, <2>2, SendSslLib DEF Records
  <2>4. Lib(v, Set(Send(t, e, "ticket"), e, "ssl", "up"), e) BY <2>2, <2>3, LibTrans
  <2> QED BY <2>1, <2>2, <2>4, ResultIs DEF Outcomes
<1> QED BY <1>2, <1>3, <1>7, <1>8

\* The same for either end.
LEMMA HandshakeGives ==
  ASSUME NEW v, Good(v), NEW e \in Ends, ~v.s[e].disconnected_
  PROVE  Gives(v, SSL_do_handshake(v, e), e)
BY ClientHandshakeGives, ServerHandshakeGives DEF SSL_do_handshake, Ends

\* There is a first record that is not passed over, or none.
LEMMA PassedIs ==
  ASSUME NEW v, Good(v), NEW e \in Ends, NEW over
  PROVE  Passed(v, e, over) \in 0 .. Len(v.in[e])
<1> DEFINE r == v.in[e]
           R == {p \in Nat \X Nat : p[1] < p[2]}
           X == {k \in 1 .. Len(r) : r[k] \notin over}
<1>1. r \in Seq(Records) BY WorldHas DEF Good
<1>2. Len(r) \in Nat BY <1>1, LenProperties
<1>3. \E n \in 0 .. Len(r) :
        /\ \A i \in 1 .. n : r[i] \in over
        /\ n < Len(r) => r[n + 1] \notin over
  <2>1. CASE X = {}
    <3>1. \A i \in 1 .. Len(r) : r[i] \in over BY <2>1
    <3> QED BY <3>1, <1>2
  <2>2. CASE X # {}
    <3>1. IsWellFoundedOn(R, Nat) BY NatLessThanWellFounded DEF OpToRel
    <3>2. X \subseteq Nat BY <1>2
    <3> HIDE DEF X, R
    <3>3. PICK x \in X : \A y \in X : ~(<<y, x>> \in R) BY <2>2, <3>1, <3>2, WFMin
    <3>4. x \in 1 .. Len(r) /\ r[x] \notin over BY <3>3 DEF X
    <3>5. ASSUME NEW i \in 1 .. x - 1 PROVE r[i] \in over
      <4>1. i \in 1 .. Len(r) /\ i < x /\ i \in Nat /\ x \in Nat BY <3>4, <1>2
      <4>2. <<i, x>> \in R BY <4>1 DEF R
      <4>3. i \notin X BY <4>2, <3>3
      <4> QED BY <4>1, <4>3 DEF X
    <3>6. x - 1 \in 0 .. Len(r) /\ x - 1 + 1 = x BY <3>4, <1>2
    <3> QED BY <3>4, <3>5, <3>6
  <2> QED BY <2>1, <2>2
<1> HIDE DEF r
<1> QED BY <1>3 DEF Passed, r

\* A world in which only the cache changes.
LEMMA CachedLib ==
  ASSUME NEW v, Good(v), NEW e \in Ends, NEW n \in 0 .. 2
  PROVE  LET u == [v EXCEPT !.cached = n] IN Lib(v, u, e) /\ u.in = v.in /\ u.s = v.s
<1> DEFINE u == [v EXCEPT !.cached = n]
<1>1. u \in World /\ u.s = v.s /\ u.in = v.in /\ u.q = v.q BY DEF Good, World
<1> HIDE DEF u
<1>2. Good(u) BY <1>1 DEF Good
<1>3. Data(u.in["server"]) <= Data(v.in["server"]) BY <1>1, DataOf
<1>4. Lib(v, u, e) BY <1>1, <1>2, <1>3 DEF Lib, Moves, Like, Due, Budget
<1> QED BY <1>1, <1>4 DEF u

\* Passing over records is a call of the library.
LEMMA PassLib ==
  ASSUME NEW v, Good(v), NEW e \in Ends, NEW over
  PROVE  Lib(v, Pass(v, e, over), e)
<1> DEFINE n == Passed(v, e, over)
           t == Taken(v, e, n)
           k == IF early_enabled /\ t.cached < 2 THEN t.cached + 1 ELSE t.cached
<1>1. n \in 0 .. Len(v.in[e]) BY PassedIs
<1>2. Lib(v, t, e) BY <1>1, TakenMoves
<1>3. Good(t) BY <1>2 DEF Lib, Moves
<1>4. Lib(t, NewSessionCallback(t), e)
  <2>1. t.cached \in 0 .. 2 BY <1>3 DEF Good, World
  <2>2. k \in 0 .. 2 BY <2>1
  <2> HIDE DEF t
  <2>3. NewSessionCallback(t) = [t EXCEPT !.cached = k] BY <1>3 DEF NewSessionCallback, Good, World
  <2> HIDE DEF k
  <2> QED BY <2>2, <2>3, <1>3, CachedLib
<1> HIDE DEF t, n
<1>5. Lib(v, NewSessionCallback(t), e) BY <1>2, <1>4, LibTrans
<1>6. ASSUME NEW u, Lib(v, u, e) PROVE Lib(v, Set(u, e, "ssl", "up"), e)
  <2>1. Good(u) BY <1>6 DEF Lib, Moves
  <2>2. Lib(u, Set(u, e, "ssl", "up"), e) BY <2>1, SslLib
  <2> QED BY <1>6, <2>2, LibTrans
<1>7. \E u \in {t, NewSessionCallback(t)} : Pass(v, e, over) \in {u, Set(u, e, "ssl", "up")}
  BY DEF Pass, t, n
<1> QED BY <1>2, <1>5, <1>6, <1>7

\* A call that reads: the server takes a record of data off the stream for each
\* that it hands out.
Reads(v, x, e) ==
  /\ Lib(v, x.v, e)
  /\ e = "server" /\ x.r = "data" => Data(x.v.in["server"]) + 1 <= Data(v.in["server"])

\* The library keeps a world well formed, and closes nothing.
LEMMA LibGood == ASSUME NEW v, NEW u, NEW e, Lib(v, u, e) PROVE Good(u) /\ u.s[e].disconnected_ = v.s[e].disconnected_
BY DEF Lib, Moves, Like

\* A call that took no data of the client's.
LEMMA ReadsLib ==
  ASSUME NEW v, NEW u, NEW r, NEW e, Lib(v, u, e), r # "data" \/ e # "server"
  PROVE  Reads(v, Result(u, r), e)
BY DEF Reads, Result

\* What a call reads of u, for a world v from which the library came to u.
LEMMA ReadsAfter ==
  ASSUME NEW v, NEW u, NEW x, NEW e, Good(v), Lib(v, u, e), Reads(u, x, e)
  PROVE  Reads(v, x, e)
<1>1. Lib(v, x.v, e) BY LibTrans DEF Reads
<1>2. Data(v.in["server"]) \in Nat /\ Data(u.in["server"]) \in Nat /\ Data(x.v.in["server"]) \in Nat
  BY <1>1, DataOf, LibGood
<1>3. Data(u.in["server"]) <= Data(v.in["server"]) BY DEF Lib, Moves
<1> QED BY <1>1, <1>2, <1>3 DEF Reads

\* A record of data that the server reads is one less under way.
LEMMA ReadRecordReads ==
  ASSUME NEW v, Good(v), NEW e \in Ends, NEW peek \in BOOLEAN, e = "server" => ~peek
  PROVE  Reads(v, ReadRecord(v, e, peek), e)
<1> DEFINE u == Pass(v, e, {"ticket", "finished"})
           t == Taken(u, e, 1)
<1>1. Lib(v, u, e) BY PassLib
<1>2. Good(u) BY <1>1, LibGood
<1> HIDE DEF u
<1>3. v.s[e] \in Socket BY WorldHas DEF Good
<1>4. CASE v.s[e].held
  <2>1. e # "server" BY <1>4 DEF Good
  <2>2. ReadRecord(v, e, peek) = Result(Set(v, e, "held", peek), "data") BY <1>4 DEF ReadRecord
  <2>3. e = "client" BY <2>1 DEF Ends
  <2>4. Lib(v, Set(v, e, "held", peek), e) BY <2>3, FlagLib
  <2> QED BY <2>1, <2>2, <2>4, ReadsLib
<1>5. CASE ~v.s[e].held /\ v.s[e].received_shutdown
  <2>1. ReadRecord(v, e, peek) = Result(v, "zero_return") BY <1>5 DEF ReadRecord
  <2> QED BY <2>1, LibRefl, ReadsLib
<1>6. CASE ~v.s[e].held /\ ~v.s[e].received_shutdown
  <2>1. ReadRecord(v, e, peek) =
          CASE u.in[e] = << >> -> Result(u, "want_read")
            [] u.in[e] # << >> /\ Head(u.in[e]) = "data" -> Result(Set(t, e, "held", peek), "data")
            [] u.in[e] # << >> /\ Head(u.in[e]) = "close_notify" ->
                 Result(Set(t, e, "received_shutdown", TRUE), "zero_return")
            [] OTHER -> Result(u, "syscall")
    BY <1>6 DEF ReadRecord, u
  <2>2. ASSUME u.in[e] # << >>
        PROVE  /\ Lib(u, t, e) /\ Good(t)
               /\ e = "server" /\ Head(u.in[e]) = "data" => Data(t.in["server"]) + 1 <= Data(u.in["server"])
    <3>1. 1 \in 0 .. Len(u.in[e]) /\ 1 > 0 BY <2>2, <1>2, HeadOf
    <3>2. Lib(u, t, e) BY <3>1, <1>2, TakenMoves
    <3> QED BY <3>1, <3>2, <1>2, TakenMoves, LibGood
  <2>3. CASE u.in[e] = << >>
    <3>1. ReadRecord(v, e, peek) = Result(u, "want_read") BY <2>1, <2>3
    <3> QED BY <3>1, <1>1, ReadsLib
  <2>4. CASE u.in[e] # << >> /\ Head(u.in[e]) = "data"
    <3> DEFINE z == Set(t, e, "held", peek)
    <3>1. ReadRecord(v, e, peek) = Result(z, "data") BY <2>1, <2>4
    <3> HIDE DEF t
    <3>2. e = "client" \/ ~peek BY DEF Ends
    <3>3. Lib(t, z, e) /\ z.in = t.in BY <2>2, <2>4, <3>2, FlagLib
    <3> HIDE DEF z
    <3>4. Lib(u, z, e) BY <3>3, <2>2, <2>4, <1>2, LibTrans
    <3>5. Reads(u, Result(z, "data"), e) BY <3>3, <3>4, <2>2, <2>4 DEF Reads, Result
    <3> QED BY <3>1, <3>5, <1>1, ReadsAfter
  <2>5. CASE u.in[e] # << >> /\ Head(u.in[e]) = "close_notify"
    <3> DEFINE z == Set(t, e, "received_shutdown", TRUE)
    <3>1. ReadRecord(v, e, peek) = Result(z, "zero_return") BY <2>1, <2>5
    <3> HIDE DEF t
    <3>2. Lib(t, z, e) BY <2>2, <2>5, FlagLib
    <3>3. Lib(u, z, e) BY <3>2, <2>2, <2>5, <1>2, LibTrans
    <3>4. Lib(v, z, e) BY <3>3, <1>1, LibTrans
    <3> HIDE DEF z
    <3> QED BY <3>1, <3>4, ReadsLib
  <2>6. CASE u.in[e] # << >> /\ Head(u.in[e]) \notin {"data", "close_notify"}
    <3>1. ReadRecord(v, e, peek) = Result(u, "syscall") BY <2>1, <2>6
    <3> QED BY <3>1, <1>1, ReadsLib
  <2> QED BY <2>3, <2>4, <2>5, <2>6
<1> QED BY <1>3, <1>4, <1>5, <1>6 DEF Socket

\* SSL_read and SSL_peek.
LEMMA SSL_readReads ==
  ASSUME NEW v, Good(v), NEW e \in Ends, NEW peek \in BOOLEAN, e = "server" => ~peek,
         ~v.s[e].disconnected_
  PROVE  Reads(v, SSL_read(v, e, peek), e)
<1> DEFINE h == SSL_do_handshake(v, e)
<1>1. Lib(v, h.v, e) /\ h.r \in Outcomes BY HandshakeGives DEF Gives
<1> HIDE DEF h
<1>2. CASE h.r = "ok"
  <2>1. Reads(h.v, ReadRecord(h.v, e, peek), e) BY <1>1, LibGood, ReadRecordReads
  <2>2. SSL_read(v, e, peek) = ReadRecord(h.v, e, peek) BY <1>2 DEF SSL_read, h
  <2> QED BY <2>1, <2>2, <1>1, ReadsAfter
<1>3. CASE h.r # "ok"
  <2>1. SSL_read(v, e, peek) = h BY <1>3 DEF SSL_read, h
  <2> QED BY <2>1, <1>1 DEF Reads, Outcomes
<1> QED BY <1>2, <1>3

\* A write sends a record of data, or is like a handshake.
LEMMA SSL_writeIs ==
  ASSUME NEW v, Good(v), NEW e \in Ends, ~v.s[e].disconnected_
  PROVE  LET x == SSL_write(v, e)
         IN  \/ x.r # "ok" /\ Lib(v, x.v, e)
             \/ x.r = "ok" /\ \E h : Lib(v, h, e) /\ Room(h, e) /\ x.v = Send(h, e, "data")
<1> DEFINE h == IF v.s[e].ssl = "early" THEN Result(v, "ok") ELSE SSL_do_handshake(v, e)
           x == SSL_write(v, e)
<1>1. Lib(v, h.v, e)
  <2>1. CASE v.s[e].ssl = "early" BY <2>1, LibRefl DEF Result
  <2>2. CASE v.s[e].ssl # "early" BY <2>2, HandshakeGives DEF Gives
  <2> QED BY <2>1, <2>2
<1>2. x = CASE h.r # "ok" -> h
            [] h.r = "ok" /\ ~Room(h.v, e) -> Result(h.v, "want_write")
            [] h.r = "ok" /\ Room(h.v, e) -> Result(Send(h.v, e, "data"), "ok")
  BY DEF SSL_write
<1> HIDE DEF h, x
<1>3. CASE h.r # "ok" BY <1>1, <1>2, <1>3 DEF x
<1>4. CASE h.r = "ok" /\ ~Room(h.v, e)
  <2>1. x = Result(h.v, "want_write") BY <1>2, <1>4
  <2> QED BY <2>1, <1>1 DEF x, Result
<1>5. CASE h.r = "ok" /\ Room(h.v, e)
  <2>1. x = Result(Send(h.v, e, "data"), "ok") BY <1>2, <1>5
  <2> QED BY <2>1, <1>1, <1>5 DEF x, Result
<1> QED BY <1>3, <1>4, <1>5

\* SSL_shutdown sends only where there is room.
LEMMA SSL_shutdownLib ==
  ASSUME NEW v, Good(v), NEW e \in Ends
  PROVE  Lib(v, SSL_shutdown(v, e).v, e)
<1> DEFINE p == Pass(v, e, {"ticket", "finished", "data"})
           u == Set(p, e, "held", FALSE)
           x == SSL_shutdown(v, e)
           z == Send(v, e, "close_notify")
           a == Set(z, e, "sent_shutdown", TRUE)
           t == Taken(u, e, 1)
           b == Set(t, e, "received_shutdown", TRUE)
<1>1. v \in World /\ v.s[e] \in Socket BY WorldHas DEF Good
<1>2. Lib(v, u, e)
  <2>1. Lib(v, p, e) BY PassLib
  <2> HIDE DEF p
  <2>2. Lib(p, u, e) BY <2>1, LibGood, FlagLib
  <2> QED BY <2>1, <2>2, LibTrans
<1>3. ASSUME Room(v, e) PROVE Lib(v, a, e)
  <2> DEFINE y == [z.s[e] EXCEPT !["sent_shutdown"] = TRUE]
  <2>1. z \in World /\ z.s = v.s BY <1>1, SendOnly DEF Records
  <2>2. y \in Socket BY <2>1, <1>1, SocketSet
  <2> HIDE DEF z
  <2>3. Having(a, z, e, y) BY <2>1, <2>2, SetIs
  <2>4. /\ Like(v.s[e], y) /\ Ops(y) = Ops(v.s[e]) /\ y.ssl = v.s[e].ssl /\ y.held = v.s[e].held
        /\ y.next_handshake_state_ = v.s[e].next_handshake_state_
    BY <1>1, <2>1 DEF Socket, Like, Ops
  <2> HIDE DEF y, a
  <2>5. Spare(e, y) = Spare(e, v.s[e]) BY <2>4 DEF Spare, Like
  <2>6. Spare(e, y) <= Spare(e, v.s[e]) BY <2>5, <1>1, SpareType
  <2>7. e = "server" => y.ssl \notin {"finishing", "rejected"} /\ ~y.held BY <2>4 DEF Good
  <2>8. Having(a, Send(v, e, "close_notify"), e, y) BY <2>3 DEF z
  <2>9. "close_notify" \in Records \ {"data"} BY DEF Records
  <2>10. Moves(v, a, e) BY <1>3, <2>4, <2>6, <2>7, <2>8, <2>9, SendMoves
  <2> QED BY <2>3, <2>4, <2>10 DEF Lib, Having
<1>4. ASSUME u.in[e] # << >> PROVE Lib(v, b, e)
  <2>1. Good(u) BY <1>2, LibGood
  <2>2. 1 \in 0 .. Len(u.in[e]) BY <2>1, <1>4, HeadOf
  <2>3. Lib(u, t, e) BY <2>1, <2>2, TakenMoves
  <2> HIDE DEF t, u
  <2>4. Lib(t, b, e) BY <2>3, LibGood, FlagLib
  <2> HIDE DEF b
  <2>5. Lib(v, t, e) BY <1>2, <2>3, LibTrans
  <2> QED BY <2>4, <2>5, LibTrans
<1>5. \/ x.v = v \/ x.v = u \/ (Room(v, e) /\ x.v = a) \/ (u.in[e] # << >> /\ x.v = b)
  <2>1. v.s[e].sent_shutdown \in BOOLEAN /\ v.s[e].received_shutdown \in BOOLEAN BY <1>1 DEF Socket
  <2> HIDE DEF a
  <2>2. CASE ~v.s[e].sent_shutdown /\ ~Room(v, e) BY <2>2 DEF SSL_shutdown, Result
  <2>3. CASE ~v.s[e].sent_shutdown /\ Room(v, e) BY <2>3 DEF SSL_shutdown, Result, a
  <2>4. CASE v.s[e].sent_shutdown /\ v.s[e].received_shutdown BY <2>4 DEF SSL_shutdown, Result
  <2>5. CASE v.s[e].sent_shutdown /\ ~v.s[e].received_shutdown
    <3>1. x = CASE u.in[e] = << >> -> Result(u, "want_read")
                [] u.in[e] # << >> /\ Head(u.in[e]) = "close_notify" -> Result(b, "done")
                [] OTHER -> Result(u, "syscall")
      BY <2>5 DEF SSL_shutdown
    <3> HIDE DEF x, u, b
    <3>2. x \in {Result(u, "want_read"), Result(u, "syscall")} \/ (u.in[e] # << >> /\ x = Result(b, "done"))
      BY <3>1
    <3> QED BY <3>2 DEF Result
  <2> QED BY <2>1, <2>2, <2>3, <2>4, <2>5
<1> HIDE DEF x, u, a, b
<1>6. Lib(v, x.v, e) BY <1>2, <1>3, <1>4, <1>5, LibRefl
<1> QED BY <1>6 DEF x

\* The members of a sequence are of its kind.
LEMMA AmongIn ==
  ASSUME NEW S, NEW r \in Seq(S)
  PROVE  Among(r) \subseteq S
BY LenProperties DEF Among

\* The members of a sequence with one more.
LEMMA AmongAppend ==
  ASSUME NEW S, NEW r \in Seq(S), NEW x \in S
  PROVE  Among(Append(r, x)) = Among(r) \union {x}
<1>1. /\ Append(r, x) \in Seq(S) /\ Len(Append(r, x)) = Len(r) + 1 /\ Len(r) \in Nat
      /\ \A i \in 1 .. Len(r) : Append(r, x)[i] = r[i]
      /\ Append(r, x)[Len(r) + 1] = x
      /\ DOMAIN r = 1 .. Len(r)
  BY AppendProperties, LenProperties
<1>2. DOMAIN Append(r, x) = 1 .. Len(r) + 1 BY <1>1, LenProperties
<1> QED BY <1>1, <1>2 DEF Among

\* The members of two sequences in a row.
LEMMA AmongConcat ==
  ASSUME NEW S, NEW r \in Seq(S), NEW t \in Seq(S)
  PROVE  Among(r \o t) = Among(r) \union Among(t)
<1>1. /\ r \o t \in Seq(S) /\ Len(r \o t) = Len(r) + Len(t) /\ Len(r) \in Nat /\ Len(t) \in Nat
      /\ DOMAIN r = 1 .. Len(r) /\ DOMAIN t = 1 .. Len(t) /\ DOMAIN (r \o t) = 1 .. Len(r) + Len(t)
      /\ \A i \in 1 .. Len(r) + Len(t) : (r \o t)[i] = IF i <= Len(r) THEN r[i] ELSE t[i - Len(r)]
  BY ConcatProperties, LenProperties
<1>2. ASSUME NEW i \in DOMAIN t PROVE t[i] \in Among(r \o t)
  <2>1. i + Len(r) \in 1 .. Len(r) + Len(t) /\ ~(i + Len(r) <= Len(r)) /\ i + Len(r) - Len(r) = i BY <1>1
  <2>2. (r \o t)[i + Len(r)] = t[i] BY <1>1, <2>1
  <2> QED BY <1>1, <2>1, <2>2 DEF Among
<1>3. ASSUME NEW i \in DOMAIN r PROVE r[i] \in Among(r \o t)
  <2>1. i \in 1 .. Len(r) + Len(t) /\ i <= Len(r) BY <1>1
  <2>2. (r \o t)[i] = r[i] BY <1>1, <2>1
  <2> QED BY <1>1, <2>1, <2>2 DEF Among
<1>4. ASSUME NEW i \in DOMAIN (r \o t) PROVE (r \o t)[i] \in Among(r) \union Among(t)
  <2>1. CASE i <= Len(r)
    <3>1. i \in DOMAIN r /\ (r \o t)[i] = r[i] BY <1>1, <2>1
    <3> QED BY <3>1 DEF Among
  <2>2. CASE ~(i <= Len(r))
    <3>1. i - Len(r) \in DOMAIN t /\ (r \o t)[i] = t[i - Len(r)] BY <1>1, <2>2
    <3> QED BY <3>1 DEF Among
  <2> QED BY <2>1, <2>2
<1> QED BY <1>2, <1>3, <1>4 DEF Among

\* The members of what follows the first.
LEMMA AmongTail ==
  ASSUME NEW S, NEW r \in Seq(S), r # << >>
  PROVE  Among(r) = Among(Tail(r)) \union {Head(r)}
<1>1. /\ Tail(r) \in Seq(S) /\ Len(Tail(r)) = Len(r) - 1 /\ Len(r) \in Nat /\ Len(r) > 0
      /\ \A i \in 1 .. Len(Tail(r)) : Tail(r)[i] = r[i + 1]
      /\ DOMAIN r = 1 .. Len(r) /\ Head(r) = r[1]
  BY HeadTailProperties, LenProperties, EmptySeq
<1>2. DOMAIN Tail(r) = 1 .. Len(r) - 1 BY <1>1, LenProperties
<1>3. ASSUME NEW i \in DOMAIN r PROVE r[i] \in Among(Tail(r)) \union {Head(r)}
  <2>1. CASE i = 1 BY <1>1, <2>1
  <2>2. CASE i # 1
    <3>1. i - 1 \in DOMAIN Tail(r) /\ Tail(r)[i - 1] = r[i] BY <1>1, <1>2, <2>2
    <3> QED BY <3>1 DEF Among
  <2> QED BY <2>1, <2>2
<1>4. ASSUME NEW i \in DOMAIN Tail(r) PROVE Tail(r)[i] \in Among(r)
  <2>1. i + 1 \in DOMAIN r /\ Tail(r)[i] = r[i + 1] BY <1>1, <1>2
  <2> QED BY <2>1 DEF Among
<1>5. Head(r) \in Among(r) BY <1>1 DEF Among
<1> QED BY <1>3, <1>4, <1>5 DEF Among

-----------------------------------------------------------------------------
(* What the steps of an end leave of the invariant. *)

\* Callbacks stay served when more operations are due.
LEMMA ServedLike ==
  ASSUME NEW x, NEW y, NEW D, NEW E, Served(x, D), Like(x, y), D \subseteq E,
         "handshake" \in D \/ y.next_handshake_state_ = x.next_handshake_state_
  PROVE  Served(y, E)
BY DEF Served, Like

\* Moves change no amount but the data under way, which only shrinks.
LEMMA MovesAmounts ==
  ASSUME NEW v, Good(v), Amounts(v), NEW e \in Ends, NEW u, Moves(v, u, e)
  PROVE  Amounts(u)
<1>1. \A d \in Ends : u.s[d].to_send = v.s[d].to_send /\ u.s[d].sent = v.s[d].sent /\ u.s[d].got = v.s[d].got
  BY PeerIs DEF Moves, Like
<1>2. Data(v.in["server"]) \in Nat /\ Data(u.in["server"]) \in Nat BY DataOf DEF Moves
<1>3. v.s["server"].got \in Nat /\ v.s["client"].sent \in Nat BY WorldHas DEF Good, Socket, Ends
<1> QED BY <1>1, <1>2, <1>3 DEF Amounts, Moves, Ends

\* A move of an end keeps the invariant, if the loop of the handshake is
\* running or stays in its state.
LEMMA MovesKept ==
  ASSUME NEW v, NEW e \in Ends, NEW ops, Kept(v, e, ops), NEW u, Moves(v, u, e),
         "handshake" \in ops \/ u.s[e].next_handshake_state_ = v.s[e].next_handshake_state_
  PROVE  Kept(u, e, ops)
<1>1. Good(u) /\ Amounts(u) BY MovesAmounts DEF Kept, Moves
<1>2. \A d \in Ends : Budget(u, d) BY DEF Kept, Moves
<1>3. Served(u.s[e], Due(u, e) \union ops)
  <2>1. Due(v, e) \union ops \subseteq Due(u, e) \union ops BY DEF Moves
  <2>2. Like(v.s[e], u.s[e]) /\ Served(v.s[e], Due(v, e) \union ops) BY DEF Kept, Moves
  <2> QED BY <2>1, <2>2, ServedLike
<1>4. Served(u.s[Peer(e)], Due(u, Peer(e))) BY DEF Kept, Moves, Due
<1> QED BY <1>1, <1>2, <1>3, <1>4 DEF Kept

\* So does every call of the library.
LEMMA LibKept ==
  ASSUME NEW v, NEW e \in Ends, NEW ops, Kept(v, e, ops), NEW u, Lib(v, u, e)
  PROVE  Kept(u, e, ops)
BY MovesKept DEF Lib

\* A socket that differs in its callbacks only.
Kin(x, y) ==
  /\ y.ssl = x.ssl /\ y.held = x.held /\ y.disconnected_ = x.disconnected_
  /\ y.to_send = x.to_send /\ y.sent = x.sent /\ y.got = x.got

\* So does a change of its callbacks that leaves them served.
LEMMA SocketKept ==
  ASSUME NEW v, NEW e \in Ends, NEW ops, Kept(v, e, ops), NEW y, NEW u, Having(u, v, e, y), Kin(v.s[e], y),
         NEW more, Served(y, Ops(y) \union Among(v.q[e]) \union more)
  PROVE  Kept(u, e, more)
<1>1. \A d \in Ends : Kin(v.s[d], u.s[d]) BY PeerIs DEF Having, Kin
<1>2. Good(u) BY <1>1 DEF Good, Kept, Having, Kin, Ends
<1>3. Amounts(u) BY <1>1 DEF Kept, Amounts, Having, Kin, Ends
<1>4. \A d \in Ends : Spare(d, u.s[d]) = Spare(d, v.s[d]) BY <1>1 DEF Spare, Kin
<1>5. \A d \in Ends : Budget(u, d) BY <1>4 DEF Kept, Budget, Having
<1>6. Served(u.s[e], Due(u, e) \union more) BY DEF Having, Due
<1>7. Served(u.s[Peer(e)], Due(u, Peer(e))) BY DEF Having, Due, Kept
<1> QED BY <1>2, <1>3, <1>5, <1>6, <1>7 DEF Kept

\* What the invariant says of end e.
LEMMA KeptHas ==
  ASSUME NEW v, NEW e \in Ends, NEW ops, Kept(v, e, ops)
  PROVE  Good(v) /\ v \in World /\ v.s[e] \in Socket /\ Served(v.s[e], Ops(v.s[e]) \union Among(v.q[e]) \union ops)
BY WorldHas DEF Kept, Good, Due

\* One member is set, and the callbacks are still served.
LEMMA SetKept ==
  ASSUME NEW v, NEW e \in Ends, NEW ops, Kept(v, e, ops), NEW f, NEW x,
         \/ f = "user_callback" /\ x \in {"none", "connect", "confirm"}
         \/ /\ f \in {"wait_read_callback_", "wait_write_callback_", "wait_shutdown_callback_",
                      "started", "connected", "shut"}
            /\ x \in BOOLEAN,
         NEW more, LET y == [v.s[e] EXCEPT ![f] = x] IN Served(y, Ops(v.s[e]) \union Among(v.q[e]) \union more)
  PROVE  /\ Kept(Set(v, e, f, x), e, more)
         /\ Having(Set(v, e, f, x), v, e, [v.s[e] EXCEPT ![f] = x])
<1> DEFINE y == [v.s[e] EXCEPT ![f] = x]  u == Set(v, e, f, x)
<1>1. v \in World /\ v.s[e] \in Socket BY KeptHas
<1>2. y \in Socket
  <2>1. CASE f = "user_callback" BY <2>1, <1>1, SocketSet
  <2>2. CASE f \in {"wait_read_callback_", "wait_write_callback_", "wait_shutdown_callback_"}
    BY <2>2, <1>1, SocketSet
  <2>3. CASE f \in {"started", "connected", "shut"} BY <2>3, <1>1, SocketSet
  <2> QED BY <2>1, <2>2, <2>3
<1>3. Having(u, v, e, y) BY <1>1, <1>2, SetIs
<1>4. Kin(v.s[e], y) /\ y.reading = v.s[e].reading /\ y.writing = v.s[e].writing
  BY <1>1 DEF Socket, Kin
<1>5. Ops(y) = Ops(v.s[e]) BY <1>4 DEF Ops
<1>6. Served(y, Ops(y) \union Among(v.q[e]) \union more) BY <1>5
<1> HIDE DEF y, u
<1>7. Kept(u, e, more) BY <1>3, <1>4, <1>6, SocketKept
<1> QED BY <1>3, <1>7 DEF u, y

\* A running operation may be armed instead.
LEMMA ArmKept ==
  ASSUME NEW v, NEW e \in Ends, NEW ops, NEW op \in ReadOps \union WriteOps, Kept(v, e, ops \union {op})
  PROVE  /\ Kept(Arm(v, e, op), e, ops)
         /\ op \in Due(Arm(v, e, op), e)
         /\ Like(v.s[e], Arm(v, e, op).s[e])
         /\ Arm(v, e, op).s[e].next_handshake_state_ = v.s[e].next_handshake_state_
<1> DEFINE x == v.s[e]  y == WithOp(x, op)  u == Arm(v, e, op)
<1>1. v \in World /\ x \in Socket /\ Served(x, Ops(x) \union Among(v.q[e]) \union (ops \union {op})) BY KeptHas
<1>2. Having(u, v, e, y) BY <1>1, ArmIs
<1>3. x.reading \in Seq(ReadOps) /\ x.writing \in Seq(WriteOps) BY <1>1 DEF Socket
<1>4. Kin(x, y) /\ Like(x, y) /\ y.next_handshake_state_ = x.next_handshake_state_
  BY <1>1 DEF WithOp, Kin, Like, Socket
<1>5. Ops(y) = Ops(x) \union {op}
  <2>1. CASE op \in ReadOps
    <3>1. y.reading = Append(x.reading, op) /\ y.writing = x.writing BY <1>1, <2>1 DEF WithOp, Socket
    <3>2. Among(y.reading) = Among(x.reading) \union {op} BY <3>1, <1>3, <2>1, AmongAppend
    <3> HIDE DEF y, x
    <3> QED BY <3>1, <3>2 DEF Ops
  <2>2. CASE op \notin ReadOps
    <3>1. y.writing = Append(x.writing, op) /\ y.reading = x.reading BY <1>1, <2>2 DEF WithOp, Socket
    <3>2. Among(y.writing) = Among(x.writing) \union {op} BY <3>1, <1>3, <2>2, AmongAppend
    <3> HIDE DEF y, x
    <3> QED BY <3>1, <3>2 DEF Ops
  <2> QED BY <2>1, <2>2
<1> HIDE DEF y, u
<1>6. Served(y, Ops(y) \union Among(v.q[e]) \union ops)
  <2>1. Ops(x) \union Among(v.q[e]) \union (ops \union {op}) \subseteq Ops(y) \union Among(v.q[e]) \union ops
    BY <1>5
  <2> QED BY <2>1, <1>1, <1>4, ServedLike
<1>7. Kept(u, e, ops) BY <1>2, <1>4, <1>6, SocketKept
<1>8. u.s[e] = y /\ op \in Due(u, e) BY <1>2, <1>5 DEF Having, Due
<1> QED BY <1>4, <1>7, <1>8 DEF u

\* The cases of SetKept and ArmKept that occur.
LEMMA ReadSet ==
  ASSUME NEW v, NEW e \in Ends, NEW ops, Kept(v, e, ops)
  PROVE  /\ Kept(Set(v, e, "wait_read_callback_", FALSE), e, ops \ {"OnWaitRead"})
         /\ ~v.s[e].disconnected_ => Kept(WaitRead(v, e), e, ops)
<1>1. v.s[e] \in Socket /\ Served(v.s[e], Ops(v.s[e]) \union Among(v.q[e]) \union ops) BY KeptHas
<1>2. Kept(Set(v, e, "wait_read_callback_", FALSE), e, ops \ {"OnWaitRead"})
  <2> DEFINE y == [v.s[e] EXCEPT !["wait_read_callback_"] = FALSE]
  <2>1. Served(y, Ops(v.s[e]) \union Among(v.q[e]) \union (ops \ {"OnWaitRead"}))
    BY <1>1 DEF Served, Socket
  <2> QED BY <2>1, SetKept
<1>3. ASSUME ~v.s[e].disconnected_ PROVE Kept(WaitRead(v, e), e, ops)
  <2> DEFINE y == [v.s[e] EXCEPT !["wait_read_callback_"] = TRUE]
             more == ops \union {"OnWaitRead"}
  <2>1. Served(y, Ops(v.s[e]) \union Among(v.q[e]) \union more)
    BY <1>1, <1>3 DEF Served, Socket
  <2>2. Kept(Set(v, e, "wait_read_callback_", TRUE), e, more) BY <2>1, SetKept
  <2> QED BY <2>2, ArmKept DEF WaitRead, ReadOps
<1> QED BY <1>2, <1>3

\* The same for the wait to write, of a user who has something to send.
LEMMA WriteSet ==
  ASSUME NEW v, NEW e \in Ends, NEW ops, Kept(v, e, ops)
  PROVE  /\ Kept(Set(v, e, "wait_write_callback_", FALSE), e, ops \ {"OnWaitWrite"})
         /\ ~v.s[e].disconnected_ /\ v.s[e].to_send > 0 => Kept(WaitWrite(v, e), e, ops)
<1>1. v.s[e] \in Socket /\ Served(v.s[e], Ops(v.s[e]) \union Among(v.q[e]) \union ops) BY KeptHas
<1>2. Kept(Set(v, e, "wait_write_callback_", FALSE), e, ops \ {"OnWaitWrite"})
  <2> DEFINE y == [v.s[e] EXCEPT !["wait_write_callback_"] = FALSE]
  <2>1. Served(y, Ops(v.s[e]) \union Among(v.q[e]) \union (ops \ {"OnWaitWrite"}))
    BY <1>1 DEF Served, Socket
  <2> QED BY <2>1, SetKept
<1>3. ASSUME ~v.s[e].disconnected_, v.s[e].to_send > 0 PROVE Kept(WaitWrite(v, e), e, ops)
  <2> DEFINE y == [v.s[e] EXCEPT !["wait_write_callback_"] = TRUE]
             more == ops \union {"OnWaitWrite"}
  <2>1. Served(y, Ops(v.s[e]) \union Among(v.q[e]) \union more)
    BY <1>1, <1>3 DEF Served, Socket
  <2>2. Kept(Set(v, e, "wait_write_callback_", TRUE), e, more) BY <2>1, SetKept
  <2> QED BY <2>2, ArmKept DEF WaitWrite, WriteOps
<1> QED BY <1>2, <1>3

\* The callback of a shutdown is kept by an open, connected socket.
LEMMA ShutdownSet ==
  ASSUME NEW v, NEW e \in Ends, NEW ops, Kept(v, e, ops), NEW x \in BOOLEAN,
         x => v.s[e].connected /\ ~v.s[e].disconnected_
  PROVE  Kept(Set(v, e, "wait_shutdown_callback_", x), e, ops)
<1>1. v.s[e] \in Socket /\ Served(v.s[e], Ops(v.s[e]) \union Among(v.q[e]) \union ops) BY KeptHas
<1> DEFINE y == [v.s[e] EXCEPT !["wait_shutdown_callback_"] = x]
<1>2. Served(y, Ops(v.s[e]) \union Among(v.q[e]) \union ops) BY <1>1 DEF Served, Socket
<1> QED BY <1>2, SetKept

\* What the users note.
LEMMA MarkSet ==
  ASSUME NEW v, NEW e \in Ends, NEW ops, Kept(v, e, ops), NEW f \in {"started", "connected", "shut"}
  PROVE  Kept(Set(v, e, f, TRUE), e, ops)
<1>1. v.s[e] \in Socket /\ Served(v.s[e], Ops(v.s[e]) \union Among(v.q[e]) \union ops) BY KeptHas
<1> DEFINE y == [v.s[e] EXCEPT ![f] = TRUE]
<1>2. Served(y, Ops(v.s[e]) \union Among(v.q[e]) \union ops) BY <1>1 DEF Served, Socket
<1> QED BY <1>2, SetKept

\* The callback of the handshake is released, or kept by a loop that waits.
LEMMA UserSet ==
  ASSUME NEW v, NEW e \in Ends, NEW ops, Kept(v, e, ops)
  PROVE  /\ Kept(Set(v, e, "user_callback", "none"), e, ops \ {"handshake"})
         /\ \A x \in {"connect", "confirm"} :
              ~v.s[e].disconnected_ /\ v.s[e].started /\ v.s[e].next_handshake_state_ = "HANDSHAKE"
              /\ ("OnReadReady" \in Due(v, e) \/ "OnWriteReady" \in Due(v, e)) =>
                Kept(Set(v, e, "user_callback", x), e, ops \ {"handshake"})
<1>1. v.s[e] \in Socket /\ Served(v.s[e], Ops(v.s[e]) \union Among(v.q[e]) \union ops) BY KeptHas
<1>2. Kept(Set(v, e, "user_callback", "none"), e, ops \ {"handshake"})
  <2> DEFINE y == [v.s[e] EXCEPT !["user_callback"] = "none"]
  <2>1. Served(y, Ops(v.s[e]) \union Among(v.q[e]) \union (ops \ {"handshake"}))
    BY <1>1 DEF Served, Socket
  <2> QED BY <2>1, SetKept
<1>3. ASSUME NEW x \in {"connect", "confirm"}, ~v.s[e].disconnected_, v.s[e].started,
             v.s[e].next_handshake_state_ = "HANDSHAKE",
             "OnReadReady" \in Due(v, e) \/ "OnWriteReady" \in Due(v, e)
      PROVE  Kept(Set(v, e, "user_callback", x), e, ops \ {"handshake"})
  <2> DEFINE y == [v.s[e] EXCEPT !["user_callback"] = x]
  <2>1. Served(y, Ops(v.s[e]) \union Among(v.q[e]) \union (ops \ {"handshake"}))
    BY <1>1, <1>3 DEF Served, Socket, Due
  <2> QED BY <2>1, SetKept
<1> QED BY <1>2, <1>3

\* The handshake needs no excuse once it waits again, or has nobody to tell.
LEMMA HandshakeServed ==
  ASSUME NEW v, NEW e \in Ends, Kept(v, e, {"handshake"}),
         \/ v.s[e].user_callback = "none"
         \/ /\ v.s[e].next_handshake_state_ = "HANDSHAKE"
            /\ "OnReadReady" \in Due(v, e) \/ "OnWriteReady" \in Due(v, e)
  PROVE  Kept(v, e, {})
BY DEF Kept, Served

\* A closed socket keeps nothing that could be owed.
LEMMA ClosedKept ==
  ASSUME NEW v, NEW e \in Ends, NEW ops, Kept(v, e, ops), v.s[e].disconnected_
  PROVE  Kept(v, e, {})
BY DEF Kept, Served

\* More operations serve no less.
LEMMA KeptMore ==
  ASSUME NEW v, NEW e \in Ends, NEW ops, NEW more, Kept(v, e, ops), ops \subseteq more
  PROVE  Kept(v, e, more)
BY DEF Kept, Served

\* Disconnect leaves nothing behind but the end of the stream.
LEMMA DisconnectKept ==
  ASSUME NEW v, NEW e \in Ends, NEW ops, Kept(v, e, ops)
  PROVE  Kept(Disconnect(v, e), e, {})
<1>1. CASE Closed(v, e) BY <1>1, ClosedKept DEF Closed, Disconnect
<1>2. CASE ~Closed(v, e)
  <2> DEFINE z == Send(v, e, "fin")
             y == [z.s[e] EXCEPT !.disconnected_ = TRUE, !.user_callback = "none",
                                 !.wait_read_callback_ = FALSE, !.wait_write_callback_ = FALSE,
                                 !.wait_shutdown_callback_ = FALSE,
                                 !.reading = << >>, !.writing = << >>]
             a == [z EXCEPT !.s = [z.s EXCEPT ![e] = y]]
             u == [a EXCEPT !.in = [a.in EXCEPT ![e] = << >>]]
             r == v.in[Peer(e)]
             t == IF v.s[Peer(e)].disconnected_ THEN r ELSE Append(r, "fin")
  <2>1. v \in World /\ v.s[e] \in Socket /\ Good(v) /\ Amounts(v) /\ \A d \in Ends : Budget(v, d)
    BY KeptHas DEF Kept
  <2>2. r \in Seq(Records) /\ "fin" \in Records BY <2>1, PeerIs, WorldHas DEF Records
  <2>3. Flows(z, v, Peer(e), t) BY <2>1, <2>2, SendIs
  <2>4. z \in World /\ z.s = v.s /\ z.q = v.q /\ z.in[Peer(e)] = t /\ z.in[e] = v.in[e]
    BY <2>3, PeerIs DEF Flows
  <2>5. Disconnect(v, e) = u
    <3>1. Disconnect(v, e) = [z EXCEPT !.s[e] = y, !.in[e] = << >>] BY <1>2, <2>4 DEF Disconnect, World
    <3> HIDE DEF z, y
    <3>2. [z EXCEPT !.s[e] = y, !.in[e] = << >>] = u BY <2>4 DEF World
    <3> QED BY <3>1, <3>2
  <2> HIDE DEF z
  <2>6. /\ y \in Socket /\ y.disconnected_ /\ y.user_callback = "none" /\ ~y.wait_read_callback_
        /\ ~y.wait_write_callback_ /\ ~y.wait_shutdown_callback_
        /\ y.ssl = v.s[e].ssl /\ y.held = v.s[e].held
        /\ y.to_send = v.s[e].to_send /\ y.sent = v.s[e].sent /\ y.got = v.s[e].got
    <3>1. << >> \in Seq(ReadOps) /\ << >> \in Seq(WriteOps) OBVIOUS
    <3>2. z.s[e] \in Socket /\ z.s[e] = v.s[e] BY <2>1, <2>4
    <3> QED BY <3>1, <3>2 DEF Socket
  <2> HIDE DEF y
  <2>7. Having(a, z, e, y) BY <2>4, <2>6, HavingIs
  <2> HIDE DEF a
  <2>8. a \in World /\ << >> \in Seq(Records) BY <2>7 DEF Having
  <2>9. Flows(u, a, e, << >>) BY <2>8, FlowsIs
  <2> HIDE DEF u
  <2>10. /\ u \in World /\ u.s[e] = y /\ u.s[Peer(e)] = v.s[Peer(e)] /\ u.q = v.q
         /\ u.in[e] = << >> /\ u.in[Peer(e)] = t
    BY <2>4, <2>7, <2>9 DEF Having, Flows
  <2>11. /\ Len(r) \in Nat /\ Len(t) \in Nat /\ Len(t) <= Len(r) + 1
         /\ Data(t) = Data(r) /\ Data(r) \in Nat
    <3>1. Len(r) \in Nat /\ Data(r) \in Nat BY <2>2, LenProperties, DataType
    <3>2. Len(Append(r, "fin")) = Len(r) + 1 BY <2>2, AppendProperties
    <3>3. Data(Append(r, "fin")) = Data(r) + 0 BY <2>2, DataAppend
    <3>4. Data(Append(r, "fin")) = Data(r) BY <3>1, <3>3
    <3> QED BY <3>1, <3>2, <3>4
  <2>12. Good(u)
    <3>1. CASE e = "server" BY <3>1, <2>1, <2>6, <2>10 DEF Good
    <3>2. CASE e = "client"
      <4>1. Peer(e) = "server" BY <3>2 DEF Peer
      <4> QED BY <4>1, <2>1, <2>10 DEF Good
    <3> QED BY <3>1, <3>2 DEF Ends
  <2>13. \A d \in Ends : u.s[d].to_send = v.s[d].to_send /\ u.s[d].sent = v.s[d].sent /\ u.s[d].got = v.s[d].got
    BY <2>6, <2>10, PeerIs
  <2>14. Data(u.in["server"]) <= Data(v.in["server"])
    <3>1. CASE e = "server" BY <3>1, <2>10, <2>1, DataEmpty, DataOf
    <3>2. CASE e = "client"
      <4>1. Peer(e) = "server" BY <3>2 DEF Peer
      <4> QED BY <4>1, <2>10, <2>11
    <3> QED BY <3>1, <3>2 DEF Ends
  <2>15. Amounts(u)
    <3>1. Data(v.in["server"]) \in Nat /\ Data(u.in["server"]) \in Nat BY <2>1, <2>12, DataOf
    <3>2. v.s["server"].got \in Nat /\ v.s["client"].sent \in Nat BY <2>1, WorldHas DEF Socket, Ends
    <3> QED BY <3>1, <3>2, <2>1, <2>13, <2>14 DEF Amounts, Ends
  <2>16. Budget(u, e)
    <3>1. Spare(e, y) = 0 BY <2>6 DEF Spare
    <3>2. Spare(e, v.s[e]) >= 1 BY <1>2, <2>1 DEF Spare, Closed
    <3>3. Spare(e, v.s[e]) \in Nat BY <2>1, SpareType
    <3>4. Len(r) + Spare(e, v.s[e]) <= Capacity + 3 BY <2>1 DEF Budget
    <3>5. Len(t) + 0 <= Capacity + 3 BY <3>2, <3>3, <3>4, <2>11, TlsAssumption
    <3> QED BY <3>1, <3>5, <2>10 DEF Budget
  <2>17. Budget(u, Peer(e))
    <3>1. Spare(Peer(e), u.s[Peer(e)]) \in 0 .. 3 BY <2>10, PeerIs, WorldHas, SpareType
    <3>2. Len(u.in[Peer(Peer(e))]) = 0 BY <2>10, PeerIs
    <3> QED BY <3>1, <3>2, TlsAssumption DEF Budget
  <2>18. \A d \in Ends : Budget(u, d) BY <2>16, <2>17, PeerIs
  <2>19. Served(u.s[e], Due(u, e) \union {}) BY <2>6, <2>10 DEF Served
  <2>20. Served(u.s[Peer(e)], Due(u, Peer(e))) BY <2>10 DEF Kept, Due
  <2> QED BY <2>5, <2>12, <2>15, <2>18, <2>19, <2>20 DEF Kept
<1> QED BY <1>1, <1>2

\* What the user notes of a record it has written or read.
Wrote(v, e) == [v EXCEPT !.s[e].to_send = @ - 1, !.s[e].sent = @ + 1]
HasRead(v, e, n) == [v EXCEPT !.s[e].got = @ + 1, !.s[e].to_send = n]

\* A record of data goes out.
LEMMA DataSentKept ==
  ASSUME NEW v, NEW e \in Ends, NEW ops, Kept(v, e, ops), Room(v, e), v.s[e].to_send > 0, ~v.s[e].wait_write_callback_
  PROVE  Kept(Wrote(Send(v, e, "data"), e), e, ops)
<1> DEFINE z == Send(v, e, "data")
           x == v.s[e]
           y == [x EXCEPT !.to_send = x.to_send - 1, !.sent = x.sent + 1]
           u == [z EXCEPT !.s = [z.s EXCEPT ![e] = y]]
           r == v.in[Peer(e)]
           t == IF v.s[Peer(e)].disconnected_ THEN r ELSE Append(r, "data")
<1>1. v \in World /\ x \in Socket /\ Good(v) /\ Amounts(v) /\ \A d \in Ends : Budget(v, d)
  BY KeptHas DEF Kept
<1>2. r \in Seq(Records) /\ "data" \in Records BY <1>1, PeerIs, WorldHas DEF Records
<1>3. Flows(z, v, Peer(e), t) BY <1>1, <1>2, SendIs
<1>4. z \in World /\ z.s = v.s /\ z.q = v.q /\ z.in[Peer(e)] = t /\ z.in[e] = v.in[e]
  BY <1>3, PeerIs DEF Flows
<1> HIDE DEF z
<1>5. Wrote(z, e) = u BY <1>1, <1>4 DEF World, Socket, Wrote
<1>6. x.to_send \in Nat /\ x.sent \in Nat /\ x.to_send - 1 \in Nat /\ x.sent + 1 \in Nat
  BY <1>1 DEF Socket
<1>7. y \in Socket BY <1>1, <1>6 DEF Socket
<1>8. /\ y.to_send = x.to_send - 1 /\ y.sent = x.sent + 1 /\ y.got = x.got
      /\ y.ssl = x.ssl /\ y.held = x.held /\ y.disconnected_ = x.disconnected_
      /\ y.user_callback = x.user_callback /\ y.wait_read_callback_ = x.wait_read_callback_
      /\ y.wait_write_callback_ = x.wait_write_callback_
      /\ y.wait_shutdown_callback_ = x.wait_shutdown_callback_
      /\ y.started = x.started /\ y.connected = x.connected
      /\ y.next_handshake_state_ = x.next_handshake_state_
      /\ y.reading = x.reading /\ y.writing = x.writing
  BY <1>1 DEF Socket
<1>9. Having(u, z, e, y) BY <1>4, <1>7, HavingIs
<1> HIDE DEF y, u
<1>10. /\ u \in World /\ u.s[e] = y /\ u.s[Peer(e)] = v.s[Peer(e)] /\ u.q = v.q
       /\ u.in[e] = v.in[e] /\ u.in[Peer(e)] = t
  BY <1>4, <1>9 DEF Having
<1>11. Len(r) \in Nat /\ Len(t) \in Nat /\ (Len(t) = Len(r) \/ Len(t) <= Capacity)
       /\ Data(t) <= Data(r) + 1 /\ Data(r) \in Nat /\ Data(t) \in Nat
  <2>1. Len(r) \in Nat /\ Data(r) \in Nat BY <1>2, LenProperties, DataType
  <2>2. Len(Append(r, "data")) = Len(r) + 1 BY <1>2, AppendProperties
  <2>3. Data(Append(r, "data")) = Data(r) + 1 BY <1>2, DataAppend
  <2> QED BY <2>1, <2>2, <2>3, TlsAssumption DEF Room
<1>12. Good(u)
  <2>1. CASE e = "server" BY <2>1, <1>1, <1>8, <1>10 DEF Good
  <2>2. CASE e = "client"
    <3>1. Peer(e) = "server" BY <2>2 DEF Peer
    <3> QED BY <3>1, <1>1, <1>10 DEF Good
  <2> QED BY <2>1, <2>2 DEF Ends
<1>13. Amounts(u)
  <2>1. v.s["server"] \in Socket /\ v.s["client"] \in Socket /\ Data(v.in["server"]) \in Nat
    BY <1>1, WorldHas, DataOf DEF Ends
  <2>2. v.s["server"].got \in Nat /\ v.s["client"].sent \in Nat /\ v.s["server"].to_send \in Nat
    BY <2>1 DEF Socket
  <2>3. CASE e = "client"
    <3>1. Peer(e) = "server" BY <2>3 DEF Peer
    <3> HIDE DEF t
    <3>2. /\ u.s["client"].to_send = v.s["client"].to_send - 1 /\ u.s["client"].sent = v.s["client"].sent + 1
          /\ u.s["server"] = v.s["server"] /\ u.in["server"] = t /\ r = v.in["server"]
      BY <3>1, <2>3, <1>8, <1>10
    <3>3. v.s["client"].to_send \in Nat BY <2>1 DEF Socket
    <3>4. /\ v.s["client"].to_send + v.s["client"].sent = Requests
          /\ Data(v.in["server"]) + v.s["server"].got <= v.s["client"].sent
          /\ v.s["server"].to_send <= Greetings + v.s["server"].got
      BY <1>1 DEF Amounts
    <3>5. Data(t) <= Data(v.in["server"]) + 1 /\ Data(t) \in Nat BY <1>11, <3>2
    <3>6. u.s["client"].to_send + u.s["client"].sent = Requests BY <3>2, <3>3, <3>4, <2>2
    <3>7. Data(t) + v.s["server"].got <= v.s["client"].sent + 1 BY <3>4, <3>5, <2>1, <2>2
    <3>8. Data(u.in["server"]) + u.s["server"].got <= u.s["client"].sent BY <3>7, <3>2
    <3>9. u.s["server"].to_send <= Greetings + u.s["server"].got BY <3>2, <3>4
    <3> QED BY <3>6, <3>8, <3>9 DEF Amounts
  <2>4. CASE e = "server"
    <3>1. Peer(e) = "client" BY <2>4 DEF Peer
    <3> HIDE DEF t
    <3> QED BY <3>1, <2>2, <2>4, <1>1, <1>6, <1>8, <1>10, TlsAssumption DEF Amounts
  <2> QED BY <2>3, <2>4 DEF Ends
<1>14. Budget(u, e)
  <2>1. Spare(e, y) = Spare(e, x) /\ Spare(e, x) \in 0 .. 3
    <3>1. Spare(e, y) = Spare(e, x) BY <1>8 DEF Spare
    <3> QED BY <3>1, <1>1, SpareType
  <2>2. Len(r) + Spare(e, x) <= Capacity + 3 BY <1>1 DEF Budget
  <2> HIDE DEF t, r
  <2>3. Len(t) + Spare(e, y) <= Capacity + 3 BY <2>1, <2>2, <1>11, TlsAssumption
  <2> QED BY <2>3, <1>10 DEF Budget
<1>15. Budget(u, Peer(e)) BY <1>1, <1>10, PeerIs DEF Budget
<1>16. \A d \in Ends : Budget(u, d) BY <1>14, <1>15, PeerIs
<1>17. Served(u.s[e], Due(u, e) \union ops)
  <2>1. Ops(y) = Ops(x) BY <1>8 DEF Ops
  <2>2. Due(u, e) = Due(v, e) BY <2>1, <1>10 DEF Due
  <2>3. Served(x, Due(v, e) \union ops) BY DEF Kept
  <2> HIDE DEF x
  <2>4. ~x.wait_write_callback_ BY DEF x
  <2> QED BY <2>2, <2>3, <2>4, <1>8, <1>10 DEF Served
<1>18. Served(u.s[Peer(e)], Due(u, Peer(e))) BY <1>10 DEF Kept, Due
<1>19. Kept(u, e, ops) BY <1>12, <1>13, <1>16, <1>17, <1>18 DEF Kept
<1> QED BY <1>5, <1>19 DEF z

\* What the library leaves alone.
LEMMA LibLike == ASSUME NEW v, NEW u, NEW e, Lib(v, u, e) PROVE Like(v.s[e], u.s[e])
BY DEF Lib, Moves

\* The user writes, waits or closes.
LEMMA UserWritesKept ==
  ASSUME NEW v, NEW e \in Ends, Kept(v, e, {}), ~v.s[e].disconnected_, v.s[e].to_send > 0,
         ~v.s[e].wait_write_callback_
  PROVE  Kept(UserWrites(v, e), e, {})
<1> DEFINE x == SSL_write(v, e)
           d == DoPayloadWrite(v, e)
<1>1. \/ x.r # "ok" /\ Lib(v, x.v, e)
      \/ x.r = "ok" /\ \E h : Lib(v, h, e) /\ Room(h, e) /\ x.v = Send(h, e, "data")
  BY SSL_writeIs DEF Kept
<1>2. d.v = x.v /\ d.r = IF x.r = "ok" THEN "ok" ELSE MapOpenSSLErrorWithDetails(x.r)
  BY DEF DoPayloadWrite, Result
<1> HIDE DEF x
<1>3. CASE x.r = "ok"
  <2>1. PICK h : Lib(v, h, e) /\ Room(h, e) /\ x.v = Send(h, e, "data") BY <1>1, <1>3
  <2>2. Kept(h, e, {}) BY <2>1, LibKept
  <2>3. h.s[e].to_send > 0 /\ ~h.s[e].wait_write_callback_ BY <2>1, LibLike DEF Like
  <2>4. UserWrites(v, e) = Wrote(x.v, e)
    <3>1. d.r = "ok" BY <1>2, <1>3
    <3> HIDE DEF d
    <3>2. WriteError(d.r) = "ok" BY <3>1 DEF WriteError
    <3>3. UserWrites(v, e) = Wrote(d.v, e)
      BY <3>2 DEF UserWrites, Wrote, d
    <3> QED BY <3>3, <1>2
  <2> QED BY <2>1, <2>2, <2>3, <2>4, DataSentKept
<1>4. CASE x.r # "ok"
  <2>1. Lib(v, x.v, e) BY <1>1, <1>4
  <2>2. Kept(x.v, e, {}) BY <2>1, LibKept
  <2>3. ~x.v.s[e].disconnected_ /\ x.v.s[e].to_send > 0 BY <2>1, LibLike DEF Like
  <2>4. Kept(WaitWrite(x.v, e), e, {}) BY <2>2, <2>3, WriteSet
  <2>5. Kept(Disconnect(x.v, e), e, {}) BY <2>2, DisconnectKept
  <2>6. d.r # "ok" BY <1>2, <1>4 DEF MapOpenSSLErrorWithDetails
  <2> HIDE DEF d
  <2>7. WriteError(d.r) \in {"try_again", "connection_refused"} BY <2>6 DEF WriteError
  <2>8. UserWrites(v, e) \in {WaitWrite(d.v, e), Disconnect(d.v, e)} BY <2>7 DEF UserWrites, d
  <2> QED BY <1>2, <2>4, <2>5, <2>8
<1> QED BY <1>3, <1>4

\* A record of data was read: the server has one more to answer.
LEMMA DataReadKept ==
  ASSUME NEW v, NEW e \in Ends, NEW ops, Kept(v, e, ops),
         e = "server" => Data(v.in["server"]) + 1 + v.s["server"].got <= v.s["client"].sent,
         NEW n, n = v.s[e].to_send \/ (e = "server" /\ n = v.s[e].to_send + 1)
  PROVE  Kept(HasRead(v, e, n), e, ops)
<1> DEFINE x == v.s[e]
           y == [x EXCEPT !.got = x.got + 1, !.to_send = n]
           u == [v EXCEPT !.s = [v.s EXCEPT ![e] = y]]
<1>1. v \in World /\ x \in Socket /\ Good(v) /\ Amounts(v) /\ \A d \in Ends : Budget(v, d)
  BY KeptHas DEF Kept
<1>2. HasRead(v, e, n) = u BY <1>1 DEF World, Socket, HasRead
<1>3. x.to_send \in Nat /\ x.got \in Nat /\ n \in Nat /\ x.got + 1 \in Nat BY <1>1 DEF Socket
<1>4. y \in Socket BY <1>1, <1>3 DEF Socket
<1>5. /\ y.to_send = n /\ y.sent = x.sent /\ y.got = x.got + 1
      /\ y.ssl = x.ssl /\ y.held = x.held /\ y.disconnected_ = x.disconnected_
      /\ y.user_callback = x.user_callback /\ y.wait_read_callback_ = x.wait_read_callback_
      /\ y.wait_write_callback_ = x.wait_write_callback_
      /\ y.wait_shutdown_callback_ = x.wait_shutdown_callback_
      /\ y.started = x.started /\ y.connected = x.connected
      /\ y.next_handshake_state_ = x.next_handshake_state_
      /\ y.reading = x.reading /\ y.writing = x.writing
  BY <1>1 DEF Socket
<1>6. Having(u, v, e, y) BY <1>1, <1>4, HavingIs
<1> HIDE DEF y, u
<1>7. u \in World /\ u.s[e] = y /\ u.s[Peer(e)] = v.s[Peer(e)] /\ u.q = v.q /\ u.in = v.in
  BY <1>6 DEF Having
<1>8. Good(u)
  <2>1. CASE e = "server" BY <2>1, <1>1, <1>5, <1>7 DEF Good
  <2>2. CASE e = "client"
    <3>1. Peer(e) = "server" BY <2>2 DEF Peer
    <3> QED BY <3>1, <1>1, <1>7 DEF Good
  <2> QED BY <2>1, <2>2 DEF Ends
<1>9. Amounts(u)
  <2>1. v.s["server"] \in Socket /\ v.s["client"] \in Socket /\ Data(v.in["server"]) \in Nat
    BY <1>1, WorldHas, DataOf DEF Ends
  <2>2. v.s["server"].got \in Nat /\ v.s["client"].sent \in Nat /\ v.s["server"].to_send \in Nat
    BY <2>1 DEF Socket
  <2>3. /\ v.s["client"].to_send + v.s["client"].sent = Requests
        /\ Data(v.in["server"]) + v.s["server"].got <= v.s["client"].sent
        /\ v.s["server"].to_send <= Greetings + v.s["server"].got
    BY <1>1 DEF Amounts
  <2>4. CASE e = "client"
    <3>1. u.s["server"] = v.s["server"] BY <1>7, <2>4 DEF Peer
    <3>2. u.s["client"].to_send = v.s["client"].to_send /\ u.s["client"].sent = v.s["client"].sent
      BY <1>5, <1>7, <2>4
    <3> QED BY <3>1, <3>2, <2>3, <1>7 DEF Amounts
  <2>5. CASE e = "server"
    <3>1. u.s["client"] = v.s["client"] BY <1>7, <2>5 DEF Peer
    <3>2. u.s["server"].to_send = n /\ u.s["server"].got = v.s["server"].got + 1 BY <1>5, <1>7, <2>5
    <3>3. n <= v.s["server"].to_send + 1 BY <2>5, <2>2
    <3>4. n <= Greetings + (v.s["server"].got + 1) BY <3>3, <2>3, <2>2, <1>3, TlsAssumption
    <3>5. Data(v.in["server"]) + (v.s["server"].got + 1) <= v.s["client"].sent BY <2>1, <2>2, <2>5
    <3> QED BY <3>1, <3>2, <3>4, <3>5, <2>3, <1>7 DEF Amounts
  <2> QED BY <2>4, <2>5 DEF Ends
<1>10. \A d \in Ends : Budget(u, d)
  <2>1. Spare(e, y) = Spare(e, x) BY <1>5 DEF Spare
  <2>2. Budget(u, e) BY <1>1, <1>7, <2>1 DEF Budget
  <2>3. Budget(u, Peer(e)) BY <1>1, <1>7, PeerIs DEF Budget
  <2> QED BY <2>2, <2>3, PeerIs
<1>11. Served(u.s[e], Due(u, e) \union ops)
  <2>1. Ops(y) = Ops(x) BY <1>5 DEF Ops
  <2>2. Due(u, e) = Due(v, e) BY <2>1, <1>7 DEF Due
  <2>3. Served(x, Due(v, e) \union ops) BY DEF Kept
  <2>4. x.to_send > 0 => n > 0 BY <1>3
  <2> HIDE DEF x
  <2> QED BY <2>2, <2>3, <2>4, <1>5, <1>7 DEF Served
<1>12. Served(u.s[Peer(e)], Due(u, Peer(e))) BY <1>7 DEF Kept, Due
<1>13. Kept(u, e, ops) BY <1>8, <1>9, <1>10, <1>11, <1>12 DEF Kept
<1> QED BY <1>2, <1>13

\* The user reads, or closes.
LEMMA UserReadsKept ==
  ASSUME NEW v, NEW e \in Ends, Kept(v, e, {}), ~v.s[e].disconnected_
  PROVE  Kept(UserReads(v, e), e, {})
<1> DEFINE x == SSL_read(v, e, FALSE)
           d == IF e = "client" THEN DoPayloadRead(v) ELSE ServerDoPayloadRead(v)
           n == IF e = "server" /\ ~v.s[e].shut THEN d.v.s[e].to_send + 1 ELSE d.v.s[e].to_send
<1>1. Good(v) BY DEF Kept
<1>2. Reads(v, x, e) BY <1>1, SSL_readReads
<1>3. d.v = x.v /\ (ReadError(d.r) = "ok" => x.r = "data")
  <2>1. CASE e = "client"
    <3>1. d.v = x.v BY <2>1 DEF DoPayloadRead, Result
    <3>2. d.r = CASE x.r = "data" -> "bytes" [] x.r = "zero_return" -> "0"
                  [] OTHER -> MapOpenSSLErrorWithDetails(x.r)
      BY <2>1 DEF DoPayloadRead, Result
    <3> HIDE DEF d, x
    <3>3. x.r # "data" => d.r # "bytes" BY <3>2 DEF MapOpenSSLErrorWithDetails
    <3> QED BY <3>1, <3>3 DEF ReadError
  <2>2. CASE e = "server"
    <3>1. d.v = x.v BY <2>2 DEF ServerDoPayloadRead, Result
    <3>2. d.r = CASE x.r = "data" -> "bytes" [] x.r \in {"zero_return", "syscall"} -> "0"
                  [] OTHER -> MapOpenSSLErrorWithDetails(x.r)
      BY <2>2 DEF ServerDoPayloadRead, Result
    <3> HIDE DEF d, x
    <3>3. x.r # "data" => d.r # "bytes" BY <3>2 DEF MapOpenSSLErrorWithDetails
    <3> QED BY <3>1, <3>3 DEF ReadError
  <2> QED BY <2>1, <2>2 DEF Ends
<1>4. UserReads(v, e) =
        CASE ReadError(d.r) = "ok" -> HasRead(d.v, e, n)
          [] ReadError(d.r) = "try_again" -> d.v
          [] OTHER -> Disconnect(d.v, e)
  <2>1. CASE e = "server" /\ ~v.s[e].shut BY <2>1 DEF UserReads, HasRead
  <2>2. CASE ~(e = "server" /\ ~v.s[e].shut) BY <2>2 DEF UserReads, HasRead
  <2> QED BY <2>1, <2>2
<1> HIDE DEF d, x
<1>5. Kept(d.v, e, {}) BY <1>2, <1>3, LibKept DEF Reads
<1>6. CASE ReadError(d.r) = "ok"
  <2>1. e = "server" => Data(d.v.in["server"]) + 1 <= Data(v.in["server"]) BY <1>2, <1>3, <1>6 DEF Reads
  <2>2. e = "server" => Data(d.v.in["server"]) + 1 + d.v.s["server"].got <= d.v.s["client"].sent
    <3>1. SUFFICES ASSUME e = "server" PROVE Data(d.v.in["server"]) + 1 + d.v.s["server"].got <= d.v.s["client"].sent
      OBVIOUS
    <3>2. Lib(v, d.v, e) BY <1>2, <1>3 DEF Reads
    <3>3. d.v.s["client"] = v.s["client"] BY <3>1, <3>2 DEF Lib, Moves, Peer
    <3>4. d.v.s["server"].got = v.s["server"].got BY <3>1, <3>2, LibLike DEF Like
    <3>5. Data(v.in["server"]) + v.s["server"].got <= v.s["client"].sent BY DEF Kept, Amounts
    <3>6. Data(v.in["server"]) \in Nat /\ Data(d.v.in["server"]) \in Nat BY <1>1, <1>5, DataOf DEF Kept
    <3>7. v.s["server"].got \in Nat /\ v.s["client"].sent \in Nat BY <1>1, WorldHas DEF Good, Socket, Ends
    <3> QED BY <2>1, <3>1, <3>3, <3>4, <3>5, <3>6, <3>7
  <2>3. n = d.v.s[e].to_send \/ (e = "server" /\ n = d.v.s[e].to_send + 1) OBVIOUS
  <2>4. UserReads(v, e) = HasRead(d.v, e, n) BY <1>4, <1>6
  <2> HIDE DEF n
  <2> QED BY <2>2, <2>3, <2>4, <1>5, DataReadKept
<1>7. CASE ReadError(d.r) # "ok"
  <2>1. UserReads(v, e) \in {d.v, Disconnect(d.v, e)} BY <1>4, <1>7
  <2>2. Kept(Disconnect(d.v, e), e, {}) BY <1>5, DisconnectKept
  <2> QED BY <2>1, <2>2, <1>5
<1> QED BY <1>6, <1>7

\* The two tries of Shutdown.
LEMMA LastShutdown ==
  ASSUME NEW v, Good(v), NEW e \in Ends
  PROVE  LET first == SSL_shutdown(v, e)
             last == IF first.r = "again" THEN SSL_shutdown(first.v, e) ELSE first
         IN  Lib(v, last.v, e)
<1> DEFINE first == SSL_shutdown(v, e)
           second == SSL_shutdown(first.v, e)
<1>1. Lib(v, first.v, e) BY SSL_shutdownLib
<1> HIDE DEF first
<1>2. Lib(first.v, second.v, e) BY <1>1, LibGood, SSL_shutdownLib
<1>3. Lib(v, second.v, e) BY <1>1, <1>2, LibTrans
<1> HIDE DEF second
<1>4. Lib(v, (IF first.r = "again" THEN second ELSE first).v, e) BY <1>1, <1>3
<1> QED BY <1>4 DEF second, first

\* What a shutdown leaves as it is.
ShutLike(x, y) ==
  /\ y.wait_read_callback_ = x.wait_read_callback_ /\ y.wait_write_callback_ = x.wait_write_callback_
  /\ y.disconnected_ = x.disconnected_ /\ y.connected = x.connected /\ y.to_send = x.to_send

\* A wait callback is set or released.
LEMMA WaitSet ==
  ASSUME NEW v, v \in World, NEW e \in Ends, NEW x \in BOOLEAN,
         NEW f \in {"wait_read_callback_", "wait_write_callback_", "wait_shutdown_callback_"}
  PROVE  LET t == Set(v, e, f, x)
         IN  /\ t.s[e].disconnected_ = v.s[e].disconnected_ /\ t.s[e].connected = v.s[e].connected
             /\ t.s[e].to_send = v.s[e].to_send /\ t.s[e][f] = x
             /\ f = "wait_shutdown_callback_" => ShutLike(v.s[e], t.s[e])
<1> DEFINE y == [v.s[e] EXCEPT ![f] = x]  t == Set(v, e, f, x)
<1>1. v.s[e] \in Socket BY WorldHas
<1>2. y \in Socket BY <1>1, SocketSet
<1>3. Having(t, v, e, y) BY <1>1, <1>2, SetIs
<1>4. /\ y.disconnected_ = v.s[e].disconnected_ /\ y.connected = v.s[e].connected
      /\ y.to_send = v.s[e].to_send /\ y[f] = x
      /\ f = "wait_shutdown_callback_" => ShutLike(v.s[e], y)
  BY <1>1 DEF Socket, ShutLike
<1> HIDE DEF y, t
<1>5. t.s[e] = y BY <1>3 DEF Having
<1>6. /\ t.s[e].disconnected_ = v.s[e].disconnected_ /\ t.s[e].connected = v.s[e].connected
      /\ t.s[e].to_send = v.s[e].to_send /\ t.s[e][f] = x
      /\ f = "wait_shutdown_callback_" => ShutLike(v.s[e], t.s[e])
  BY <1>4, <1>5
<1> QED BY <1>6 DEF t

\* Shutdown, of an open, connected socket.
LEMMA ShutdownKept ==
  ASSUME NEW v, NEW e \in Ends, NEW ops, Kept(v, e, ops), ~v.s[e].disconnected_, v.s[e].connected
  PROVE  Kept(Shutdown(v, e), e, ops) /\ ShutLike(v.s[e], Shutdown(v, e).s[e])
<1> DEFINE first == SSL_shutdown(v, e)
           last == IF first.r = "again" THEN SSL_shutdown(first.v, e) ELSE first
           t == Set(last.v, e, "wait_shutdown_callback_", TRUE)
<1>1. Lib(v, last.v, e) BY LastShutdown DEF Kept
<1>2. Shutdown(v, e) = IF SSL_in_init(v, e) THEN v ELSE IF ~Pending(last.r) THEN last.v
                       ELSE WaitShutdown(t, e, last.r)
  BY DEF Shutdown
<1> HIDE DEF last
<1>3. Kept(last.v, e, ops) /\ Like(v.s[e], last.v.s[e]) BY <1>1, LibKept, LibLike
<1>4. last.v.s[e].connected /\ ~last.v.s[e].disconnected_ BY <1>3 DEF Like
<1>5. Kept(t, e, ops) BY <1>3, <1>4, ShutdownSet
<1>6. ShutLike(v.s[e], t.s[e])
  <2>1. last.v \in World /\ last.v.s[e] \in Socket BY <1>3, KeptHas
  <2>2. ShutLike(last.v.s[e], t.s[e]) BY <2>1, WaitSet
  <2> QED BY <2>2, <1>3 DEF ShutLike, Like
<1> HIDE DEF t
<1>7. ASSUME NEW op \in {"OnWaitRead", "OnWaitWrite"}
      PROVE  Kept(Arm(t, e, op), e, ops) /\ ShutLike(v.s[e], Arm(t, e, op).s[e])
  <2>1. op \in ReadOps \union WriteOps BY DEF ReadOps, WriteOps
  <2>2. Kept(t, e, ops \union {op}) BY <1>5, KeptMore
  <2>3. Kept(Arm(t, e, op), e, ops) /\ Like(t.s[e], Arm(t, e, op).s[e]) BY <2>1, <2>2, ArmKept
  <2> QED BY <2>3, <1>6 DEF ShutLike, Like
<1>8. WaitShutdown(t, e, last.r) \in {t, Arm(t, e, "OnWaitRead"), Arm(t, e, "OnWaitWrite")} BY DEF WaitShutdown
<1>9. ShutLike(v.s[e], v.s[e]) /\ ShutLike(v.s[e], last.v.s[e]) BY <1>3 DEF ShutLike, Like
<1>10. Shutdown(v, e) \in {v, last.v, t, Arm(t, e, "OnWaitRead"), Arm(t, e, "OnWaitWrite")} BY <1>2, <1>8
<1> QED BY <1>3, <1>5, <1>6, <1>7, <1>9, <1>10

\* Its retry.
LEMMA OnDoWaitShutdownKept ==
  ASSUME NEW v, NEW e \in Ends, NEW ops, Kept(v, e, ops), ~v.s[e].disconnected_, v.s[e].wait_shutdown_callback_
  PROVE  Kept(OnDoWaitShutdown(v, e), e, ops) /\ ShutLike(v.s[e], OnDoWaitShutdown(v, e).s[e])
<1> DEFINE t == Set(v, e, "wait_shutdown_callback_", FALSE)
<1>1. Kept(t, e, ops) BY ShutdownSet
<1>2. v \in World /\ v.s[e] \in Socket /\ v.s[e].connected BY KeptHas DEF Served
<1>5. ShutLike(v.s[e], t.s[e]) BY <1>2, WaitSet
<1> HIDE DEF t
<1>6. ~t.s[e].disconnected_ /\ t.s[e].connected BY <1>2, <1>5 DEF ShutLike
<1>7. Kept(Shutdown(t, e), e, ops) /\ ShutLike(t.s[e], Shutdown(t, e).s[e]) BY <1>1, <1>6, ShutdownKept
<1>8. ShutLike(v.s[e], Shutdown(t, e).s[e]) BY <1>5, <1>7 DEF ShutLike
<1> QED BY <1>7, <1>8 DEF OnDoWaitShutdown, t

\* The end of a wait to read: the shutdown is retried first, then the reader
\* runs.
LEMMA OnWaitReadKept ==
  ASSUME NEW v, NEW e \in Ends, Kept(v, e, {"OnWaitRead"})
  PROVE  Kept(OnWaitRead(v, e), e, {})
<1> DEFINE u == IF v.s[e].wait_shutdown_callback_ THEN OnDoWaitShutdown(v, e) ELSE v
           t == Set(u, e, "wait_read_callback_", FALSE)
<1>1. CASE Closed(v, e)
  <2>1. OnWaitRead(v, e) = v BY <1>1 DEF OnWaitRead
  <2> QED BY <2>1, <1>1, ClosedKept DEF Closed
<1>2. CASE ~Closed(v, e)
  <2>1. Kept(u, e, {"OnWaitRead"}) /\ ~u.s[e].disconnected_
    <3>1. CASE v.s[e].wait_shutdown_callback_ BY <3>1, <1>2, OnDoWaitShutdownKept DEF Closed, ShutLike
    <3>2. CASE ~v.s[e].wait_shutdown_callback_ BY <3>2, <1>2 DEF Closed
    <3> QED BY <3>1, <3>2
  <2>2. OnWaitRead(v, e) = IF u.s[e].wait_read_callback_ THEN UserReads(t, e) ELSE u
    BY <1>2 DEF OnWaitRead
  <2> HIDE DEF u
  <2>3. CASE u.s[e].wait_read_callback_
    <3>1. Kept(t, e, {"OnWaitRead"} \ {"OnWaitRead"}) BY <2>1, ReadSet
    <3>2. {"OnWaitRead"} \ {"OnWaitRead"} = {} OBVIOUS
    <3>3. u \in World /\ u.s[e] \in Socket BY <2>1, KeptHas
    <3>6. ~t.s[e].disconnected_ BY <3>3, <2>1, WaitSet
    <3> HIDE DEF t
    <3> QED BY <3>1, <3>2, <3>6, <2>2, <2>3, UserReadsKept
  <2>4. CASE ~u.s[e].wait_read_callback_
    <3>1. Kept(u, e, {}) BY <2>1, <2>4 DEF Kept, Served
    <3> QED BY <3>1, <2>2, <2>4
  <2> QED BY <2>3, <2>4
<1> QED BY <1>1, <1>2

\* The end of a wait to write.
LEMMA OnWaitWriteKept ==
  ASSUME NEW v, NEW e \in Ends, Kept(v, e, {"OnWaitWrite"})
  PROVE  Kept(OnWaitWrite(v, e), e, {})
<1> DEFINE u == IF v.s[e].wait_shutdown_callback_ THEN OnDoWaitShutdown(v, e) ELSE v
           t == Set(u, e, "wait_write_callback_", FALSE)
<1>1. CASE Closed(v, e)
  <2>1. OnWaitWrite(v, e) = v BY <1>1 DEF OnWaitWrite
  <2> QED BY <2>1, <1>1, ClosedKept DEF Closed
<1>2. CASE ~Closed(v, e)
  <2>1. Kept(u, e, {"OnWaitWrite"}) /\ ~u.s[e].disconnected_
    <3>1. CASE v.s[e].wait_shutdown_callback_ BY <3>1, <1>2, OnDoWaitShutdownKept DEF Closed, ShutLike
    <3>2. CASE ~v.s[e].wait_shutdown_callback_ BY <3>2, <1>2 DEF Closed
    <3> QED BY <3>1, <3>2
  <2>2. OnWaitWrite(v, e) = IF u.s[e].wait_write_callback_ THEN UserWrites(t, e) ELSE u
    BY <1>2 DEF OnWaitWrite
  <2> HIDE DEF u
  <2>3. CASE u.s[e].wait_write_callback_
    <3>1. Kept(t, e, {"OnWaitWrite"} \ {"OnWaitWrite"}) BY <2>1, WriteSet
    <3>2. {"OnWaitWrite"} \ {"OnWaitWrite"} = {} OBVIOUS
    <3>3. u \in World /\ u.s[e] \in Socket /\ u.s[e].to_send > 0 BY <2>1, <2>3, KeptHas DEF Served
    <3>6. ~t.s[e].disconnected_ /\ ~t.s[e].wait_write_callback_ /\ t.s[e].to_send > 0
      BY <3>3, <2>1, WaitSet
    <3> HIDE DEF t
    <3> QED BY <3>1, <3>2, <3>6, <2>2, <2>3, UserWritesKept
  <2>4. CASE ~u.s[e].wait_write_callback_
    <3>1. Kept(u, e, {}) BY <2>1, <2>4 DEF Kept, Served
    <3> QED BY <3>1, <2>2, <2>4
  <2> QED BY <2>3, <2>4
<1> QED BY <1>1, <1>2

-----------------------------------------------------------------------------
(* The handshakes. *)

\* DoPeek makes calls of the library and keeps no callback.
LEMMA DoPeekLib == ASSUME NEW v, Good(v) PROVE Lib(v, DoPeek(v), "client")
<1> DEFINE e == "client"
           c == v.s["client"]
           first == early_enabled /\ ~c.handled_early_data_result_
           h == IF first THEN ClientHandshake(v) ELSE Result(v, "ok")
           cleared == IF h.r = "early_data_rejected" THEN NoEarlyData(h.v) ELSE h.v
           z == Set(cleared, "client", "handled_early_data_result_", TRUE)
           u == IF first THEN z ELSE v
           p == SSL_read(u, "client", TRUE)
<1>1. CASE c.disconnected_ \/ ~c.completed
  <2>1. DoPeek(v) = v BY <1>1 DEF DoPeek
  <2> QED BY <2>1, LibRefl
<1>2. CASE ~(c.disconnected_ \/ ~c.completed)
  <2>1. e \in Ends BY DEF Ends
  <2>2. Lib(v, h.v, e)
    <3>1. CASE first BY <3>1, <1>2, ClientHandshakeGives DEF Gives
    <3>2. CASE ~first BY <3>2, LibRefl DEF Result
    <3> QED BY <3>1, <3>2
  <2>3. DoPeek(v) = IF first /\ Pending(h.r) THEN h.v
                    ELSE IF first /\ h.r # "ok" THEN Set(u, "client", "peek_complete_", TRUE)
                    ELSE IF c.peek_complete_ THEN u
                    ELSE IF Pending(p.r) THEN p.v ELSE Set(p.v, "client", "peek_complete_", TRUE)
    BY <1>2 DEF DoPeek
  <2> HIDE DEF h
  <2>4. Lib(v, cleared, e)
    <3>1. Good(h.v) BY <2>2, LibGood
    <3>2. 0 \in 0 .. 2 OBVIOUS
    <3>3. Lib(h.v, [h.v EXCEPT !.cached = 0], e) BY <3>1, <3>2, <2>1, CachedLib
    <3>4. Lib(v, NoEarlyData(h.v), e) BY <3>3, <2>2, LibTrans DEF NoEarlyData
    <3> QED BY <3>4, <2>2
  <2> HIDE DEF cleared
  <2>5. Lib(v, z, e)
    <3>1. Lib(cleared, z, e) BY <2>4, <2>1, LibGood, FlagLib
    <3> QED BY <3>1, <2>4, LibTrans
  <2>6. Lib(v, u, e) BY <2>5, LibRefl
  <2> HIDE DEF u
  <2>7. Good(u) /\ ~u.s["client"].disconnected_ BY <2>6, <1>2, LibGood
  <2>8. Lib(u, p.v, e) BY <2>7, <2>1, SSL_readReads DEF Reads
  <2>9. Lib(v, p.v, e) BY <2>6, <2>8, LibTrans
  <2> HIDE DEF p
  <2>10. ASSUME NEW t, Lib(v, t, e) PROVE Lib(v, Set(t, "client", "peek_complete_", TRUE), e)
    <3>1. Lib(t, Set(t, "client", "peek_complete_", TRUE), e) BY <2>10, <2>1, LibGood, FlagLib
    <3> QED BY <3>1, <2>10, LibTrans
  <2> HIDE DEF first
  <2> QED BY <2>2, <2>3, <2>6, <2>9, <2>10
<1> QED BY <1>1, <1>2

\* The state of the handshake loop.
LEMMA StateMoves ==
  ASSUME NEW v, Good(v), NEW e \in Ends, NEW x \in {"NONE", "HANDSHAKE"}
  PROVE  LET u == Set(v, e, "next_handshake_state_", x)
         IN  Moves(v, u, e) /\ u.s[e].next_handshake_state_ = x
<1> DEFINE y == [v.s[e] EXCEPT !["next_handshake_state_"] = x]  u == Set(v, e, "next_handshake_state_", x)
<1>1. v \in World /\ v.s[e] \in Socket BY WorldHas DEF Good
<1>2. y \in Socket BY <1>1, SocketSet
<1>3. Having(u, v, e, y) BY <1>1, <1>2, SetIs
<1>4. /\ Like(v.s[e], y) /\ Ops(y) = Ops(v.s[e]) /\ y.ssl = v.s[e].ssl /\ y.held = v.s[e].held
      /\ y.next_handshake_state_ = x
  BY <1>1 DEF Socket, Like, Ops
<1> HIDE DEF y, u
<1>5. Spare(e, y) = Spare(e, v.s[e]) BY <1>4 DEF Spare, Like
<1>6. Spare(e, y) <= Spare(e, v.s[e]) BY <1>5, <1>1, SpareType
<1>7. e = "server" => y.ssl \notin {"finishing", "rejected"} /\ ~y.held BY <1>4 DEF Good
<1>8. Moves(v, u, e) BY <1>3, <1>4, <1>6, <1>7, HavingMoves
<1>9. u.s[e].next_handshake_state_ = x BY <1>3, <1>4 DEF Having
<1> QED BY <1>8, <1>9 DEF u

\* Arming is a move.
LEMMA ArmMoves ==
  ASSUME NEW v, Good(v), NEW e \in Ends, NEW op \in ReadOps \union WriteOps
  PROVE  LET u == Arm(v, e, op)
         IN  Lib(v, u, e) /\ op \in Due(u, e)
<1> DEFINE x == v.s[e]  y == WithOp(x, op)  u == Arm(v, e, op)
<1>1. v \in World /\ x \in Socket BY WorldHas DEF Good
<1>2. Having(u, v, e, y) BY <1>1, ArmIs
<1>3. x.reading \in Seq(ReadOps) /\ x.writing \in Seq(WriteOps) BY <1>1 DEF Socket
<1>4. Kin(x, y) /\ Like(x, y) /\ y.next_handshake_state_ = x.next_handshake_state_
  BY <1>1 DEF WithOp, Kin, Like, Socket
<1>5. Ops(y) = Ops(x) \union {op}
  <2>1. CASE op \in ReadOps
    <3>1. y.reading = Append(x.reading, op) /\ y.writing = x.writing BY <1>1, <2>1 DEF WithOp, Socket
    <3>2. Among(y.reading) = Among(x.reading) \union {op} BY <3>1, <1>3, <2>1, AmongAppend
    <3> HIDE DEF y, x
    <3> QED BY <3>1, <3>2 DEF Ops
  <2>2. CASE op \notin ReadOps
    <3>1. y.writing = Append(x.writing, op) /\ y.reading = x.reading BY <1>1, <2>2 DEF WithOp, Socket
    <3>2. Among(y.writing) = Among(x.writing) \union {op} BY <3>1, <1>3, <2>2, AmongAppend
    <3> HIDE DEF y, x
    <3> QED BY <3>1, <3>2 DEF Ops
  <2> QED BY <2>1, <2>2
<1> HIDE DEF y, u
<1>6. Spare(e, y) = Spare(e, v.s[e]) BY <1>4 DEF Spare, Kin
<1>7. Spare(e, y) <= Spare(e, v.s[e]) BY <1>6, <1>1, SpareType
<1>8. e = "server" => y.ssl \notin {"finishing", "rejected"} /\ ~y.held BY <1>4 DEF Good, Kin
<1>9. Like(v.s[e], y) /\ Ops(v.s[e]) \subseteq Ops(y) BY <1>4, <1>5
<1>10. Moves(v, u, e) BY <1>2, <1>7, <1>8, <1>9, HavingMoves
<1>11. u.s[e] = y /\ op \in Due(u, e) BY <1>2, <1>5 DEF Having, Due
<1> QED BY <1>4, <1>10, <1>11 DEF u, Lib

\* How a loop that waits leaves the socket.
Waiting(u, e) ==
  /\ u.s[e].next_handshake_state_ = "HANDSHAKE"
  /\ "OnReadReady" \in Due(u, e) \/ "OnWriteReady" \in Due(u, e)

\* The end of a loop that has to wait.
LEMMA ArmHandshakeMoves ==
  ASSUME NEW v, Good(v), NEW e \in Ends, NEW u, Lib(v, u, e), NEW r
  PROVE  LET t == ArmHandshake(Set(u, e, "next_handshake_state_", "HANDSHAKE"), e, r)
         IN  Moves(v, t, e) /\ Waiting(t, e)
<1> DEFINE a == Set(u, e, "next_handshake_state_", "HANDSHAKE")
           op == IF r = "want_read" THEN "OnReadReady" ELSE "OnWriteReady"
           t == Arm(a, e, op)
<1>1. Good(u) /\ Moves(v, u, e) BY LibGood DEF Lib
<1>2. Moves(u, a, e) /\ a.s[e].next_handshake_state_ = "HANDSHAKE" BY <1>1, StateMoves
<1> HIDE DEF a
<1>3. Good(a) BY <1>2 DEF Moves
<1>4. op \in ReadOps \union WriteOps BY DEF ReadOps, WriteOps
<1>5. Lib(a, t, e) /\ op \in Due(t, e) BY <1>3, <1>4, ArmMoves
<1>6. Moves(v, a, e) BY <1>1, <1>2, MovesTrans
<1>7. Moves(v, t, e) BY <1>5, <1>6, MovesTrans DEF Lib
<1>8. Waiting(t, e) BY <1>2, <1>5 DEF Waiting, Lib
<1> QED BY <1>7, <1>8 DEF ArmHandshake, a

\* A handler is queued at end e.
Queued(v, e, op) == [v EXCEPT !.q[e] = Append(@, op)]

\* Nothing is lost by it.
LEMMA QueueLib ==
  ASSUME NEW v, Good(v), NEW e \in Ends, NEW op \in Handlers
  PROVE  Lib(v, Queued(v, e, op), e)
<1> DEFINE u == [v EXCEPT !.q = [v.q EXCEPT ![e] = Append(v.q[e], op)]]
<1>1. v \in World /\ v.q \in [Ends -> Seq(Handlers)] /\ v.q[e] \in Seq(Handlers) BY DEF Good, World
<1>2. Append(v.q[e], op) \in Seq(Handlers) BY <1>1, AppendProperties
<1>3. Queued(v, e, op) = u BY <1>1 DEF World, Queued
<1>4. u \in World /\ u.s = v.s /\ u.in = v.in BY <1>1, <1>2 DEF World
<1>5. u.q = [v.q EXCEPT ![e] = Append(v.q[e], op)] BY <1>1 DEF World
<1>6. u.q[Peer(e)] = v.q[Peer(e)] /\ u.q[e] = Append(v.q[e], op) BY <1>1, <1>5, PeerIs
<1> HIDE DEF u
<1>7. Among(u.q[e]) = Among(v.q[e]) \union {op} BY <1>1, <1>6, AmongAppend
<1>8. Good(u) BY <1>4 DEF Good
<1>9. Data(u.in["server"]) <= Data(v.in["server"]) BY <1>4, DataOf
<1>10. Due(v, e) \subseteq Due(u, e) BY <1>4, <1>7 DEF Due
<1>11. Lib(v, u, e) BY <1>4, <1>6, <1>8, <1>9, <1>10 DEF Lib, Moves, Like, Budget
<1> QED BY <1>3, <1>11

\* What a loop of the handshake leaves behind.
LEMMA ClientLoop ==
  ASSUME NEW v, Good(v), ~v.s["client"].disconnected_
  PROVE  LET x == DoHandshakeLoop(v)
         IN  Moves(v, x.v, "client") /\ (Pending(x.r) => Waiting(x.v, "client"))
<1> DEFINE e == "client"
           x == ClientHandshake(v)
           idle == Set(x.v, "client", "next_handshake_state_", "NONE")
           done == Set(idle, "client", "completed", TRUE)
           l == DoHandshakeLoop(v)
           armed == ArmHandshake(Set(x.v, "client", "next_handshake_state_", "HANDSHAKE"), "client", x.r)
<1>1. e \in Ends BY DEF Ends
<1>2. Lib(v, x.v, e) BY ClientHandshakeGives DEF Gives
<1>3. l = CASE Pending(x.r) -> Result(armed, x.r)
            [] x.r = "ok" /\ ~v.s["client"].in_confirm_handshake_ ->
                 Result(Queued(done, "client", "DoPeek"), "ok")
            [] OTHER -> Result(idle, x.r)
  BY DEF DoHandshakeLoop, Queued
<1> HIDE DEF x
<1>4. CASE Pending(x.r)
  <2>1. Moves(v, armed, e) /\ Waiting(armed, e) BY <1>1, <1>2, ArmHandshakeMoves
  <2> HIDE DEF armed, l, done, idle
  <2>2. l = Result(armed, x.r)
    <3>1. x.r # "ok" BY <1>4 DEF Pending
    <3> QED BY <1>3, <1>4, <3>1
  <2>4. l.v = armed BY <2>2 DEF Result
  <2>3. Moves(v, l.v, e) /\ Waiting(l.v, e) BY <2>1, <2>4
  <2> QED BY <2>3 DEF l
<1>5. CASE ~Pending(x.r)
  <2>1. Good(x.v) /\ Moves(v, x.v, e) BY <1>2, LibGood DEF Lib
  <2>2. Moves(x.v, idle, e) BY <1>1, <2>1, StateMoves
  <2>3. Moves(v, idle, e) BY <2>1, <2>2, MovesTrans
  <2> HIDE DEF idle
  <2>4. Good(idle) BY <2>3 DEF Moves
  <2>5. Lib(idle, done, e) BY <1>1, <2>4, FlagLib
  <2>6. Moves(v, done, e) BY <2>3, <2>5, MovesTrans DEF Lib
  <2> HIDE DEF done
  <2>7. Lib(done, Queued(done, "client", "DoPeek"), e)
    BY <1>1, <2>6, QueueLib DEF Moves, Handlers
  <2>8. Moves(v, Queued(done, "client", "DoPeek"), e)
    BY <2>6, <2>7, MovesTrans DEF Lib
  <2> HIDE DEF armed, l
  <2>9. \/ l.v = idle /\ l.r = x.r
        \/ l.v = Queued(done, "client", "DoPeek") /\ l.r = "ok"
    <3>1. CASE x.r = "ok" /\ ~v.s["client"].in_confirm_handshake_ BY <1>3, <1>5, <3>1 DEF Result
    <3>2. CASE ~(x.r = "ok" /\ ~v.s["client"].in_confirm_handshake_) BY <1>3, <1>5, <3>2 DEF Result
    <3> QED BY <3>1, <3>2
  <2>10. Moves(v, l.v, e) /\ ~Pending(l.r) BY <2>3, <2>8, <2>9, <1>5 DEF Pending
  <2> QED BY <2>10 DEF l
<1> QED BY <1>4, <1>5

\* The same for the server.
LEMMA ServerLoop ==
  ASSUME NEW v, Good(v), ~v.s["server"].disconnected_
  PROVE  LET x == ServerHandshakeLoop(v)
         IN  Moves(v, x.v, "server") /\ (Pending(x.r) => Waiting(x.v, "server"))
<1> DEFINE e == "server"
           x == ServerHandshake(v)
           idle == Set(x.v, "server", "next_handshake_state_", "NONE")
           ok == (x.r = "ok")
           done == [idle EXCEPT !.s["server"].completed = ok]
           l == ServerHandshakeLoop(v)
           armed == ArmHandshake(Set(x.v, "server", "next_handshake_state_", "HANDSHAKE"), "server", x.r)
<1>1. e \in Ends BY DEF Ends
<1>2. Lib(v, x.v, e) BY ServerHandshakeGives DEF Gives
<1>3. l = IF Pending(x.r) THEN Result(armed, x.r) ELSE Result(done, x.r)
  BY DEF ServerHandshakeLoop
<1> HIDE DEF x
<1>4. CASE Pending(x.r)
  <2>1. l.v = armed BY <1>3, <1>4 DEF Result
  <2>2. Moves(v, armed, e) /\ Waiting(armed, e) BY <1>1, <1>2, ArmHandshakeMoves
  <2> HIDE DEF armed, l
  <2>3. Moves(v, l.v, e) /\ Waiting(l.v, e) BY <2>1, <2>2
  <2> QED BY <2>3 DEF l
<1>5. CASE ~Pending(x.r)
  <2>1. Good(x.v) /\ Moves(v, x.v, e) BY <1>2, LibGood DEF Lib
  <2>2. Moves(x.v, idle, e) BY <1>1, <2>1, StateMoves
  <2>3. Moves(v, idle, e) BY <2>1, <2>2, MovesTrans
  <2> HIDE DEF idle
  <2>4. Good(idle) /\ idle \in World /\ ok \in BOOLEAN BY <2>3 DEF Moves, Good
  <2>5. done = Set(idle, e, "completed", ok) BY <2>4 DEF Set, World, Ends, Socket
  <2> HIDE DEF ok, done
  <2>6. Lib(idle, done, e) BY <1>1, <2>4, <2>5, FlagLib
  <2>7. Moves(v, done, e) BY <2>3, <2>6, MovesTrans DEF Lib
  <2>8. l.v = done /\ l.r = x.r BY <1>3, <1>5 DEF Result
  <2> HIDE DEF l
  <2>9. Moves(v, l.v, e) /\ ~Pending(l.r) BY <2>7, <2>8, <1>5
  <2> QED BY <2>9 DEF l
<1> QED BY <1>4, <1>5

\* What a move leaves alone.
LEMMA MovesLike ==
  ASSUME NEW v, NEW u, NEW e, Moves(v, u, e)
  PROVE  Good(u) /\ Like(v.s[e], u.s[e])
BY DEF Moves

\* ConfirmHandshake, of a socket nobody waits for.
LEMMA ConfirmKept ==
  ASSUME NEW v, Kept(v, "client", {}), ~v.s["client"].disconnected_, v.s["client"].started,
         v.s["client"].user_callback = "none"
  PROVE  Kept(ConfirmHandshake(v), "client", {})
<1> DEFINE e == "client"
           a == Set(v, "client", "in_confirm_handshake_", TRUE)
           x == DoHandshakeLoop(a)
           done == Set(x.v, "client", "in_confirm_handshake_", FALSE)
<1>1. e \in Ends /\ Good(v) BY DEF Ends, Kept
<1>2. Lib(v, a, e) BY <1>1, FlagLib
<1>3. Good(a) /\ Like(v.s[e], a.s[e]) BY <1>2, LibGood, LibLike
<1>4. ConfirmHandshake(v) = CASE v.s["client"].ssl # "early" -> v
                              [] v.s["client"].ssl = "early" /\ Pending(x.r) -> Set(x.v, "client", "user_callback", "confirm")
                              [] OTHER -> IF x.r = "ok" THEN done ELSE Disconnect(done, "client")
  BY DEF ConfirmHandshake
<1> HIDE DEF a
<1>5. ~a.s["client"].disconnected_ BY <1>3 DEF Like
<1>6. Moves(a, x.v, e) /\ (Pending(x.r) => Waiting(x.v, e)) BY <1>3, <1>5, ClientLoop
<1> HIDE DEF x
<1>7. Kept(a, e, {"handshake"})
  <2>1. Kept(a, e, {}) BY <1>1, <1>2, LibKept
  <2> QED BY <2>1, <1>1, KeptMore
<1>8. Kept(x.v, e, {"handshake"}) BY <1>1, <1>6, <1>7, MovesKept
<1>9. Good(x.v) /\ x.v.s[e].user_callback = "none" /\ x.v.s[e].started /\ ~x.v.s[e].disconnected_
  <2>1. Good(x.v) /\ Like(a.s[e], x.v.s[e]) BY <1>6, MovesLike
  <2>2. a.s[e].user_callback = "none" /\ a.s[e].started /\ ~a.s[e].disconnected_ BY <1>3 DEF Like
  <2> QED BY <2>1, <2>2 DEF Like
<1>10. Kept(x.v, e, {}) BY <1>1, <1>8, <1>9, HandshakeServed
<1>11. CASE v.s["client"].ssl # "early" BY <1>4, <1>11
<1>12. CASE v.s["client"].ssl = "early" /\ Pending(x.r)
  <2>1. ConfirmHandshake(v) = Set(x.v, "client", "user_callback", "confirm") BY <1>4, <1>12
  <2>2. Kept(Set(x.v, "client", "user_callback", "confirm"), e, {} \ {"handshake"})
    BY <1>1, <1>6, <1>9, <1>10, <1>12, UserSet DEF Waiting
  <2>3. {} \ {"handshake"} = {} OBVIOUS
  <2> QED BY <2>1, <2>2, <2>3
<1>13. CASE v.s["client"].ssl = "early" /\ ~Pending(x.r)
  <2>1. Lib(x.v, done, e) BY <1>1, <1>9, FlagLib
  <2>2. Kept(done, e, {}) BY <1>1, <1>10, <2>1, LibKept
  <2>3. Kept(Disconnect(done, e), e, {}) BY <1>1, <2>2, DisconnectKept
  <2>4. ConfirmHandshake(v) \in {done, Disconnect(done, "client")} BY <1>4, <1>13
  <2> QED BY <2>2, <2>3, <2>4
<1> QED BY <1>11, <1>12, <1>13

\* The callback of Connect confirms the handshake, or closes.
LEMMA OnConnectedKept ==
  ASSUME NEW v, NEW r, Kept(v, "client", {}), ~v.s["client"].disconnected_, v.s["client"].started,
         v.s["client"].user_callback = "none"
  PROVE  Kept(on_connected(v, r), "client", {})
<1> DEFINE u == ConfirmHandshake(v)
<1>1. "client" \in Ends BY DEF Ends
<1>2. Kept(u, "client", {}) BY ConfirmKept
<1>3. on_connected(v, r) \in {Disconnect(v, "client"), u, Set(u, "client", "connected", TRUE)}
  BY DEF on_connected
<1> HIDE DEF u
<1>4. Kept(Set(u, "client", "connected", TRUE), "client", {}) BY <1>1, <1>2, MarkSet
<1>5. Kept(Disconnect(v, "client"), "client", {}) BY <1>1, DisconnectKept
<1> QED BY <1>2, <1>3, <1>4, <1>5

\* Connect, of a socket just started.
LEMMA ConnectKept ==
  ASSUME NEW v, Kept(v, "client", {}), ~v.s["client"].disconnected_, v.s["client"].started,
         v.s["client"].user_callback = "none"
  PROVE  Kept(Connect(v), "client", {})
<1> DEFINE e == "client"  x == DoHandshakeLoop(v)
<1>1. e \in Ends /\ Good(v) BY DEF Ends, Kept
<1>2. Moves(v, x.v, e) /\ (Pending(x.r) => Waiting(x.v, e)) BY <1>1, ClientLoop
<1>3. Connect(v) = IF Pending(x.r) THEN Set(x.v, "client", "user_callback", "connect") ELSE on_connected(x.v, x.r)
  BY DEF Connect
<1> HIDE DEF x
<1>4. Kept(x.v, e, {"handshake"})
  <2>1. Kept(v, e, {"handshake"}) BY <1>1, KeptMore
  <2> QED BY <2>1, <1>1, <1>2, MovesKept
<1>5. x.v.s[e].user_callback = "none" /\ x.v.s[e].started /\ ~x.v.s[e].disconnected_
  BY <1>2, MovesLike DEF Like
<1>6. Kept(x.v, e, {}) BY <1>1, <1>4, <1>5, HandshakeServed
<1>7. CASE Pending(x.r)
  <2>1. Kept(Set(x.v, "client", "user_callback", "connect"), e, {} \ {"handshake"})
    BY <1>1, <1>2, <1>5, <1>6, <1>7, UserSet DEF Waiting
  <2>2. {} \ {"handshake"} = {} OBVIOUS
  <2> QED BY <1>3, <1>7, <2>1, <2>2
<1>8. CASE ~Pending(x.r)
  <2>1. Kept(on_connected(x.v, x.r), e, {}) BY <1>5, <1>6, OnConnectedKept
  <2> QED BY <1>3, <1>8, <2>1
<1> QED BY <1>7, <1>8

\* The callback of the handshake is set.
LEMMA UserFields ==
  ASSUME NEW v \in World, NEW e \in Ends, NEW x \in {"none", "connect", "confirm"}
  PROVE  LET t == Set(v, e, "user_callback", x)
         IN  /\ t.s[e].disconnected_ = v.s[e].disconnected_ /\ t.s[e].started = v.s[e].started
             /\ t.s[e].user_callback = x
<1> DEFINE y == [v.s[e] EXCEPT !["user_callback"] = x]  t == Set(v, e, "user_callback", x)
<1>1. v.s[e] \in Socket BY WorldHas
<1>2. y \in Socket BY <1>1, SocketSet
<1>3. Having(t, v, e, y) BY <1>2, SetIs
<1>4. y.disconnected_ = v.s[e].disconnected_ /\ y.started = v.s[e].started /\ y.user_callback = x
  BY <1>1 DEF Socket
<1> HIDE DEF y, t
<1>5. t.s[e].disconnected_ = v.s[e].disconnected_ /\ t.s[e].started = v.s[e].started /\ t.s[e].user_callback = x
  BY <1>3, <1>4 DEF Having
<1> QED BY <1>5 DEF t

\* A callback is only kept for a socket that was started.
LEMMA StartedHas ==
  ASSUME NEW v, NEW e \in Ends, NEW ops, Kept(v, e, ops), v.s[e].user_callback # "none"
  PROVE  v.s[e].started
BY KeptHas DEF Served

\* The loop goes on, and tells the callback it has when it is done.
LEMMA OnHandshakeIOCompleteKept ==
  ASSUME NEW v, Kept(v, "client", {"handshake"}), ~v.s["client"].disconnected_
  PROVE  Kept(OnHandshakeIOComplete(v), "client", {})
<1> DEFINE e == "client"
           x == DoHandshakeLoop(v)
           callback == v.s["client"].user_callback
           a == Set(x.v, "client", "in_confirm_handshake_", FALSE)
           u == Set(a, "client", "user_callback", "none")
           done == IF x.r = "ok" THEN u ELSE Disconnect(u, "client")
<1>1. e \in Ends /\ Good(v) BY DEF Ends, Kept
<1>2. Moves(v, x.v, e) /\ (Pending(x.r) => Waiting(x.v, e)) BY <1>1, ClientLoop
<1>3. OnHandshakeIOComplete(v) =
        CASE Pending(x.r) -> x.v
          [] ~Pending(x.r) /\ callback = "connect" -> on_connected(u, x.r)
          [] ~Pending(x.r) /\ callback = "confirm" -> done
          [] OTHER -> u
  BY DEF OnHandshakeIOComplete
<1> HIDE DEF x
<1>4. Kept(x.v, e, {"handshake"}) BY <1>1, <1>2, MovesKept
<1>5. Good(x.v) /\ Like(v.s[e], x.v.s[e]) BY <1>2, MovesLike
<1>6. Lib(x.v, a, e) BY <1>1, <1>5, FlagLib
<1>7. Kept(a, e, {"handshake"}) /\ Like(x.v.s[e], a.s[e]) BY <1>1, <1>4, <1>6, LibKept, LibLike
<1> HIDE DEF a
<1>8. Kept(u, e, {})
  <2>1. Kept(u, e, {"handshake"} \ {"handshake"}) BY <1>1, <1>7, UserSet
  <2>2. {"handshake"} \ {"handshake"} = {} OBVIOUS
  <2> QED BY <2>1, <2>2
<1>9. /\ u.s[e].user_callback = "none" /\ ~u.s[e].disconnected_
      /\ callback # "none" => u.s[e].started
  <2>1. a \in World BY <1>1, <1>7, KeptHas
  <2>2. /\ u.s[e].disconnected_ = a.s[e].disconnected_ /\ u.s[e].started = a.s[e].started
        /\ u.s[e].user_callback = "none"
    BY <1>1, <2>1, UserFields
  <2>3. a.s[e].disconnected_ = v.s[e].disconnected_ /\ a.s[e].started = v.s[e].started BY <1>5, <1>7 DEF Like
  <2>4. callback # "none" => v.s[e].started BY <1>1, StartedHas
  <2> QED BY <2>2, <2>3, <2>4
<1> HIDE DEF u
<1>10. CASE Pending(x.r)
  <2>1. Kept(x.v, e, {}) BY <1>1, <1>2, <1>4, <1>10, HandshakeServed DEF Waiting
  <2>2. OnHandshakeIOComplete(v) = x.v BY <1>3, <1>10
  <2> QED BY <2>1, <2>2
<1>11. CASE ~Pending(x.r) /\ callback = "connect"
  <2>1. Kept(on_connected(u, x.r), e, {}) BY <1>8, <1>9, <1>11, OnConnectedKept
  <2>2. OnHandshakeIOComplete(v) = on_connected(u, x.r) BY <1>3, <1>11
  <2> QED BY <2>1, <2>2
<1>12. CASE ~Pending(x.r) /\ callback # "connect"
  <2>1. Kept(Disconnect(u, e), e, {}) BY <1>1, <1>8, DisconnectKept
  <2>2. OnHandshakeIOComplete(v) \in {u, done} BY <1>3, <1>12
  <2> QED BY <1>8, <2>1, <2>2
<1> QED BY <1>10, <1>11, <1>12

\* DoPeek keeps the invariant.
LEMMA DoPeekKept ==
  ASSUME NEW v, Kept(v, "client", {}) PROVE Kept(DoPeek(v), "client", {})
<1>1. "client" \in Ends /\ Good(v) BY DEF Ends, Kept
<1> QED BY <1>1, DoPeekLib, LibKept

\* The end of a wait of the handshake, of either socket.
LEMMA RetryAllOperationsKept ==
  ASSUME NEW v, Kept(v, "client", {"handshake"}),
         v.s["client"].next_handshake_state_ # "HANDSHAKE" => Kept(v, "client", {})
  PROVE  Kept(RetryAllOperations(v), "client", {})
<1>1. "client" \in Ends BY DEF Ends
<1>2. CASE Closed(v, "client")
  <2>1. RetryAllOperations(v) = v BY <1>2 DEF RetryAllOperations
  <2> QED BY <1>1, <1>2, <2>1, ClosedKept DEF Closed
<1>3. CASE ~Closed(v, "client") /\ v.s["client"].next_handshake_state_ = "HANDSHAKE"
  <2>1. RetryAllOperations(v) = DoPeek(OnHandshakeIOComplete(v)) BY <1>3 DEF RetryAllOperations
  <2> QED BY <1>3, <2>1, OnHandshakeIOCompleteKept, DoPeekKept DEF Closed
<1>4. CASE ~Closed(v, "client") /\ v.s["client"].next_handshake_state_ # "HANDSHAKE"
  <2>1. RetryAllOperations(v) = DoPeek(v) BY <1>4 DEF RetryAllOperations
  <2> QED BY <1>4, <2>1, DoPeekKept
<1> QED BY <1>2, <1>3, <1>4

\* SSLDownlink's callback.
LEMMA OnHandshakeKept ==
  ASSUME NEW v, NEW r, Kept(v, "server", {})
  PROVE  Kept(on_handshake(v, r), "server", {})
<1>1. "server" \in Ends BY DEF Ends
<1>2. Kept(Set(v, "server", "connected", TRUE), "server", {}) BY <1>1, MarkSet
<1>3. Kept(Disconnect(v, "server"), "server", {}) BY <1>1, DisconnectKept
<1>4. on_handshake(v, r) \in {Set(v, "server", "connected", TRUE), Disconnect(v, "server")} BY DEF on_handshake
<1> QED BY <1>2, <1>3, <1>4

\* Handshake, of a socket just started.
LEMMA HandshakeKept ==
  ASSUME NEW v, Kept(v, "server", {}), ~v.s["server"].disconnected_, v.s["server"].started,
         v.s["server"].user_callback = "none"
  PROVE  Kept(Handshake(v), "server", {})
<1> DEFINE e == "server"  x == ServerHandshakeLoop(v)
<1>1. e \in Ends /\ Good(v) BY DEF Ends, Kept
<1>2. Moves(v, x.v, e) /\ (Pending(x.r) => Waiting(x.v, e)) BY <1>1, ServerLoop
<1>3. Handshake(v) = IF Pending(x.r) THEN Set(x.v, "server", "user_callback", "connect") ELSE on_handshake(x.v, x.r)
  BY DEF Handshake
<1> HIDE DEF x
<1>4. Kept(x.v, e, {"handshake"})
  <2>1. Kept(v, e, {"handshake"}) BY <1>1, KeptMore
  <2> QED BY <2>1, <1>1, <1>2, MovesKept
<1>5. x.v.s[e].user_callback = "none" /\ x.v.s[e].started /\ ~x.v.s[e].disconnected_
  BY <1>2, MovesLike DEF Like
<1>6. Kept(x.v, e, {}) BY <1>1, <1>4, <1>5, HandshakeServed
<1>7. CASE Pending(x.r)
  <2>1. Kept(Set(x.v, "server", "user_callback", "connect"), e, {} \ {"handshake"})
    BY <1>1, <1>2, <1>5, <1>6, <1>7, UserSet DEF Waiting
  <2>2. {} \ {"handshake"} = {} OBVIOUS
  <2> QED BY <1>3, <1>7, <2>1, <2>2
<1>8. CASE ~Pending(x.r)
  <2>1. Kept(on_handshake(x.v, x.r), e, {}) BY <1>6, OnHandshakeKept
  <2> QED BY <1>3, <1>8, <2>1
<1> QED BY <1>7, <1>8

\* The end of a wait of the server's handshake.
LEMMA ServerReadyKept ==
  ASSUME NEW v, Kept(v, "server", {"handshake"}),
         v.s["server"].next_handshake_state_ # "HANDSHAKE" => Kept(v, "server", {})
  PROVE  Kept(ServerReady(v), "server", {})
<1> DEFINE e == "server"
           x == ServerHandshakeLoop(v)
           u == Set(x.v, "server", "user_callback", "none")
<1>1. e \in Ends /\ Good(v) BY DEF Ends, Kept
<1>2. CASE Closed(v, "server") \/ v.s["server"].next_handshake_state_ # "HANDSHAKE"
  <2>1. Kept(v, e, {}) BY <1>1, <1>2, ClosedKept DEF Closed
  <2> QED BY <2>1, <1>2 DEF ServerReady
<1>3. CASE ~(Closed(v, "server") \/ v.s["server"].next_handshake_state_ # "HANDSHAKE")
  <2>1. ServerReady(v) = IF Pending(x.r) THEN x.v ELSE on_handshake(u, x.r)
    BY <1>3 DEF ServerReady, ServerOnHandshakeIOComplete
  <2>2. Moves(v, x.v, e) /\ (Pending(x.r) => Waiting(x.v, e)) BY <1>1, <1>3, ServerLoop DEF Closed
  <2> HIDE DEF x
  <2>3. Kept(x.v, e, {"handshake"}) BY <1>1, <2>2, MovesKept
  <2>4. CASE Pending(x.r)
    <3>1. Kept(x.v, e, {}) BY <1>1, <2>2, <2>3, <2>4, HandshakeServed DEF Waiting
    <3> QED BY <2>1, <2>4, <3>1
  <2>5. CASE ~Pending(x.r)
    <3>1. Kept(u, e, {"handshake"} \ {"handshake"}) BY <1>1, <2>3, UserSet
    <3>2. {"handshake"} \ {"handshake"} = {} OBVIOUS
    <3>3. Kept(on_handshake(u, x.r), e, {}) BY <3>1, <3>2, OnHandshakeKept
    <3> QED BY <2>1, <2>5, <3>3
  <2> QED BY <2>4, <2>5
<1> QED BY <1>2, <1>3

-----------------------------------------------------------------------------
(* The actions. *)

\* A sequence over a larger set.
LEMMA SeqSub == ASSUME NEW S, NEW T, S \subseteq T, NEW r \in Seq(S) PROVE r \in Seq(T)
<1>1. Len(r) \in Nat /\ r \in [1 .. Len(r) -> S] BY LenProperties
<1>2. r = [i \in 1 .. Len(r) |-> r[i]] /\ \A i \in 1 .. Len(r) : r[i] \in T BY <1>1
<1> QED BY <1>1, <1>2, IsASeq

\* With nothing running the invariant is the same for both ends.
LEMMA KeptEither ==
  ASSUME NEW v
  PROVE  /\ Kept(v, "client", {}) => \A e \in Ends : Kept(v, e, {})
         /\ \A e \in Ends : Kept(v, e, {}) => Kept(v, "client", {})
<1>1. ASSUME NEW D PROVE D \union {} = D OBVIOUS
<1>2. Peer("client") = "server" /\ Peer("server") = "client" /\ Ends = {"client", "server"} BY DEF Peer, Ends
<1>3. Kept(v, "client", {}) <=> Kept(v, "server", {}) BY <1>1, <1>2 DEF Kept
<1> QED BY <1>2, <1>3

\* Operations pass from the socket to the queue and from the queue to the end.
LEMMA ShiftKept ==
  ASSUME NEW v, NEW e \in Ends, NEW ops, Kept(v, e, ops), NEW u \in World, u.in = v.in,
         u.s[Peer(e)] = v.s[Peer(e)], u.q[Peer(e)] = v.q[Peer(e)],
         Kin(v.s[e], u.s[e]), Like(v.s[e], u.s[e]),
         u.s[e].next_handshake_state_ = v.s[e].next_handshake_state_,
         NEW more, Due(v, e) \union ops \subseteq Due(u, e) \union more
  PROVE  Kept(u, e, more)
<1>1. \A d \in Ends : Kin(v.s[d], u.s[d]) BY PeerIs DEF Kin
<1>2. Good(u) BY <1>1 DEF Good, Kept, Kin, Ends
<1>3. Amounts(u) BY <1>1 DEF Kept, Amounts, Kin, Ends
<1>4. \A d \in Ends : Spare(d, u.s[d]) = Spare(d, v.s[d]) BY <1>1 DEF Spare, Kin
<1>5. \A d \in Ends : Budget(u, d) BY <1>4 DEF Kept, Budget
<1>6. Served(u.s[e], Due(u, e) \union more) BY ServedLike DEF Kept
<1>7. Served(u.s[Peer(e)], Due(u, Peer(e))) BY DEF Due, Kept
<1> QED BY <1>2, <1>3, <1>5, <1>6, <1>7 DEF Kept

\* The handler at the head of the queue is taken.
LEMMA LeftKept ==
  ASSUME NEW e \in Ends, Kept(w, e, {}), w.q[e] # << >>
  PROVE  LET op == Head(w.q[e])
         IN  /\ Kept(Left(e), e, {op})
             /\ op = "DoPeek" => Kept(Left(e), e, {})
             /\ op \in {"OnReadReady", "OnWriteReady"} =>
                  /\ Kept(Left(e), e, {"handshake"})
                  /\ Left(e).s[e].next_handshake_state_ # "HANDSHAKE" => Kept(Left(e), e, {})
<1> DEFINE op == Head(w.q[e])
           u == [w EXCEPT !.q = [w.q EXCEPT ![e] = Tail(w.q[e])]]
<1>1. w \in World /\ w.q \in [Ends -> Seq(Handlers)] /\ w.q[e] \in Seq(Handlers)
  <2>1. w \in World BY KeptHas
  <2> QED BY <2>1 DEF World
<1>2. Tail(w.q[e]) \in Seq(Handlers) BY <1>1, HeadTailProperties
<1>3. Left(e) = u BY <1>1 DEF World, Left
<1>4. u \in World /\ u.s = w.s /\ u.in = w.in BY <1>1, <1>2 DEF World
<1>5. u.q = [w.q EXCEPT ![e] = Tail(w.q[e])] BY <1>1 DEF World
<1>6. u.q[Peer(e)] = w.q[Peer(e)] /\ u.q[e] = Tail(w.q[e]) BY <1>1, <1>5, PeerIs
<1>7. Among(w.q[e]) = Among(u.q[e]) \union {op} BY <1>1, <1>6, AmongTail
<1> HIDE DEF u, op
<1>8. Due(w, e) \union {} \subseteq Due(u, e) \union {op} BY <1>4, <1>7 DEF Due
<1>9. Kin(w.s[e], u.s[e]) /\ Like(w.s[e], u.s[e]) BY <1>4 DEF Kin, Like
<1>10. Kept(u, e, {op}) BY <1>4, <1>6, <1>8, <1>9, ShiftKept
<1>11. ASSUME op \in {"DoPeek", "OnReadReady", "OnWriteReady"} PROVE Kept(u, e, {"handshake"})
  BY <1>10, <1>11 DEF Kept, Served
<1>12. "handshake" \notin Due(u, e)
  <2>1. u.s[e] \in Socket /\ u.q[e] \in Seq(Handlers) BY <1>4, WorldHas
  <2>2. u.s[e].reading \in Seq(ReadOps) /\ u.s[e].writing \in Seq(WriteOps) BY <2>1 DEF Socket
  <2>3. Among(u.q[e]) \subseteq Handlers BY <2>1, AmongIn
  <2>4. Among(u.s[e].reading) \subseteq ReadOps BY <2>2, AmongIn
  <2>5. Among(u.s[e].writing) \subseteq WriteOps BY <2>2, AmongIn
  <2> QED BY <2>3, <2>4, <2>5 DEF Due, Ops, Handlers, ReadOps, WriteOps
<1>13. op = "DoPeek" => Kept(u, e, {}) BY <1>10 DEF Kept, Served
<1>14. op \in {"OnReadReady", "OnWriteReady"} /\ u.s[e].next_handshake_state_ # "HANDSHAKE" => Kept(u, e, {})
  BY <1>10, <1>12 DEF Kept, Served
<1> QED BY <1>3, <1>10, <1>11, <1>13, <1>14 DEF op

\* Operations wait no more, and are queued.
LEMMA PolledKept ==
  ASSUME NEW e \in Ends, Kept(w, e, {}), Readable(e) \/ Writable(e)
  PROVE  Kept(w', e, {})
<1> DEFINE x == w.s[e]
<1>1. /\ w \in World /\ w.q \in [Ends -> Seq(Handlers)] /\ w.q[e] \in Seq(Handlers)
      /\ w.s \in [Ends -> Socket] /\ x \in Socket
  <2>1. w \in World BY KeptHas
  <2> QED BY <2>1 DEF World
<1>2. x.reading \in Seq(ReadOps) /\ x.writing \in Seq(WriteOps) BY <1>1 DEF Socket
<1>3. ReadOps \subseteq Handlers /\ WriteOps \subseteq Handlers BY DEF ReadOps, WriteOps, Handlers
<1>4. ASSUME NEW y \in Socket, NEW r \in Seq(Handlers),
             w' = [w EXCEPT !.q = [w.q EXCEPT ![e] = w.q[e] \o r], !.s = [w.s EXCEPT ![e] = y]],
             Kin(x, y), Like(x, y), y.next_handshake_state_ = x.next_handshake_state_,
             Ops(x) = Ops(y) \union Among(r)
      PROVE  Kept(w', e, {})
  <2> DEFINE p == w.q[e] \o r
             u == [w EXCEPT !.q = [w.q EXCEPT ![e] = p], !.s = [w.s EXCEPT ![e] = y]]
  <2>1. p \in Seq(Handlers) /\ Among(p) = Among(w.q[e]) \union Among(r) BY <1>1, ConcatProperties, AmongConcat
  <2>2. w' = u BY <1>4
  <2> HIDE DEF p
  <2>3. /\ u \in World /\ u.in = w.in
        /\ u.s = [w.s EXCEPT ![e] = y] /\ u.q = [w.q EXCEPT ![e] = p]
    BY <1>1, <2>1 DEF World
  <2>4. u.s[Peer(e)] = w.s[Peer(e)] /\ u.q[Peer(e)] = w.q[Peer(e)] /\ u.s[e] = y /\ u.q[e] = p
    BY <1>1, <2>3, PeerIs
  <2> HIDE DEF u
  <2>5. Due(w, e) \union {} \subseteq Due(u, e) \union {} BY <1>4, <2>1, <2>4 DEF Due
  <2>6. Kept(u, e, {}) BY <1>4, <2>3, <2>4, <2>5, ShiftKept
  <2> QED BY <2>2, <2>6
<1>5. Among(<< >>) = {} BY DEF Among
<1>6. CASE Readable(e)
  <2> DEFINE y == [x EXCEPT !.reading = << >>]
  <2>1. y \in Socket
    <3>1. << >> \in Seq(ReadOps) OBVIOUS
    <3> HIDE DEF x
    <3> QED BY <1>1, <3>1 DEF Socket
  <2>2. x.reading \in Seq(Handlers) BY <1>2, <1>3, SeqSub
  <2>3. w' = [w EXCEPT !.q = [w.q EXCEPT ![e] = w.q[e] \o x.reading], !.s = [w.s EXCEPT ![e] = y]]
    BY <1>1, <1>6 DEF Readable, World
  <2>4. /\ Kin(x, y) /\ Like(x, y) /\ y.next_handshake_state_ = x.next_handshake_state_
        /\ y.reading = << >> /\ y.writing = x.writing
    BY <1>1 DEF Socket, Kin, Like
  <2> HIDE DEF y, x
  <2>5. Ops(x) = Ops(y) \union Among(x.reading) BY <2>4, <1>5 DEF Ops
  <2> QED BY <1>4, <2>1, <2>2, <2>3, <2>4, <2>5
<1>7. CASE Writable(e)
  <2> DEFINE y == [x EXCEPT !.writing = << >>]
  <2>1. y \in Socket
    <3>1. << >> \in Seq(WriteOps) OBVIOUS
    <3> HIDE DEF x
    <3> QED BY <1>1, <3>1 DEF Socket
  <2>2. x.writing \in Seq(Handlers) BY <1>2, <1>3, SeqSub
  <2>3. w' = [w EXCEPT !.q = [w.q EXCEPT ![e] = w.q[e] \o x.writing], !.s = [w.s EXCEPT ![e] = y]]
    BY <1>1, <1>7 DEF Writable, World
  <2>4. /\ Kin(x, y) /\ Like(x, y) /\ y.next_handshake_state_ = x.next_handshake_state_
        /\ y.writing = << >> /\ y.reading = x.reading
    BY <1>1 DEF Socket, Kin, Like
  <2> HIDE DEF y, x
  <2>5. Ops(x) = Ops(y) \union Among(x.writing) BY <2>4, <1>5 DEF Ops
  <2> QED BY <1>4, <2>1, <2>2, <2>3, <2>4, <2>5
<1> QED BY <1>6, <1>7

\* The constructor of SSLSocket takes a session, of the cache alone.
LEMMA SSLSocketLib == ASSUME NEW v, Good(v) PROVE Lib(v, SSLSocket(v), "client")
<1> DEFINE o == early_enabled /\ v.cached > 0
           n == IF o THEN v.cached - 1 ELSE v.cached
           u == SSLSocket(v)
<1>1. v.cached \in 0 .. 2 BY DEF Good, World
<1>2. n \in 0 .. 2 /\ o \in BOOLEAN BY <1>1
<1>3. u = [v EXCEPT !.offered = o, !.cached = n] BY DEF SSLSocket, Good, World
<1> HIDE DEF o, n, u
<1>4. u \in World /\ u.s = v.s /\ u.in = v.in /\ u.q = v.q BY <1>2, <1>3 DEF Good, World
<1>5. Good(u) BY <1>4 DEF Good
<1>6. Data(u.in["server"]) <= Data(v.in["server"]) BY <1>4, DataOf
<1>7. Lib(v, u, "client") BY <1>4, <1>5, <1>6 DEF Lib, Moves, Like, Due, Budget
<1> QED BY <1>7 DEF u

\* What Set changes when a user notes something.
LEMMA MarkFields ==
  ASSUME NEW v \in World, NEW e \in Ends, NEW f \in {"started", "shut"}, NEW x \in BOOLEAN
  PROVE  LET t == Set(v, e, f, x)
         IN  /\ t.s[e].disconnected_ = v.s[e].disconnected_ /\ t.s[e].connected = v.s[e].connected
             /\ t.s[e].user_callback = v.s[e].user_callback /\ t.s[e][f] = x
<1> DEFINE y == [v.s[e] EXCEPT ![f] = x]  t == Set(v, e, f, x)
<1>1. v.s[e] \in Socket BY WorldHas
<1>2. y \in Socket BY <1>1, SocketSet
<1>3. Having(t, v, e, y) BY <1>2, SetIs
<1>4. /\ y.disconnected_ = v.s[e].disconnected_ /\ y.connected = v.s[e].connected
      /\ y.user_callback = v.s[e].user_callback /\ y[f] = x
  BY <1>1 DEF Socket
<1> HIDE DEF y, t
<1>5. /\ t.s[e].disconnected_ = v.s[e].disconnected_ /\ t.s[e].connected = v.s[e].connected
      /\ t.s[e].user_callback = v.s[e].user_callback /\ t.s[e][f] = x
  BY <1>3, <1>4 DEF Having
<1> QED BY <1>5 DEF t

\* The first step of an end.
LEMMA StartKept ==
  ASSUME NEW e \in Ends, Kept(w, e, {}), ~w.s[e].started, ~Closed(w, e)
  PROVE  LET t == Set(w, e, "started", TRUE)
         IN  /\ Kept(t, e, {}) /\ ~t.s[e].disconnected_ /\ t.s[e].started
             /\ t.s[e].user_callback = "none"
<1> DEFINE t == Set(w, e, "started", TRUE)
<1>1. w \in World /\ w.s[e].user_callback = "none" BY KeptHas DEF Served
<1>2. Kept(t, e, {}) BY MarkSet
<1>3. /\ t.s[e].disconnected_ = w.s[e].disconnected_ /\ t.s[e].user_callback = w.s[e].user_callback
      /\ t.s[e]["started"] = TRUE
  BY <1>1, MarkFields
<1> HIDE DEF t
<1>4. ~t.s[e].disconnected_ /\ t.s[e].started /\ t.s[e].user_callback = "none" BY <1>1, <1>3 DEF Closed
<1> QED BY <1>2, <1>4 DEF t

\* client_connects and server_accepts.
LEMMA StartsKept ==
  ASSUME Kept(w, "client", {}), Kept(w, "server", {})
  PROVE  /\ client_connects => Kept(w', "client", {})
         /\ server_accepts => Kept(w', "server", {})
<1>1. "client" \in Ends /\ "server" \in Ends BY DEF Ends
<1>2. ASSUME client_connects PROVE Kept(w', "client", {})
  <2> DEFINE a == Set(w, "client", "started", TRUE)
             b == SSLSocket(a)
  <2>1. Kept(a, "client", {}) /\ ~a.s["client"].disconnected_ /\ a.s["client"].started
        /\ a.s["client"].user_callback = "none"
    BY <1>1, <1>2, StartKept DEF client_connects
  <2>2. w' = Connect(b) BY <1>2 DEF client_connects
  <2> HIDE DEF a
  <2>3. Lib(a, b, "client") BY <2>1, SSLSocketLib DEF Kept
  <2>4. Kept(b, "client", {}) /\ Like(a.s["client"], b.s["client"]) BY <1>1, <2>1, <2>3, LibKept, LibLike
  <2> HIDE DEF b
  <2>5. ~b.s["client"].disconnected_ /\ b.s["client"].started /\ b.s["client"].user_callback = "none"
    BY <2>1, <2>4 DEF Like
  <2> QED BY <2>2, <2>4, <2>5, ConnectKept
<1>3. ASSUME server_accepts PROVE Kept(w', "server", {})
  <2> DEFINE a == Set(w, "server", "started", TRUE)
  <2>1. Kept(a, "server", {}) /\ ~a.s["server"].disconnected_ /\ a.s["server"].started
        /\ a.s["server"].user_callback = "none"
    BY <1>1, <1>3, StartKept DEF server_accepts
  <2>2. w' = Handshake(a) BY <1>3 DEF server_accepts
  <2> HIDE DEF a
  <2> QED BY <2>1, <2>2, HandshakeKept
<1> QED BY <1>2, <1>3

\* The handlers taken from the queue.
LEMMA RunsKept ==
  ASSUME NEW e \in Ends, Kept(w, e, {}),
         run_ready(e) \/ run_wait_read(e) \/ run_wait_write(e) \/ (e = "client" /\ run_peek)
  PROVE  Kept(w', e, {})
<1>1. CASE run_ready(e)
  <2>1. w.q[e] # << >> /\ Head(w.q[e]) \in {"OnReadReady", "OnWriteReady"} BY <1>1 DEF run_ready, Running
  <2>2. /\ Kept(Left(e), e, {"handshake"})
        /\ Left(e).s[e].next_handshake_state_ # "HANDSHAKE" => Kept(Left(e), e, {})
    BY <2>1, LeftKept
  <2>3. w' = IF e = "client" THEN RetryAllOperations(Left(e)) ELSE ServerReady(Left(e)) BY <1>1 DEF run_ready
  <2>4. CASE e = "client" BY <2>2, <2>3, <2>4, RetryAllOperationsKept
  <2>5. CASE e = "server" BY <2>2, <2>3, <2>5, ServerReadyKept
  <2> QED BY <2>4, <2>5 DEF Ends
<1>2. CASE run_wait_read(e)
  <2>1. w.q[e] # << >> /\ Head(w.q[e]) = "OnWaitRead" /\ w' = OnWaitRead(Left(e), e)
    BY <1>2 DEF run_wait_read, Running
  <2>2. Kept(Left(e), e, {"OnWaitRead"}) BY <2>1, LeftKept
  <2> QED BY <2>1, <2>2, OnWaitReadKept
<1>3. CASE run_wait_write(e)
  <2>1. w.q[e] # << >> /\ Head(w.q[e]) = "OnWaitWrite" /\ w' = OnWaitWrite(Left(e), e)
    BY <1>3 DEF run_wait_write, Running
  <2>2. Kept(Left(e), e, {"OnWaitWrite"}) BY <2>1, LeftKept
  <2> QED BY <2>1, <2>2, OnWaitWriteKept
<1>4. CASE e = "client" /\ run_peek
  <2>1. w.q[e] # << >> /\ Head(w.q[e]) = "DoPeek" /\ w' = DoPeek(Left(e)) BY <1>4 DEF run_peek, Running
  <2>2. Kept(Left(e), e, {}) BY <2>1, LeftKept
  <2> QED BY <1>4, <2>1, <2>2, DoPeekKept
<1> QED BY <1>1, <1>2, <1>3, <1>4

\* The users.
LEMMA UsersKept ==
  ASSUME NEW e \in Ends, Kept(w, e, {}),
         user_reads(e) \/ user_writes(e) \/ user_closes(e) \/ (e = "server" /\ user_shuts_down)
  PROVE  Kept(w', e, {})
<1>1. CASE user_reads(e) BY <1>1, ReadSet DEF user_reads, Usable, Closed
<1>2. CASE user_writes(e) BY <1>2, UserWritesKept DEF user_writes, Usable, Closed
<1>3. CASE user_closes(e) BY <1>3, DisconnectKept DEF user_closes
<1>4. CASE e = "server" /\ user_shuts_down
  <2> DEFINE t == Set(w, e, "shut", TRUE)
  <2>1. w \in World /\ w.s[e].connected /\ ~w.s[e].disconnected_ BY <1>4, KeptHas DEF user_shuts_down, Usable, Closed
  <2>2. Kept(t, e, {}) BY MarkSet
  <2>3. t.s[e].disconnected_ = w.s[e].disconnected_ /\ t.s[e].connected = w.s[e].connected BY <2>1, MarkFields
  <2>4. w' = Shutdown(t, e) BY <1>4 DEF user_shuts_down
  <2> HIDE DEF t
  <2> QED BY <2>1, <2>2, <2>3, <2>4, ShutdownKept
<1> QED BY <1>1, <1>2, <1>3, <1>4

\* Every step keeps the invariant.
LEMMA SocketsNext == SocketsInv /\ [Next]_vars => SocketsInv'
<1> SUFFICES ASSUME SocketsInv, [Next]_vars PROVE SocketsInv' OBVIOUS
<1>1. \A e \in Ends : Kept(w, e, {}) BY KeptEither DEF SocketsInv
<1>2. "client" \in Ends /\ "server" \in Ends BY DEF Ends
<1>3. ASSUME NEW e \in Ends, Kept(w', e, {}) PROVE Kept(w', "client", {}) BY <1>3, KeptEither
<1>4. CASE UNCHANGED vars BY <1>4, <1>1, <1>2 DEF vars, SocketsInv
<1>5. CASE user_shuts_down BY <1>5, <1>1, <1>2, <1>3, UsersKept DEF SocketsInv
<1>6. ASSUME NEW e \in Ends, Steps(e) PROVE Kept(w', "client", {})
  <2>1. CASE e = "client" /\ client_connects BY <2>1, <1>1, <1>2, StartsKept
  <2>2. CASE e = "server" /\ server_accepts BY <2>2, <1>1, <1>2, <1>3, StartsKept
  <2>3. CASE Readable(e) \/ Writable(e) BY <2>3, <1>1, <1>3, PolledKept
  <2>4. CASE run_ready(e) \/ run_wait_read(e) \/ run_wait_write(e) \/ (e = "client" /\ run_peek)
    BY <2>4, <1>1, <1>3, RunsKept
  <2>5. CASE user_reads(e) \/ user_writes(e) BY <2>5, <1>1, <1>3, UsersKept
  <2> QED BY <1>6, <2>1, <2>2, <2>3, <2>4, <2>5 DEF Steps
<1>7. ASSUME NEW e \in Ends, user_closes(e) PROVE Kept(w', "client", {}) BY <1>7, <1>1, <1>3, UsersKept
<1> QED BY <1>4, <1>5, <1>6, <1>7 DEF Next, SocketsInv

\* A new socket.
LEMMA NewSocketIs ==
  ASSUME NEW n \in Nat
  PROVE  LET x == NewSocket(n)
         IN  /\ x \in Socket /\ Served(x, {}) /\ ~x.disconnected_ /\ x.ssl = "before" /\ ~x.held
             /\ x.to_send = n /\ x.sent = 0 /\ x.got = 0
<1> DEFINE x == NewSocket(n)
<1>1. << >> \in Seq(ReadOps) /\ << >> \in Seq(WriteOps) OBVIOUS
<1>2. x \in Socket BY <1>1 DEF NewSocket, Socket
<1>3. Served(x, {}) BY DEF NewSocket, Served
<1>4. ~x.disconnected_ /\ x.ssl = "before" /\ ~x.held /\ x.to_send = n /\ x.sent = 0 /\ x.got = 0
  BY DEF NewSocket
<1> QED BY <1>2, <1>3, <1>4

\* The initial world: nothing kept, nothing under way.
LEMMA SocketsInit == Init => SocketsInv
<1> SUFFICES ASSUME Init PROVE SocketsInv OBVIOUS
<1> DEFINE N(e) == IF e = "client" THEN Requests ELSE Greetings
           S == [e \in Ends |-> NewSocket(N(e))]
<1>1. PICK n \in 0 .. 2 :
        w = [s |-> S, in |-> [e \in Ends |-> << >>], q |-> [e \in Ends |-> << >>], cached |-> n, offered |-> FALSE]
  BY DEF Init
<1>2. \A e \in Ends : N(e) \in Nat BY TlsAssumption
<1>3. ASSUME NEW e \in Ends
      PROVE  /\ S[e] \in Socket /\ Served(S[e], {}) /\ ~S[e].disconnected_ /\ S[e].ssl = "before" /\ ~S[e].held
             /\ S[e].to_send = N(e) /\ S[e].sent = 0 /\ S[e].got = 0
  <2>1. N(e) \in Nat /\ S[e] = NewSocket(N(e)) BY <1>2
  <2> HIDE DEF N, S
  <2> QED BY <2>1, NewSocketIs
<1>4. S \in [Ends -> Socket]
  <2>1. S = [e \in Ends |-> S[e]] OBVIOUS
  <2> HIDE DEF S
  <2> QED BY <2>1, <1>3
<1>5. N("client") = Requests /\ N("server") = Greetings OBVIOUS
<1> HIDE DEF S, N
<1>6. /\ w.s = S /\ w \in World /\ \A e \in Ends : w.in[e] = << >> /\ w.q[e] = << >>
  <2>1. << >> \in Seq(Records) /\ << >> \in Seq(Handlers) OBVIOUS
  <2>2. [e \in Ends |-> << >>] \in [Ends -> Seq(Records)] /\ [e \in Ends |-> << >>] \in [Ends -> Seq(Handlers)]
    BY <2>1
  <2>3. w \in World BY <1>1, <1>4, <2>2 DEF World
  <2> QED BY <1>1, <2>3
<1>7. Good(w) BY <1>3, <1>6 DEF Good, Ends
<1>8. Amounts(w)
  <2>1. Data(w.in["server"]) = 0 BY <1>6, DataEmpty DEF Ends
  <2> QED BY <1>3, <1>5, <1>6, <2>1, TlsAssumption DEF Amounts, Ends
<1>9. ASSUME NEW d \in Ends PROVE Budget(w, d)
  <2>1. Len(w.in[Peer(d)]) = 0 BY <1>6, PeerIs
  <2>2. Spare(d, w.s[d]) \in 0 .. 3 BY <1>3, <1>6, SpareType
  <2> QED BY <2>1, <2>2, TlsAssumption DEF Budget
<1>10. ASSUME NEW e \in Ends, NEW D PROVE Served(w.s[e], D)
  BY <1>3, <1>6 DEF Served
<1> QED BY <1>7, <1>8, <1>9, <1>10, <1>1, PeerIs DEF SocketsInv, Kept, Ends

\* What the invariant says of the sockets.
LEMMA SocketsGive == SocketsInv => SocketsSound
<1> SUFFICES ASSUME SocketsInv PROVE SocketsSound OBVIOUS
<1>1. \A e \in Ends : Kept(w, e, {}) BY KeptEither DEF SocketsInv
<1>2. ASSUME NEW e \in Ends
      PROVE  /\ w.s[e] \in Socket /\ Served(w.s[e], Due(w, e))
             /\ Among(w.in[e]) \subseteq Records /\ Among(w.q[e]) \subseteq Handlers
             /\ Armed(e) \subseteq ReadOps \union WriteOps
             /\ Due(w, e) = Armed(e) \union Among(w.q[e])
  <2>1. Kept(w, e, {}) /\ w \in World BY <1>1, KeptHas
  <2>2. w.s[e] \in Socket /\ w.in[e] \in Seq(Records) /\ w.q[e] \in Seq(Handlers) BY <2>1, WorldHas
  <2>3. w.s[e].reading \in Seq(ReadOps) /\ w.s[e].writing \in Seq(WriteOps) BY <2>2 DEF Socket
  <2>4. Among(w.in[e]) \subseteq Records BY <2>2, AmongIn
  <2>5. Among(w.q[e]) \subseteq Handlers BY <2>2, AmongIn
  <2>6. Among(w.s[e].reading) \subseteq ReadOps BY <2>3, AmongIn
  <2>7. Among(w.s[e].writing) \subseteq WriteOps BY <2>3, AmongIn
  <2>8. Due(w, e) \union {} = Due(w, e) OBVIOUS
  <2>9. Served(w.s[e], Due(w, e)) BY <2>1, <2>8 DEF Kept
  <2> QED BY <2>2, <2>4, <2>5, <2>6, <2>7, <2>9 DEF Armed, Due, Ops
<1>3. ASSUME NEW e \in Ends PROVE Len(w.in[e]) <= Capacity + 3
  <2>1. w \in World /\ Budget(w, Peer(e)) /\ Peer(e) \in Ends /\ Peer(Peer(e)) = e BY <1>1, PeerIs, KeptHas DEF Kept
  <2>2. Spare(Peer(e), w.s[Peer(e)]) \in 0 .. 3 BY <2>1, WorldHas, SpareType
  <2>3. Len(w.in[e]) \in Nat BY <2>1, WorldHas, LenProperties
  <2> QED BY <2>1, <2>2, <2>3, TlsAssumption DEF Budget
<1>4. ASSUME NEW e \in Ends PROVE w.s[e].to_send \in 0 .. Requests + Greetings
  <2>1. Amounts(w) /\ Data(w.in["server"]) \in Nat BY <1>1, DataOf DEF Kept
  <2>2. \A d \in Ends : w.s[d].to_send \in Nat /\ w.s[d].sent \in Nat /\ w.s[d].got \in Nat BY <1>2 DEF Socket
  <2>3. w.s["client"].to_send <= Requests + Greetings /\ w.s["server"].to_send <= Requests + Greetings
    BY <2>1, <2>2, TlsAssumption DEF Amounts, Ends
  <2> QED BY <2>2, <2>3, TlsAssumption DEF Ends
<1>5. TypeOK
  <2>1. w.cached \in 0 .. 2
    <3>1. "client" \in Ends /\ w \in World BY <1>1, KeptHas DEF Ends
    <3> QED BY <3>1, WorldHas
  <2>2. \A e \in Ends : w.s[e].next_handshake_state_ \in {"NONE", "HANDSHAKE"}
                        /\ w.s[e].user_callback \in {"none", "connect", "confirm"}
    BY <1>2 DEF Socket
  <2> QED BY <1>2, <1>3, <1>4, <2>1, <2>2 DEF TypeOK
<1>6. CallbacksWillRun
  <2>1. ASSUME NEW e \in Ends PROVE "handshake" \notin Due(w, e)
    BY <1>2 DEF Handlers, ReadOps, WriteOps
  <2> QED BY <1>2, <2>1 DEF CallbacksWillRun, Served
<1> QED BY <1>5, <1>6 DEF SocketsSound

\* Every callback that a TLS socket keeps (SSLSocket's and SSLServerSocket's
\* connect, read, write and shutdown callbacks) has an operation armed or
\* queued that will run it, or a user about to wait again, and a closed socket
\* keeps none; the records under way stay within the room that the ends look
\* for before they write, and the three that a handshake sends without looking.
THEOREM SocketsCorrect == Spec => []SocketsSound
<1>1. Init => SocketsInv BY SocketsInit
<1>2. SocketsInv /\ [Next]_vars => SocketsInv' BY SocketsNext
<1>3. SocketsInv => SocketsSound BY SocketsGive
<1> QED BY <1>1, <1>2, <1>3, PTL DEF Spec
=============================================================================
