--------------------------- MODULE ServicesProofs ---------------------------
(***************************************************************************)
(* Theorems about Programs, Settings, Resolver and HttpParser, for every   *)
(* bound and every choice of programs, places, users, back ends and heads. *)
(*                                                                         *)
(* InstanceThere needs to know where main is while the thread that waits   *)
(* for signals runs.  SettingsKept is about what a program has read, so it *)
(* says nothing between two programs: StoreTells says what reading the     *)
(* place would give, SaveGoesOn what a save has still to write.  Both rest *)
(* on what is written being read back as it was.                           *)
(*                                                                         *)
(* AnswersRight needs to know that one answer at most is still to come and *)
(* from where, that a timer which is due while a lookup is at work is that *)
(* lookup's, that the requests in reqs_ are the live ones, IPv4 first, and *)
(* that a lookup which succeeded leaves nothing for the next: ResolverInv. *)
(*                                                                         *)
(* HeadsRight needs to know what the loop over the header lines has read   *)
(* after each of its turns, which is an induction on them (LoopReads), and *)
(* what is known between the callbacks of the framer: ParserInv.           *)
(***************************************************************************)
EXTENDS Programs, Settings, Resolver, HttpParser, SequenceTheorems, FiniteSetTheorems,
        WellFoundedInduction, TLAPS

-----------------------------------------------------------------------------
(* The two mains. *)

\* pg is a record of the fields it starts with; the ones the argument is about
\* have these values.
ProgramFields ==
  {"program", "pc", "endpoints", "listening", "object", "conns", "accepted", "tasks", "run_guard", "registered",
   "waiting", "kept", "sent", "thread", "signal_guard", "posted", "handled", "dangling"}
ProgramTypeOK ==
  /\ pg = [f \in ProgramFields |-> pg[f]]
  /\ pg.program \in {"server", "client"}
  /\ pg.pc \in {"configure", "listen", "signals", "setuid", "spawn", "run", "join", "ended"}
  /\ pg.thread \in {"none", "running", "handling", "done"}
  /\ pg.object \in BOOLEAN /\ pg.dangling \in BOOLEAN /\ pg.kept \subseteq Signals

\* The instance lives from the end of the configuration to the end of main,
\* and the thread only inside that time.
ObjectLives == pg.pc \notin {"configure", "ended"} => pg.object
ThreadInside == pg.thread \in {"running", "handling"} => pg.pc \notin {"configure", "ended"}

\* What is posted is one of the four requests the loop knows.
Requests == {"Cancel", "Shutdown", "stop", "shutdown"}
TasksKnown == pg.tasks \in Seq(Requests)

ProgramInv == ProgramTypeOK /\ TasksKnown /\ ObjectLives /\ ThreadInside /\ InstanceThere

LEMMA ProgramStart == ProgramInit => ProgramInv
<1> SUFFICES ASSUME NEW program \in {"server", "client"}, pg = InitialProgram(program) PROVE ProgramInv
  BY ProgramsAssumption DEF ProgramInit
<1>1. pg = [f \in ProgramFields |-> pg[f]]
  BY DEF InitialProgram, ProgramFields
<1>2. TasksKnown
  <2>1. pg.tasks = << >> BY DEF InitialProgram
  <2> QED BY <2>1 DEF TasksKnown
<1> QED
  BY <1>1, <1>2 DEF InitialProgram, ProgramInv, ProgramTypeOK, ObjectLives, ThreadInside, InstanceThere

\* One step: everything but what is posted.
ProgramCore == ProgramTypeOK /\ ObjectLives /\ ThreadInside /\ InstanceThere

\* What a step does to the queue of posted requests.
Posts ==
  \/ pg'.tasks \in {pg.tasks, << >>}
  \/ \E task \in Requests : pg'.tasks = Append(pg.tasks, task)
  \/ pg.tasks # << >> /\ pg'.tasks = Tail(pg.tasks)
  \/ pg.tasks # << >> /\ \E task \in Requests : pg'.tasks = Append(Tail(pg.tasks), task)

LEMMA TasksStep == TasksKnown /\ Posts => TasksKnown'
<1> DEFINE old == pg.tasks  new == pg'.tasks
<1> SUFFICES ASSUME old \in Seq(Requests), Posts PROVE new \in Seq(Requests)
  BY DEF TasksKnown
<1>1. old \in Seq(Requests) OBVIOUS
<1>2. \/ new \in {old, << >>}
      \/ \E task \in Requests : new = Append(old, task)
      \/ old # << >> /\ new = Tail(old)
      \/ old # << >> /\ \E task \in Requests : new = Append(Tail(old), task)
  BY DEF Posts
<1> HIDE DEF old, new
<1>3. CASE new \in {old, << >>}
  <2>1. << >> \in Seq(Requests) OBVIOUS
  <2> QED BY <2>1, <1>1, <1>3, Zenon
<1>4. CASE \E task \in Requests : new = Append(old, task) BY <1>1, <1>4
<1>5. CASE old # << >> /\ new = Tail(old) BY <1>1, <1>5
<1>6. CASE old # << >> /\ \E task \in Requests : new = Append(Tail(old), task)
  <2>1. Tail(old) \in Seq(Requests) BY <1>1, <1>6
  <2> QED BY <2>1, <1>6
<1> QED BY <1>2, <1>3, <1>4, <1>5, <1>6

LEMMA ProgramStep == ProgramInv /\ [ProgramNext]_pg => ProgramInv'
<1> SUFFICES ASSUME ProgramInv, [ProgramNext]_pg PROVE ProgramCore' /\ Posts
  BY TasksStep DEF ProgramInv, ProgramCore
<1>0. ProgramCore BY DEF ProgramInv, ProgramCore
<1> USE <1>0, ProgramsAssumption
    DEF ProgramCore, ProgramTypeOK, ObjectLives, ThreadInside, InstanceThere, Signals, ProgramFields, Posts
<1>1. CASE Configure
  <2>1. CASE pg' = Ended(pg) BY <2>1 DEF Ended
  <2>2. CASE \E n \in 0 .. MaxEndpoints :
          pg' = [pg EXCEPT !.pc = "listen", !.endpoints = n, !.object = TRUE, !.run_guard = TRUE]
    BY <1>1, <2>2 DEF Configure
  <2>3. CASE \E n \in 0 .. MaxEndpoints :
          pg' = [pg EXCEPT !.pc = "signals", !.endpoints = n, !.object = TRUE, !.signal_guard = TRUE]
    BY <1>1, <2>3 DEF Configure
  <2> QED BY <1>1, <2>1, <2>2, <2>3 DEF Configure
<1>2. CASE Listen BY <1>2 DEF Listen, Ended
<1>3. CASE RegisterSignals BY <1>3 DEF RegisterSignals, AsyncWait
<1>4. CASE ChangeUser BY <1>4 DEF ChangeUser, Ended
<1>5. CASE Spawn BY <1>5 DEF Spawn
<1>6. CASE Signal
  <2>1. PICK s \in Signals :
          pg' = IF pg.registered THEN [pg EXCEPT !.kept = @ \cup {s}, !.sent = @ + 1] ELSE Ended(pg)
    BY <1>6 DEF Signal
  <2> QED BY <2>1, <1>6 DEF Signal, Ended
<1>7. CASE Accept BY <1>7 DEF Accept
<1>8. CASE Disconnect BY <1>8 DEF Disconnect
<1>9. CASE OnSignal
  <2> DEFINE After(s) == [pg EXCEPT !.waiting = FALSE, !.kept = @ \ {s}]
  <2>1. PICK s \in pg.kept :
          /\ Dispatches(pg)
          /\ pg' = IF s = "SIGUSR1" THEN AsyncWait(After(s))
                   ELSE IF pg.program = "server" THEN Finish(Request(After(s), s))
                   ELSE [Request(After(s), s) EXCEPT !.thread = "handling"]
    BY <1>9 DEF OnSignal
  <2>2. pg.object BY <2>1 DEF Dispatches
  <2>3. CASE s = "SIGUSR1"
    <3>1. pg' = AsyncWait(After(s)) BY <2>1, <2>3
    <3> QED BY <3>1 DEF AsyncWait
  <2> DEFINE task == IF pg.program = "server" THEN (IF s = "SIGQUIT" THEN "shutdown" ELSE "stop")
                     ELSE (IF s = "SIGQUIT" THEN "Shutdown" ELSE "Cancel")
  <2>4. CASE s # "SIGUSR1" /\ pg.program = "server"
    <3>1. pg' = Finish(Request(After(s), s)) BY <2>1, <2>4
    <3>2. ProgramCore' BY <3>1, <2>2, <2>4 DEF Finish, Request
    <3>3. pg'.tasks = Append(pg.tasks, task) BY <3>1, <2>4 DEF Finish, Request
    <3> QED BY <3>2, <3>3 DEF Requests
  <2>5. CASE s # "SIGUSR1" /\ pg.program = "client"
    <3>1. pg' = [Request(After(s), s) EXCEPT !.thread = "handling"] BY <2>1, <2>5
    <3>2. pg.thread = "running" BY <2>1, <2>5 DEF Dispatches
    <3>3. ProgramCore' BY <3>1, <3>2, <2>2, <2>5 DEF Request
    <3>4. pg'.tasks = Append(pg.tasks, task) BY <3>1, <2>5 DEF Request
    <3> QED BY <3>3, <3>4 DEF Requests
  <2> QED BY <2>3, <2>4, <2>5
<1>10. CASE OnSignalReturns BY <1>10 DEF OnSignalReturns, Finish
<1>11. CASE Task
  <2> DEFINE p == [pg EXCEPT !.tasks = Tail(@)]
  <2>1. pg.tasks # << >> /\ Head(pg.tasks) \in Requests
    <3>1. pg.tasks \in Seq(Requests) /\ pg.tasks # << >> BY <1>11 DEF Task, ProgramInv, TasksKnown
    <3> DEFINE old == pg.tasks
    <3> HIDE DEF old
    <3>2. old \in Seq(Requests) /\ old # << >> => Head(old) \in Requests OBVIOUS
    <3> QED BY <3>1, <3>2 DEF old
  <2>2. \/ pg' = [p EXCEPT !.run_guard = FALSE, !.tasks = Append(@, "stop")]
        \/ pg' = [p EXCEPT !.run_guard = FALSE, !.tasks = Append(@, "shutdown")]
        \/ pg' = [p EXCEPT !.listening = 0, !.conns = 0]
        \/ pg' = [p EXCEPT !.listening = 0]
    BY <1>11, <2>1 DEF Task, Requests
  <2>3. \/ pg'.tasks = Tail(pg.tasks)
        \/ \E task \in Requests : pg'.tasks = Append(Tail(pg.tasks), task)
    BY <2>2 DEF Requests
  <2> QED BY <2>1, <2>2, <2>3
<1>12. CASE LoopReturns BY <1>12 DEF LoopReturns, Ended
<1>13. CASE Posted BY <1>13 DEF Posted
<1>14. CASE ThreadEnds BY <1>14 DEF ThreadEnds
<1>15. CASE Join BY <1>15 DEF Join, Ended
<1>16. CASE UNCHANGED pg BY <1>16
<1> QED
  BY <1>1, <1>2, <1>3, <1>4, <1>5, <1>6, <1>7, <1>8, <1>9, <1>10, <1>11, <1>12, <1>13, <1>14, <1>15, <1>16
  DEF ProgramNext, Loop

\* The thread that handles the signals of the client never uses an instance
\* that main has destroyed, whatever signals come and whenever run returns.
THEOREM InstanceCorrect == ProgramSpec => []InstanceThere
<1>1. ProgramInv => InstanceThere BY DEF ProgramInv
<1> QED BY <1>1, ProgramStart, ProgramStep, PTL DEF ProgramSpec

-----------------------------------------------------------------------------
(* The settings: what is written is read back. *)

Backends == {"local", "windows", "apple"}
Units == {"bytes", "k", "m"}

\* Flags the program can hold, fields of the window, and a store whose values
\* have the type their tag says.
Over(keys, f) == f = [k \in keys |-> f[k]]
FlagsOK(f) ==
  /\ Over(Flags, f)
  /\ IsPort(f["server_port"]) /\ f["method"] \in Methods /\ f["limit_rate"] \in 0 .. RateMax
  /\ f["connect_timeout"] \in Int /\ f["tcp_keep_alive_interval"] \in Int /\ f["tcp_keep_alive"] \in BOOLEAN
FormOK(f) ==
  /\ Over(Fields, f)
  /\ f["limit_rate"] \in Int \X Units /\ f["connect_timeout"] \in Int
StoreOK(s) == \A k \in DOMAIN s :
  /\ k \in {"connect_timeout", "tcp_keep_alive_interval", "timeout"} /\ s[k][1] = "number" => s[k][2] \in Int
  /\ k = "tcp_keep_alive" /\ s[k][1] = "bool" => s[k][2] \in BOOLEAN
  /\ k = "limit_rate" /\ s[k][1] = "string" => s[k][2] \in Int \X Units

LEMMA FlagsAre ==
  Flags = {"server", "server_port", "method", "username", "password", "doh_url", "dot_host",
           "connect_timeout", "limit_rate", "tcp_keep_alive", "tcp_keep_alive_interval"}
<1>1. DOMAIN Keys = 1 .. 12 BY DEF Keys
<1>2. \A i \in 1 .. 12 : i \in {1, 2, 3, 4, 5, 6, 7, 8, 9, 10, 11, 12} OBVIOUS
<1>3. {Deprecated[k] : k \in DOMAIN Deprecated} = {"timeout"} BY DEF Deprecated
<1>4. {Keys[i] : i \in DOMAIN Keys} =
        {"server", "server_port", "method", "username", "password", "doh_url", "dot_host", "timeout",
         "connect_timeout", "limit_rate", "tcp_keep_alive", "tcp_keep_alive_interval"}
  BY <1>1, <1>2 DEF Keys
<1> HIDE DEF Keys, Deprecated
<1> QED BY <1>3, <1>4 DEF Flags

\* The text of a rate is read as the rate it was made of.
LEMMA RateRoundTrip ==
  ASSUME NEW rate \in 0 .. RateMax
  PROVE  RateText(rate) \in Int \X Units /\ ngx_parse_size(RateText(rate)) = rate
<1>1. RateMax \in Nat BY SettingsAssumption
<1>2. CASE rate % MiB = 0
  <2>1. RateText(rate) = <<rate \div MiB, "m">> BY <1>2 DEF RateText
  <2>2. /\ rate \div MiB >= 0 /\ rate \div MiB <= RateMax \div MiB /\ (rate \div MiB) * MiB = rate
        /\ rate \div MiB \in Int
    BY <1>1, <1>2 DEF MiB
  <2>3. ngx_parse_size(<<rate \div MiB, "m">>) =
          IF rate \div MiB < 0 \/ rate \div MiB > RateMax \div MiB THEN -1 ELSE (rate \div MiB) * MiB
    BY DEF ngx_parse_size
  <2> QED BY <1>1, <2>1, <2>2, <2>3 DEF Units, MiB
<1>3. CASE rate % MiB # 0 /\ rate % KiB = 0
  <2>1. RateText(rate) = <<rate \div KiB, "k">> BY <1>3 DEF RateText
  <2>2. /\ rate \div KiB >= 0 /\ rate \div KiB <= RateMax \div KiB /\ (rate \div KiB) * KiB = rate
        /\ rate \div KiB \in Int
    BY <1>1, <1>3 DEF KiB
  <2>3. ngx_parse_size(<<rate \div KiB, "k">>) =
          IF rate \div KiB < 0 \/ rate \div KiB > RateMax \div KiB THEN -1 ELSE (rate \div KiB) * KiB
    BY DEF ngx_parse_size
  <2> QED BY <1>1, <2>1, <2>2, <2>3 DEF Units, KiB
<1>4. CASE rate % MiB # 0 /\ rate % KiB # 0
  <2>1. RateText(rate) = <<rate, "bytes">> BY <1>4 DEF RateText
  <2>2. ngx_parse_size(<<rate, "bytes">>) = IF rate < 0 \/ rate > RateMax \div 1 THEN -1 ELSE rate * 1
    BY DEF ngx_parse_size
  <2> QED BY <1>1, <2>1, <2>2 DEF Units
<1> QED BY <1>2, <1>3, <1>4

\* A text that is accepted is a rate that fits.
LEMMA ParsedFits ==
  ASSUME NEW text \in Int \X Units, ngx_parse_size(text) >= 0
  PROVE  ngx_parse_size(text) \in 0 .. RateMax
<1>1. PICK n \in Int, unit \in Units : text = <<n, unit>> OBVIOUS
<1> DEFINE scale == IF unit = "m" THEN MiB ELSE IF unit = "k" THEN KiB ELSE 1
<1>2. scale \in {1, KiB, MiB} BY DEF Units
<1>3. ngx_parse_size(text) = IF n < 0 \/ n > RateMax \div scale THEN -1 ELSE n * scale
  BY <1>1 DEF ngx_parse_size
<1> HIDE DEF scale
<1>4. RateMax \in Nat BY SettingsAssumption
<1>5. n >= 0 /\ n <= RateMax \div scale /\ ngx_parse_size(text) = n * scale BY <1>2, <1>3, <1>4 DEF KiB, MiB
<1>6. n * scale \in 0 .. RateMax
  <2>1. CASE scale = 1 BY <1>4, <1>5, <2>1
  <2>2. CASE scale = KiB BY <1>4, <1>5, <2>2 DEF KiB
  <2>3. CASE scale = MiB BY <1>4, <1>5, <2>3 DEF MiB
  <2> QED BY <1>2, <2>1, <2>2, <2>3
<1> QED BY <1>5, <1>6

\* Whatever is written is read back, by every kind of place.
LEMMA WriteRead ==
  ASSUME NEW backend \in Backends, NEW f, FlagsOK(f), NEW k \in Flags
  PROVE  LET stored == Write(backend, KindOf[k], f[k]) IN
         Reads(backend, KindOf[k], stored) /\ Read(backend, KindOf[k], stored) = f[k]
<1> DEFINE kind == KindOf[k]  stored == Write(backend, kind, f[k])
<1> USE FlagsAre DEF Backends
<1>1. kind \in {"string", "port", "method", "int", "rate", "bool"} BY DEF KindOf
<1>2. /\ kind = "port" => IsPort(f[k])
      /\ kind = "method" => f[k] \in Methods
      /\ kind = "rate" => f[k] \in 0 .. RateMax
      /\ kind = "bool" => f[k] \in BOOLEAN
  BY DEF KindOf, FlagsOK
<1> HIDE DEF kind
<1>3. stored[1] = TypeOf(backend, kind) BY DEF Write
<1>4. CASE kind = "rate"
  <2>1. stored[2] = RateText(f[k]) BY <1>4 DEF Write
  <2>2. ngx_parse_size(stored[2]) = f[k] BY <1>2, <1>4, <2>1, RateRoundTrip
  <2>3. f[k] >= 0 BY <1>2, <1>4, SettingsAssumption
  <2> QED BY <1>3, <1>4, <2>2, <2>3 DEF Reads, Read, kind
<1>5. CASE kind = "bool" /\ backend = "windows"
  <2>1. stored[2] = IF f[k] THEN 1 ELSE 0 BY <1>5 DEF Write
  <2>2. (stored[2] # 0) = f[k] BY <1>2, <1>5, <2>1
  <2> QED BY <1>3, <1>5, <2>2 DEF Reads, Read, kind
<1>6. CASE kind # "rate" /\ ~(kind = "bool" /\ backend = "windows")
  <2>1. stored[2] = f[k] BY <1>6 DEF Write
  <2>2. Read(backend, kind, stored) = f[k] BY <1>6, <2>1 DEF Read
  <2>3. Reads(backend, kind, stored) BY <1>1, <1>2, <1>3, <1>6, <2>1 DEF Reads
  <2> QED BY <2>2, <2>3 DEF kind
<1> QED BY <1>4, <1>5, <1>6

\* What is written keeps the types of a store.
LEMMA WriteTyped ==
  ASSUME NEW backend \in Backends, NEW f, FlagsOK(f), NEW k \in Flags
  PROVE  LET stored == Write(backend, KindOf[k], f[k]) IN
         /\ k \in {"connect_timeout", "tcp_keep_alive_interval"} => stored[2] \in Int
         /\ k = "tcp_keep_alive" /\ stored[1] = "bool" => stored[2] \in BOOLEAN
         /\ k = "limit_rate" => stored[2] \in Int \X Units
<1> USE FlagsAre DEF Backends
<1>1. CASE k \in {"connect_timeout", "tcp_keep_alive_interval"} BY <1>1 DEF Write, KindOf, FlagsOK
<1>2. CASE k = "tcp_keep_alive" BY <1>2 DEF Write, KindOf, FlagsOK, TypeOf
<1>3. CASE k = "limit_rate"
  <2>1. Write(backend, KindOf[k], f[k])[2] = RateText(f[k]) BY <1>3 DEF Write, KindOf
  <2>2. f[k] \in 0 .. RateMax BY <1>3 DEF FlagsOK
  <2> QED BY <1>3, <2>1, <2>2, RateRoundTrip
<1> QED BY <1>1, <1>2, <1>3

\* Reading a store into flags gives flags.
LEMMA ReadFlagsOK ==
  ASSUME NEW backend \in Backends, NEW store, StoreOK(store), NEW f, FlagsOK(f)
  PROVE  FlagsOK(ReadFlags(backend, store, f))
<1> DEFINE r == ReadFlags(backend, store, f)
<1> USE FlagsAre DEF Backends
<1>1. \A k \in Flags : r[k] = IF Loads(backend, store, k) THEN Read(backend, KindOf[k], store[k])
                              ELSE IF LoadsDeprecated(store, k) THEN store[Deprecated[k]][2] ELSE f[k]
  BY DEF ReadFlags
<1>2. Over(Flags, r) BY DEF ReadFlags, Over
<1> HIDE DEF r
<1>3. \A k \in Flags \ {"connect_timeout"} : ~LoadsDeprecated(store, k) BY DEF LoadsDeprecated, Deprecated
<1>4. IsPort(r["server_port"])
  BY <1>1, <1>3 DEF Loads, Reads, Read, KindOf, FlagsOK
<1>5. r["method"] \in Methods
  BY <1>1, <1>3 DEF Loads, Reads, Read, KindOf, FlagsOK
<1>6. r["limit_rate"] \in 0 .. RateMax
  <2> DEFINE k == "limit_rate"
  <2>1. CASE ~Loads(backend, store, k) BY <1>1, <1>3, <2>1 DEF FlagsOK
  <2>2. CASE Loads(backend, store, k)
    <3>1. KindOf[k] = "rate" BY DEF KindOf
    <3>2. k \in DOMAIN store /\ store[k][1] = "string" /\ ngx_parse_size(store[k][2]) >= 0
      BY <2>2, <3>1 DEF Loads, Reads, TypeOf
    <3>3. store[k][2] \in Int \X Units BY <3>2 DEF StoreOK
    <3>4. r[k] = ngx_parse_size(store[k][2]) BY <1>1, <2>2, <3>1 DEF Read
    <3> QED BY <3>2, <3>3, <3>4, ParsedFits
  <2> QED BY <2>1, <2>2
<1>7. r["connect_timeout"] \in Int
  BY <1>1 DEF Loads, LoadsDeprecated, Deprecated, Reads, Read, KindOf, TypeOf, FlagsOK, StoreOK
<1>8. r["tcp_keep_alive_interval"] \in Int
  BY <1>1, <1>3 DEF Loads, Reads, Read, KindOf, TypeOf, FlagsOK, StoreOK
<1>9. r["tcp_keep_alive"] \in BOOLEAN
  <2> DEFINE k == "tcp_keep_alive"
  <2>1. KindOf[k] = "bool" BY DEF KindOf
  <2>2. CASE ~Loads(backend, store, k) BY <1>1, <1>3, <2>2 DEF FlagsOK
  <2>3. CASE Loads(backend, store, k) /\ backend = "windows"
    BY <1>1, <2>1, <2>3 DEF Read
  <2>4. CASE Loads(backend, store, k) /\ backend # "windows"
    <3>1. k \in DOMAIN store /\ store[k][1] = "bool" BY <2>1, <2>4 DEF Loads, Reads, TypeOf
    <3>2. r[k] = store[k][2] BY <1>1, <2>1, <2>4 DEF Read
    <3> QED BY <3>1, <3>2 DEF StoreOK
  <2> QED BY <2>2, <2>3, <2>4
<1> QED BY <1>2, <1>4, <1>5, <1>6, <1>7, <1>8, <1>9 DEF FlagsOK, r

LEMMA CorrectedOK ==
  ASSUME NEW f, FlagsOK(f)
  PROVE  FlagsOK(Corrected(f)) /\ Corrected(f)["connect_timeout"] >= 0
<1>1. Over(Flags, Corrected(f)) BY FlagsAre DEF FlagsOK, Corrected, Over
<1>2. /\ Corrected(f)["server_port"] = f["server_port"] /\ Corrected(f)["method"] = f["method"]
      /\ Corrected(f)["limit_rate"] = f["limit_rate"] /\ Corrected(f)["tcp_keep_alive"] = f["tcp_keep_alive"]
      /\ Corrected(f)["connect_timeout"] \in Nat /\ Corrected(f)["tcp_keep_alive_interval"] \in Nat
  BY FlagsAre DEF FlagsOK, Corrected, Over
<1> QED BY <1>1, <1>2 DEF FlagsOK

LEMMA DefaultsOK == FlagsOK(Defaults)
<1>1. Over(Flags, Defaults) BY FlagsAre DEF Defaults, Over
<1>2. IsPort(Defaults["server_port"]) BY DEF Defaults, IsPort, MaxPort
<1>3. /\ Defaults["method"] \in Methods /\ Defaults["limit_rate"] \in 0 .. RateMax
      /\ Defaults["connect_timeout"] \in Int /\ Defaults["tcp_keep_alive_interval"] \in Int
  BY SettingsAssumption DEF Defaults, Methods
<1>4. Defaults["tcp_keep_alive"] \in BOOLEAN BY DEF Defaults
<1> QED BY <1>1, <1>2, <1>3, <1>4 DEF FlagsOK

\* A store into which the flags were written gives them back.
LEMMA ReadWritten ==
  ASSUME NEW backend \in Backends, NEW store, NEW f, FlagsOK(f), NEW g,
         \A k \in Flags : k \in DOMAIN store /\ store[k] = Write(backend, KindOf[k], f[k])
  PROVE  ReadFlags(backend, store, g) = f
<1>1. \A k \in Flags : ReadFlags(backend, store, g)[k] = f[k]
  BY WriteRead DEF ReadFlags, Loads
<1> QED BY <1>1 DEF ReadFlags, FlagsOK, Over

-----------------------------------------------------------------------------
(* The settings: the inductive invariant. *)

SettingsFields ==
  {"program", "backend", "enforce", "certificate", "phase", "store", "readable", "root", "todo", "flags", "form",
   "started", "fresh", "old", "new", "saved", "edits", "saves", "runs"}

\* What a program that starts with its defaults reads.
Seen(backend, readable, store) ==
  IF backend # "local" \/ readable THEN Corrected(ReadFlags(backend, store, Defaults)) ELSE Defaults

\* The record and what its fields hold.
SettingsTypeOK ==
  /\ Over(SettingsFields, cf)
  /\ cf.program \in {"gui", "cli", "server"} /\ cf.backend \in Backends
  /\ cf.phase \in {"off", "running", "saving", "ended"} /\ cf.saved \in {"none", "no", "partly", "yes"}
  /\ cf.fresh \in BOOLEAN /\ cf.started \in BOOLEAN
  /\ FlagsOK(cf.flags) /\ FlagsOK(cf.new) /\ FormOK(cf.form) /\ StoreOK(cf.store)

\* What is read of the registry for one setting, in the midst of a save.
OldOrNew(backend, store, old, new, k) ==
  LET seen == Corrected(ReadFlags(backend, store, Defaults))[k] IN
  seen \in {old[k], new[k]} \/ (Lost(backend, store, k) /\ seen = Defaults[k])

\* What is stored, at every moment of the last save: before it, the old
\* settings; behind it, the new ones; in its midst a file is cut, and a key of
\* the registry is the old or the new one, or lost.
StoreTells ==
  /\ cf.saved = "yes" => /\ cf.backend # "local" \/ cf.readable
                         /\ ReadFlags(cf.backend, cf.store, Defaults) = cf.new
  /\ cf.saved = "no" => Seen(cf.backend, cf.readable, cf.store) = cf.old
  /\ cf.saved = "partly" =>
       IF cf.backend = "windows"
       THEN \A k \in Flags : OldOrNew(cf.backend, cf.store, cf.old, Corrected(cf.new), k)
       ELSE cf.backend = "local" /\ ~cf.readable

\* A save under way: what it writes, and what it has still to write.
Written(backend, root, new) == \A k \in Flags : k \in DOMAIN root /\ root[k] = Write(backend, KindOf[k], new[k])
InTodo(todo, k) == \E i \in 1 .. Len(todo) : todo[i] = k
SaveGoesOn == cf.phase = "saving" =>
  /\ cf.saved \in {"no", "partly"} /\ ~cf.fresh
  /\ StoreOK(cf.root) /\ Written(cf.backend, cf.root, cf.new)
  /\ cf.backend = "windows" =>
       /\ cf.todo \in Seq(Flags \cup {"timeout"}) /\ cf.todo # << >>
       /\ \A k \in Flags : InTodo(cf.todo, k) \/ (k \in DOMAIN cf.store /\ cf.store[k] = cf.root[k])
  /\ cf.backend = "local" => cf.todo = IF cf.saved = "no" THEN <<"truncate", "write">> ELSE <<"write">>
  /\ cf.backend = "apple" => cf.todo = <<"write">>
\* While a program is off it has not read anything.
OffIsStale == cf.phase = "off" => ~cf.fresh

SettingsInv ==
  SettingsTypeOK /\ StoreTells /\ SaveGoesOn /\ OffIsStale /\ SettingsKept /\ StartsValid

-----------------------------------------------------------------------------
(* The operations on a record c. *)

LEMMA StoresOK ==
  ASSUME NEW backend \in Backends, NEW store \in Stores(backend) PROVE StoreOK(store)
BY DEF Stores, StoreOK

LEMMA FormOfFlags == ASSUME NEW f, FlagsOK(f) PROVE FormOK(LoadChanges(f))
<1>1. "limit_rate" \in Fields /\ "connect_timeout" \in Fields BY FlagsAre DEF Fields
<1>2. LoadChanges(f)["limit_rate"] = RateText(f["limit_rate"]) /\ LoadChanges(f)["connect_timeout"] = f["connect_timeout"]
  BY <1>1 DEF LoadChanges
<1>3. Over(Fields, LoadChanges(f)) BY DEF LoadChanges, Over
<1>4. f["limit_rate"] \in 0 .. RateMax /\ f["connect_timeout"] \in Int BY DEF FlagsOK
<1> QED BY <1>2, <1>3, <1>4, RateRoundTrip DEF FormOK

LEMMA SettingsStart == SettingsInit => SettingsInv
<1> SUFFICES ASSUME NEW program \in Kinds, NEW backend \in Places, NEW readable \in BOOLEAN, NEW enforce \in BOOLEAN,
                    NEW store \in Stores(backend), NEW certificate,
                    cf = InitialSettings(program, backend, store, readable, enforce, certificate)
             PROVE SettingsInv
  BY DEF SettingsInit
<1>1. /\ cf.program = program /\ cf.backend = backend /\ cf.phase = "off" /\ cf.saved = "none"
      /\ cf.fresh = FALSE /\ cf.started = FALSE /\ cf.flags = Defaults /\ cf.new = Defaults
      /\ cf.form = LoadChanges(Defaults) /\ cf.store = store
  BY DEF InitialSettings
<1>2. Over(SettingsFields, cf) BY DEF InitialSettings, SettingsFields, Over
<1>3. program \in {"gui", "cli", "server"} /\ backend \in Backends BY SettingsAssumption DEF Backends
<1>4. SettingsTypeOK BY <1>1, <1>2, <1>3, DefaultsOK, FormOfFlags, StoresOK DEF SettingsTypeOK
<1> QED BY <1>1, <1>4 DEF SettingsInv, StoreTells, SaveGoesOn, OffIsStale, SettingsKept, StartsValid

\* SaveConfig: what it leaves alone, and what it sets out to write.
LEMMA SaveConfigResult ==
  ASSUME NEW c, Over(SettingsFields, c), c.backend \in Backends, FlagsOK(c.flags), StoreOK(c.store)
  PROVE  LET d == SaveConfig(c) IN
         /\ Over(SettingsFields, d)
         /\ d.program = c.program /\ d.backend = c.backend /\ d.flags = c.flags /\ d.form = c.form
         /\ d.store = c.store /\ d.readable = c.readable /\ d.started = c.started
         /\ d.phase = "saving" /\ d.todo = Steps(c.backend) /\ d.saved = "no" /\ d.fresh = FALSE
         /\ d.old = Seen(c.backend, c.readable, c.store) /\ d.new = c.flags
         /\ StoreOK(d.root) /\ Written(c.backend, d.root, c.flags)
<1> DEFINE kept == IF Opens(c) THEN c.store ELSE << >>
           keys == (DOMAIN kept \ {Deprecated[k] : k \in DOMAIN Deprecated}) \cup Flags
           root == [k \in keys |-> IF k \in Flags THEN Write(c.backend, KindOf[k], c.flags[k]) ELSE kept[k]]
           old == ReadConfig([c EXCEPT !.flags = Defaults, !.enforce = FALSE]).flags
           d == SaveConfig(c)
<1>1. d = [c EXCEPT !.phase = "saving", !.todo = Steps(c.backend), !.saves = @ + 1, !.old = old,
                    !.new = c.flags, !.saved = "no", !.fresh = FALSE, !.root = root]
  BY DEF SaveConfig
<1> HIDE DEF root, old, d
<1>2. Over(SettingsFields, d) BY <1>1 DEF Over, SettingsFields
<1>3. /\ d.program = c.program /\ d.backend = c.backend /\ d.flags = c.flags /\ d.form = c.form
      /\ d.store = c.store /\ d.readable = c.readable /\ d.started = c.started
      /\ d.phase = "saving" /\ d.todo = Steps(c.backend) /\ d.saved = "no" /\ d.fresh = FALSE
      /\ d.old = old /\ d.new = c.flags /\ d.root = root
  BY <1>1 DEF Over, SettingsFields
<1>4. old = Seen(c.backend, c.readable, c.store)
  <2> DEFINE e == [c EXCEPT !.flags = Defaults, !.enforce = FALSE]
  <2>1. e.backend = c.backend /\ e.readable = c.readable /\ e.store = c.store /\ e.flags = Defaults /\ e.enforce = FALSE
    BY DEF Over, SettingsFields
  <2>2. Opens(e) = (c.backend # "local" \/ c.readable) BY <2>1 DEF Opens
  <2>3. "flags" \in DOMAIN e /\ "phase" \in DOMAIN e BY DEF Over, SettingsFields
  <2> HIDE DEF e
  <2>4. CASE ~Opens(e)
    <3>1. ReadConfig(e) = [e EXCEPT !.phase = IF e.enforce THEN "ended" ELSE @] BY <2>4 DEF ReadConfig
    <3>2. ReadConfig(e).flags = Defaults BY <2>1, <2>3, <3>1
    <3> QED BY <2>2, <2>4, <3>2 DEF Seen, old, e
  <2>5. CASE Opens(e)
    <3>1. ReadConfig(e) = [e EXCEPT !.flags = Corrected(ReadFlags(e.backend, e.store, e.flags))]
      BY <2>1, <2>5 DEF ReadConfig
    <3>2. ReadConfig(e).flags = Corrected(ReadFlags(c.backend, c.store, Defaults)) BY <2>1, <2>3, <3>1
    <3> QED BY <2>2, <2>5, <3>2 DEF Seen, old, e
  <2> QED BY <2>4, <2>5
<1>5. Written(c.backend, root, c.flags) BY DEF Written, root
<1>6. StoreOK(root)
  <2> SUFFICES ASSUME NEW k \in DOMAIN root
               PROVE  /\ k \in {"connect_timeout", "tcp_keep_alive_interval", "timeout"} /\ root[k][1] = "number" =>
                           root[k][2] \in Int
                      /\ k = "tcp_keep_alive" /\ root[k][1] = "bool" => root[k][2] \in BOOLEAN
                      /\ k = "limit_rate" /\ root[k][1] = "string" => root[k][2] \in Int \X Units
    BY DEF StoreOK
  <2>1. k \in keys BY DEF root
  <2>2. "timeout" \notin Flags /\ "timeout" \notin keys BY FlagsAre DEF Deprecated
  <2>3. CASE k \in Flags
    <3>1. root[k] = Write(c.backend, KindOf[k], c.flags[k]) BY <2>3 DEF root
    <3> QED BY <2>2, <2>3, <3>1, WriteTyped
  <2>4. CASE k \notin Flags BY <2>1, <2>2, <2>4, FlagsAre
  <2> QED BY <2>3, <2>4
<1> QED BY <1>2, <1>3, <1>4, <1>5, <1>6 DEF d

\* A save begins: its invariant, whatever was stored before.
LEMMA SaveBegins ==
  ASSUME NEW c, Over(SettingsFields, c), c.program \in {"gui", "cli", "server"}, c.backend \in Backends,
         c.started \in BOOLEAN, FlagsOK(c.flags), FormOK(c.form), StoreOK(c.store),
         c.started => CanWork(c.flags), cf' = SaveConfig(c)
  PROVE  SettingsInv'
<1> DEFINE d == cf'
<1>1. /\ Over(SettingsFields, d)
      /\ d.program = c.program /\ d.backend = c.backend /\ d.flags = c.flags /\ d.form = c.form
      /\ d.store = c.store /\ d.readable = c.readable /\ d.started = c.started
      /\ d.phase = "saving" /\ d.todo = Steps(c.backend) /\ d.saved = "no" /\ d.fresh = FALSE
      /\ d.old = Seen(c.backend, c.readable, c.store) /\ d.new = c.flags
      /\ StoreOK(d.root) /\ Written(c.backend, d.root, c.flags)
  BY SaveConfigResult
<1> HIDE DEF d
<1>2. SettingsTypeOK' BY <1>1 DEF SettingsTypeOK, d
<1>3. StoreTells' BY <1>1 DEF StoreTells, d
<1>4. SaveGoesOn'
  <2>1. CASE c.backend = "windows"
    <3>1. d.todo = Keys BY <1>1, <2>1 DEF Steps
    <3>2. Keys \in Seq(Flags \cup {"timeout"}) /\ Keys # << >> /\ Len(Keys) = 12 BY FlagsAre DEF Keys
    <3>3. \A k \in Flags : InTodo(Keys, k) BY <3>2 DEF InTodo, Flags
    <3> QED BY <1>1, <2>1, <3>1, <3>2, <3>3 DEF SaveGoesOn, d
  <2>2. CASE c.backend = "local"
    <3>1. d.todo = <<"truncate", "write">> BY <1>1, <2>2 DEF Steps
    <3> QED BY <1>1, <2>2, <3>1 DEF SaveGoesOn, d
  <2>3. CASE c.backend = "apple"
    <3>1. d.todo = <<"write">> BY <1>1, <2>3 DEF Steps
    <3> QED BY <1>1, <2>3, <3>1 DEF SaveGoesOn, d
  <2> QED BY <2>1, <2>2, <2>3 DEF Backends
<1>5. OffIsStale' /\ SettingsKept' /\ StartsValid' BY <1>1 DEF OffIsStale, SettingsKept, StartsValid, d
<1> QED BY <1>2, <1>3, <1>4, <1>5 DEF SettingsInv

-----------------------------------------------------------------------------
(* The settings: one lemma per action. *)

LEMMA KilledInv == SettingsInv /\ Killed => SettingsInv'
<1> SUFFICES ASSUME SettingsInv, Killed PROVE SettingsInv'
  OBVIOUS
<1>1. cf' = [cf EXCEPT !.phase = "off", !.started = FALSE, !.fresh = FALSE, !.todo = << >>,
                       !.flags = Defaults, !.form = LoadChanges(Defaults), !.root = << >>]
  BY DEF Killed
<1>2. Over(SettingsFields, cf) BY DEF SettingsInv, SettingsTypeOK
<1>3. /\ Over(SettingsFields, cf') /\ cf'.phase = "off" /\ cf'.started = FALSE /\ cf'.fresh = FALSE
      /\ cf'.flags = Defaults /\ cf'.form = LoadChanges(Defaults)
      /\ cf'.program = cf.program /\ cf'.backend = cf.backend /\ cf'.saved = cf.saved /\ cf'.new = cf.new
      /\ cf'.old = cf.old /\ cf'.store = cf.store /\ cf'.readable = cf.readable
  BY <1>1, <1>2 DEF Over, SettingsFields
<1>4. SettingsTypeOK' BY <1>3, DefaultsOK, FormOfFlags DEF SettingsInv, SettingsTypeOK
<1>5. StoreTells' BY <1>3 DEF SettingsInv, StoreTells
<1> QED BY <1>3, <1>4, <1>5 DEF SettingsInv, SaveGoesOn, OffIsStale, SettingsKept, StartsValid

\* What an edit may put into a field.
LEMMA TextsOK ==
  ASSUME NEW key \in Fields, NEW text \in Texts(key), NEW f, FormOK(f)
  PROVE  FormOK([f EXCEPT ![key] = text])
<1> DEFINE g == [f EXCEPT ![key] = text]
<1>1. Over(Fields, g) BY DEF FormOK, Over
<1>2. "limit_rate" \in Fields /\ "connect_timeout" \in Fields BY FlagsAre DEF Fields
<1>3. /\ g["limit_rate"] = IF key = "limit_rate" THEN text ELSE f["limit_rate"]
      /\ g["connect_timeout"] = IF key = "connect_timeout" THEN text ELSE f["connect_timeout"]
  BY <1>2 DEF FormOK, Over
<1>4. key = "limit_rate" => text \in Int \X Units
  BY SettingsAssumption DEF Texts, NotANumber, Units
<1>5. key = "connect_timeout" => text \in Int
  BY SettingsAssumption DEF Texts, NotANumber
<1> HIDE DEF g
<1> QED BY <1>1, <1>3, <1>4, <1>5 DEF FormOK, g

LEMMA EditInv == ASSUME NEW key \in Fields, SettingsInv, Edit(key) PROVE SettingsInv'
<1>1. PICK text \in Texts(key) : cf' = [cf EXCEPT !.form[key] = text, !.edits = @ + 1, !.fresh = FALSE]
  BY DEF Edit
<1>2. cf.phase = "running" BY DEF Edit
<1>3. Over(SettingsFields, cf) BY DEF SettingsInv, SettingsTypeOK
<1>4. /\ Over(SettingsFields, cf') /\ cf'.phase = "running" /\ cf'.started = cf.started /\ cf'.fresh = FALSE
      /\ cf'.flags = cf.flags /\ cf'.form = [cf.form EXCEPT ![key] = text]
      /\ cf'.program = cf.program /\ cf'.backend = cf.backend /\ cf'.saved = cf.saved /\ cf'.new = cf.new
      /\ cf'.old = cf.old /\ cf'.store = cf.store /\ cf'.readable = cf.readable
  BY <1>1, <1>2, <1>3 DEF Over, SettingsFields
<1>5. SettingsTypeOK'
  <2>1. FormOK(cf.form) BY DEF SettingsInv, SettingsTypeOK
  <2>2. FormOK([cf.form EXCEPT ![key] = text]) BY <2>1, TextsOK
  <2> QED BY <1>4, <2>2 DEF SettingsInv, SettingsTypeOK
<1>6. StoreTells' BY <1>4 DEF SettingsInv, StoreTells
<1> QED BY <1>4, <1>5, <1>6 DEF SettingsInv, SaveGoesOn, OffIsStale, SettingsKept, StartsValid

\* The parts of CanWork, as the two checks make them sure.
LEMMA WorkParts ==
  ASSUME NEW g, g["server"] \notin {Empty, "too long"}, g["server_port"] \in 1 .. MaxPort, g["method"] \in Methods,
         CredentialsFit(g["method"], g["username"], g["password"]), DoHFits(g["doh_url"], g["dot_host"]),
         g["connect_timeout"] >= 0, g["limit_rate"] >= 0
  PROVE  CanWork(g)
<1>1. g["method"] = "socks4" => g["username"] = Empty /\ g["password"] = Empty BY DEF CredentialsFit
<1>2. g["method"] \in {"socks5", "https"} => (g["username"] = Empty) = (g["password"] = Empty) BY DEF CredentialsFit
<1>3. g["doh_url"] # Empty => g["dot_host"] = Empty BY DEF DoHFits
<1> QED BY <1>1, <1>2, <1>3 DEF CanWork

\* Fields that pass the checks become flags that can work.
LEMMA AcceptedFields ==
  ASSUME NEW form, FormOK(form), NEW f, FlagsOK(f), ReadConfigFromArgument(form)
  PROVE  LET g == [k \in Flags |-> IF k \notin Fields THEN f[k]
                                   ELSE IF k = "limit_rate" THEN ngx_parse_size(form[k]) ELSE form[k]]
         IN FlagsOK(g) /\ CanWork(g)
<1> DEFINE g == [k \in Flags |-> IF k \notin Fields THEN f[k]
                                 ELSE IF k = "limit_rate" THEN ngx_parse_size(form[k]) ELSE form[k]]
<1>1. /\ g["server"] = form["server"] /\ g["server_port"] = form["server_port"] /\ g["method"] = form["method"]
      /\ g["username"] = form["username"] /\ g["password"] = form["password"]
      /\ g["doh_url"] = form["doh_url"] /\ g["dot_host"] = form["dot_host"]
      /\ g["connect_timeout"] = form["connect_timeout"]
      /\ g["limit_rate"] = ngx_parse_size(form["limit_rate"])
      /\ g["tcp_keep_alive"] = f["tcp_keep_alive"]
      /\ g["tcp_keep_alive_interval"] = f["tcp_keep_alive_interval"]
  BY FlagsAre DEF Fields
<1>2. Over(Flags, g) BY DEF Over
<1> HIDE DEF g
<1>3. ngx_parse_size(form["limit_rate"]) \in 0 .. RateMax
  BY ParsedFits DEF ReadConfigFromArgument, FormOK
<1>4. FlagsOK(g)
  BY <1>1, <1>2, <1>3 DEF FlagsOK, FormOK, ReadConfigFromArgument
<1>5. g["server_port"] \in 1 .. MaxPort
  <2>1. MaxPort \in Int BY DEF MaxPort
  <2> QED BY <1>1, <2>1 DEF ReadConfigFromArgument, IsPort
<1>6. CanWork(g)
  <2>1. g["limit_rate"] >= 0 BY <1>1, <1>3, SettingsAssumption
  <2>2. g["connect_timeout"] >= 0 /\ g["method"] \in Methods BY <1>1 DEF ReadConfigFromArgument
  <2>3. g["server"] \notin {Empty, "too long"} BY <1>1 DEF ReadConfigFromArgument, HostFits
  <2>4. CredentialsFit(g["method"], g["username"], g["password"]) BY <1>1 DEF ReadConfigFromArgument
  <2>5. DoHFits(g["doh_url"], g["dot_host"]) BY <1>1 DEF ReadConfigFromArgument
  <2> QED BY <1>5, <2>1, <2>2, <2>3, <2>4, <2>5, WorkParts
<1> QED BY <1>4, <1>6 DEF g

LEMMA OnStartInv == SettingsInv /\ OnStart => SettingsInv'
<1> SUFFICES ASSUME SettingsInv, OnStart PROVE SettingsInv'
  OBVIOUS
<1> DEFINE flags == [k \in Flags |-> IF k \notin Fields THEN cf.flags[k]
                                     ELSE IF k = "limit_rate" THEN ngx_parse_size(cf.form[k]) ELSE cf.form[k]]
           c == [cf EXCEPT !.flags = flags, !.started = TRUE, !.fresh = FALSE]
<1>1. ReadConfigFromArgument(cf.form) /\ cf.phase = "running" BY DEF OnStart
<1>2. cf' = SaveConfig(c) \/ cf' = [c EXCEPT !.started = FALSE] BY DEF OnStart
<1>3. FlagsOK(flags) /\ CanWork(flags) BY <1>1, AcceptedFields DEF SettingsInv, SettingsTypeOK
<1> HIDE DEF flags
<1>4. Over(SettingsFields, cf) BY DEF SettingsInv, SettingsTypeOK
<1>5. /\ Over(SettingsFields, c) /\ c.phase = "running" /\ c.started = TRUE /\ c.fresh = FALSE
      /\ c.flags = flags /\ c.form = cf.form
      /\ c.program = cf.program /\ c.backend = cf.backend /\ c.saved = cf.saved /\ c.new = cf.new
      /\ c.old = cf.old /\ c.store = cf.store /\ c.readable = cf.readable
  BY <1>1, <1>4 DEF Over, SettingsFields
<1> HIDE DEF c
<1>6. CASE cf' = SaveConfig(c)
  <2>1. /\ c.program \in {"gui", "cli", "server"} /\ c.backend \in Backends /\ c.started \in BOOLEAN
        /\ FlagsOK(c.flags) /\ FormOK(c.form) /\ StoreOK(c.store) /\ CanWork(c.flags)
    BY <1>3, <1>5 DEF SettingsInv, SettingsTypeOK
  <2> QED BY <1>5, <1>6, <2>1, SaveBegins
<1>7. CASE cf' = [c EXCEPT !.started = FALSE]
  <2>1. /\ Over(SettingsFields, cf') /\ cf'.phase = "running" /\ cf'.started = FALSE /\ cf'.fresh = FALSE
        /\ cf'.flags = flags /\ cf'.form = cf.form
        /\ cf'.program = cf.program /\ cf'.backend = cf.backend /\ cf'.saved = cf.saved /\ cf'.new = cf.new
        /\ cf'.old = cf.old /\ cf'.store = cf.store /\ cf'.readable = cf.readable
    BY <1>5, <1>7 DEF Over, SettingsFields
  <2>2. SettingsTypeOK' BY <1>3, <2>1 DEF SettingsInv, SettingsTypeOK
  <2>3. StoreTells' BY <2>1 DEF SettingsInv, StoreTells
  <2> QED BY <2>1, <2>2, <2>3 DEF SettingsInv, SaveGoesOn, OffIsStale, SettingsKept, StartsValid
<1> QED BY <1>2, <1>6, <1>7

LEMMA OnOkayInv == SettingsInv /\ OnOkayButtonClicked => SettingsInv'
<1> SUFFICES ASSUME SettingsInv, OnOkayButtonClicked PROVE SettingsInv'
  OBVIOUS
<1>1. PICK keep_alive \in BOOLEAN, interval \in OptionNumbers(cf.backend) :
        cf' = SaveConfig([cf EXCEPT !.flags.tcp_keep_alive = keep_alive,
                                    !.flags.tcp_keep_alive_interval = interval])
  BY DEF OnOkayButtonClicked
<1> DEFINE flags == [[cf.flags EXCEPT !.tcp_keep_alive = keep_alive] EXCEPT !.tcp_keep_alive_interval = interval]
           c == [cf EXCEPT !.flags.tcp_keep_alive = keep_alive, !.flags.tcp_keep_alive_interval = interval]
<1>2. interval \in Int BY SettingsAssumption DEF OptionNumbers, NotANumber, Wrapped, SettingsInv, SettingsTypeOK, Backends
<1>3. Over(Flags, cf.flags) BY DEF SettingsInv, SettingsTypeOK, FlagsOK
<1>4. /\ Over(Flags, flags)
      /\ \A k \in Flags \ {"tcp_keep_alive", "tcp_keep_alive_interval"} : flags[k] = cf.flags[k]
      /\ flags["tcp_keep_alive"] = keep_alive /\ flags["tcp_keep_alive_interval"] = interval
  BY <1>3, FlagsAre DEF Over
<1>5. Over(SettingsFields, cf) BY DEF SettingsInv, SettingsTypeOK
<1>6. /\ Over(SettingsFields, c) /\ c.started = cf.started /\ c.flags = flags /\ c.form = cf.form
      /\ c.program = cf.program /\ c.backend = cf.backend /\ c.store = cf.store
  BY <1>5 DEF Over, SettingsFields
<1> HIDE DEF flags, c
<1>7. FlagsOK(flags) BY <1>2, <1>4, FlagsAre DEF FlagsOK, SettingsInv, SettingsTypeOK
<1>8. cf.started => CanWork(flags)
  <2>1. cf.started => CanWork(cf.flags) BY DEF SettingsInv, StartsValid
  <2> QED BY <1>4, <2>1, FlagsAre DEF CanWork
<1>9. /\ c.program \in {"gui", "cli", "server"} /\ c.backend \in Backends /\ c.started \in BOOLEAN
      /\ FlagsOK(c.flags) /\ FormOK(c.form) /\ StoreOK(c.store) /\ (c.started => CanWork(c.flags))
  BY <1>6, <1>7, <1>8 DEF SettingsInv, SettingsTypeOK
<1>10. cf' = SaveConfig(c) BY <1>1 DEF c
<1> QED BY <1>6, <1>9, <1>10, SaveBegins

\* Corrected looks at one flag at a time.
LEMMA CorrectedPointwise ==
  ASSUME NEW f, FlagsOK(f), NEW g, FlagsOK(g), NEW k \in Flags, f[k] = g[k]
  PROVE  Corrected(f)[k] = Corrected(g)[k]
BY FlagsAre DEF FlagsOK, Corrected, Over

LEMMA CorrectedDefaults == \A k \in Flags : Corrected(Defaults)[k] = Defaults[k]
<1> SUFFICES ASSUME NEW d, d = Defaults, NEW k \in Flags PROVE Corrected(d)[k] = d[k]
  OBVIOUS
<1>1. d["connect_timeout"] = 0 /\ d["tcp_keep_alive_interval"] = 75 BY DEF Defaults
<1>2. FlagsOK(d) BY DefaultsOK
<1> HIDE DEF Defaults
<1>3. CASE k \in {"connect_timeout", "tcp_keep_alive_interval"}
  <2>1. \A f : FlagsOK(f) /\ f["connect_timeout"] >= 0 /\ f["tcp_keep_alive_interval"] >= 0 =>
          /\ Corrected(f)["connect_timeout"] = f["connect_timeout"]
          /\ Corrected(f)["tcp_keep_alive_interval"] = f["tcp_keep_alive_interval"]
    BY FlagsAre DEF Corrected, FlagsOK, Over
  <2> QED BY <1>1, <1>2, <1>3, <2>1
<1>4. CASE k \notin {"connect_timeout", "tcp_keep_alive_interval"} BY <1>2, <1>4 DEF Corrected, FlagsOK, Over
<1> QED BY <1>3, <1>4

\* Writing one key changes what is read for that key only.
OnlyKeyChanges(backend, store, put, key, f) ==
  /\ ReadFlags(backend, put, Defaults)[key] = f[key]
  /\ \A k \in Flags \ {key} :
       /\ ReadFlags(backend, put, Defaults)[k] = ReadFlags(backend, store, Defaults)[k]
       /\ Lost(backend, put, k) <=> Lost(backend, store, k)

LEMMA PutKeyReads ==
  ASSUME NEW backend \in Backends, NEW store, NEW f, FlagsOK(f), NEW key \in Flags,
         NEW put, put = PutKey(store, key, Write(backend, KindOf[key], f[key]))
  PROVE  OnlyKeyChanges(backend, store, put, key, f)
<1> DEFINE value == Write(backend, KindOf[key], f[key])
<1>1. key # "timeout" /\ "timeout" \notin Flags BY FlagsAre
<1>2. key \in DOMAIN put /\ put[key] = value BY <1>1 DEF PutKey
<1>3. \A k \in Flags \ {key} : (k \in DOMAIN put <=> k \in DOMAIN store) /\ (k \in DOMAIN store => put[k] = store[k])
  BY <1>1 DEF PutKey
<1>4. ("timeout" \in DOMAIN put <=> "timeout" \in DOMAIN store) /\ ("timeout" \in DOMAIN store => put["timeout"] = store["timeout"])
  BY <1>1 DEF PutKey
<1>5. ReadFlags(backend, put, Defaults)[key] = f[key]
  <2>1. Loads(backend, put, key) /\ Read(backend, KindOf[key], put[key]) = f[key] BY <1>2, WriteRead DEF Loads
  <2> QED BY <2>1 DEF ReadFlags
<1>6. ASSUME NEW k \in Flags \ {key} PROVE Lost(backend, put, k) <=> Lost(backend, store, k)
  <2>1. Loads(backend, put, k) <=> Loads(backend, store, k) BY <1>3 DEF Loads
  <2>2. \A j \in DOMAIN Deprecated : Deprecated[j] = "timeout" BY DEF Deprecated
  <2> QED BY <1>4, <2>1, <2>2 DEF Lost
<1>7. ASSUME NEW k \in Flags \ {key} PROVE ReadFlags(backend, put, Defaults)[k] = ReadFlags(backend, store, Defaults)[k]
  <2>1. Loads(backend, put, k) <=> Loads(backend, store, k) BY <1>3 DEF Loads
  <2>2. Loads(backend, store, k) => put[k] = store[k] BY <1>3 DEF Loads
  <2>3. CASE k # "connect_timeout"
    <3>1. ~LoadsDeprecated(put, k) /\ ~LoadsDeprecated(store, k) BY <2>3 DEF LoadsDeprecated, Deprecated
    <3> QED BY <2>1, <2>2, <3>1 DEF ReadFlags
  <2>4. CASE k = "connect_timeout"
    <3>1. LoadsDeprecated(put, k) <=> LoadsDeprecated(store, k) BY <1>4, <2>4 DEF LoadsDeprecated, Deprecated
    <3>2. LoadsDeprecated(store, k) => put[Deprecated[k]] = store[Deprecated[k]]
      BY <1>4, <2>4 DEF LoadsDeprecated, Deprecated
    <3> QED BY <2>1, <2>2, <3>1, <3>2 DEF ReadFlags
  <2> QED BY <2>3, <2>4
<1> QED BY <1>5, <1>6, <1>7 DEF OnlyKeyChanges

\* Deleting the earlier key changes what is read for the setting that was there
\* under that key alone, which is lost.
KeyGone(backend, store, gone) == \A k \in Flags :
  \/ /\ ReadFlags(backend, gone, Defaults)[k] = ReadFlags(backend, store, Defaults)[k]
     /\ Lost(backend, store, k) => Lost(backend, gone, k)
  \/ Lost(backend, gone, k) /\ ReadFlags(backend, gone, Defaults)[k] = Defaults[k]

LEMMA DeleteKeyReads ==
  ASSUME NEW backend \in Backends, NEW store, NEW gone, gone = DeleteKey(store, "timeout")
  PROVE  KeyGone(backend, store, gone)
<1>1. "timeout" \notin Flags BY FlagsAre
<1>2. "timeout" \notin DOMAIN gone BY DEF DeleteKey
<1>3. \A k \in Flags : (k \in DOMAIN gone <=> k \in DOMAIN store) /\ (k \in DOMAIN store => gone[k] = store[k])
  BY <1>1 DEF DeleteKey
<1>4. DOMAIN Deprecated = {"connect_timeout"} /\ Deprecated["connect_timeout"] = "timeout" BY DEF Deprecated
<1> SUFFICES ASSUME NEW k \in Flags
             PROVE  \/ /\ ReadFlags(backend, gone, Defaults)[k] = ReadFlags(backend, store, Defaults)[k]
                       /\ Lost(backend, store, k) => Lost(backend, gone, k)
                    \/ Lost(backend, gone, k) /\ ReadFlags(backend, gone, Defaults)[k] = Defaults[k]
  BY DEF KeyGone
<1>5. Loads(backend, gone, k) <=> Loads(backend, store, k) BY <1>3 DEF Loads
<1>6. Loads(backend, store, k) => gone[k] = store[k] BY <1>3 DEF Loads
<1>7. CASE k # "connect_timeout"
  <2>1. ~LoadsDeprecated(gone, k) /\ ~LoadsDeprecated(store, k) BY <1>4, <1>7 DEF LoadsDeprecated
  <2>2. ~Lost(backend, store, k) BY <1>4, <1>7 DEF Lost
  <2> QED BY <1>5, <1>6, <2>1, <2>2 DEF ReadFlags
<1>8. CASE k = "connect_timeout" /\ Loads(backend, store, k)
  <2>1. ~Lost(backend, store, k) BY <1>8 DEF Lost
  <2> QED BY <1>5, <1>6, <1>8, <2>1 DEF ReadFlags
<1>9. CASE k = "connect_timeout" /\ ~Loads(backend, store, k)
  <2>1. ~LoadsDeprecated(gone, k) BY <1>2, <1>4, <1>9 DEF LoadsDeprecated
  <2>2. Lost(backend, gone, k) BY <1>2, <1>4, <1>5, <1>9 DEF Lost
  <2> QED BY <1>5, <1>9, <2>1, <2>2 DEF ReadFlags
<1> QED BY <1>7, <1>8, <1>9

LEMMA DeleteKeyOK == ASSUME NEW store, StoreOK(store), NEW key PROVE StoreOK(DeleteKey(store, key))
<1> DEFINE gone == DeleteKey(store, key)
<1>1. \A k \in DOMAIN gone : k \in DOMAIN store /\ gone[k] = store[k] BY DEF DeleteKey
<1> HIDE DEF gone
<1>2. StoreOK(gone) BY <1>1 DEF StoreOK
<1> QED BY <1>2 DEF gone

LEMMA PutKeyOK ==
  ASSUME NEW backend \in Backends, NEW store, StoreOK(store), NEW root, StoreOK(root),
         NEW key \in Flags, key \in DOMAIN root
  PROVE  StoreOK(PutKey(store, key, root[key]))
<1> DEFINE put == PutKey(store, key, root[key])
<1>1. \A k \in DOMAIN put : \/ k = key /\ put[k] = root[k] /\ k \in DOMAIN root
                            \/ k \in DOMAIN store /\ put[k] = store[k]
  BY DEF PutKey
<1> HIDE DEF put
<1>2. StoreOK(put) BY <1>1 DEF StoreOK
<1> QED BY <1>2 DEF put

\* What was to be written is written now or still to be.
LEMMA TodoShrinks ==
  ASSUME NEW S, NEW todo \in Seq(S), todo # << >>, NEW k, InTodo(todo, k)
  PROVE  k = Head(todo) \/ InTodo(Tail(todo), k)
<1>1. PICK i \in 1 .. Len(todo) : todo[i] = k BY DEF InTodo
<1>2. CASE i = 1 BY <1>1, <1>2
<1>3. CASE i # 1
  <2>1. i - 1 \in 1 .. Len(Tail(todo)) /\ Tail(todo)[i - 1] = k BY <1>1, <1>3
  <2> QED BY <2>1 DEF InTodo
<1> QED BY <1>2, <1>3

LEMMA SaveStepInv == SettingsInv /\ SaveStep => SettingsInv'
<1> SUFFICES ASSUME SettingsInv, SaveStep PROVE SettingsInv'
  OBVIOUS
<1> DEFINE step == Head(cf.todo)
           last == Tail(cf.todo) = << >>
           c == [cf EXCEPT !.todo = Tail(@), !.phase = IF last THEN "running" ELSE @,
                           !.saved = IF last THEN "yes" ELSE "partly"]
<1>0. "truncate" \notin Flags /\ "write" \notin Flags /\ "timeout" \notin Flags BY FlagsAre
<1>1. cf.phase = "saving" BY DEF SaveStep
<1>2. cf' = CASE step = "truncate" -> [c EXCEPT !.readable = FALSE]
              [] step = "write" -> [c EXCEPT !.readable = TRUE, !.store = cf.root]
              [] step \in Flags -> [c EXCEPT !.store = PutKey(@, step, cf.root[step])]
              [] OTHER -> [c EXCEPT !.store = DeleteKey(@, step)]
  BY DEF SaveStep
<1>3. SettingsTypeOK /\ StoreTells /\ SaveGoesOn /\ StartsValid BY DEF SettingsInv
<1>4. /\ cf.saved \in {"no", "partly"} /\ cf.fresh = FALSE
      /\ StoreOK(cf.root) /\ Written(cf.backend, cf.root, cf.new)
  BY <1>1, <1>3 DEF SaveGoesOn, SettingsTypeOK
<1>5. Over(SettingsFields, cf) /\ cf.backend \in Backends BY <1>3 DEF SettingsTypeOK
<1>6. /\ Over(SettingsFields, c) /\ c.phase = (IF last THEN "running" ELSE "saving")
      /\ c.saved = (IF last THEN "yes" ELSE "partly") /\ c.todo = Tail(cf.todo)
      /\ c.started = cf.started /\ c.fresh = FALSE /\ c.flags = cf.flags /\ c.form = cf.form /\ c.root = cf.root
      /\ c.program = cf.program /\ c.backend = cf.backend /\ c.new = cf.new
      /\ c.old = cf.old /\ c.store = cf.store /\ c.readable = cf.readable
  BY <1>1, <1>4, <1>5 DEF Over, SettingsFields
<1> HIDE DEF c, last, step
\* What every step leaves alone.
<1>7. /\ Over(SettingsFields, cf') /\ cf'.phase = (IF last THEN "running" ELSE "saving")
      /\ cf'.saved = (IF last THEN "yes" ELSE "partly") /\ cf'.todo = Tail(cf.todo)
      /\ cf'.started = cf.started /\ cf'.fresh = FALSE /\ cf'.flags = cf.flags /\ cf'.form = cf.form /\ cf'.root = cf.root
      /\ cf'.program = cf.program /\ cf'.backend = cf.backend /\ cf'.new = cf.new /\ cf'.old = cf.old
  <2>1. CASE step = "truncate"
    <3>1. cf' = [c EXCEPT !.readable = FALSE] BY <1>0, <1>2, <2>1
    <3> QED BY <1>6, <3>1 DEF Over, SettingsFields
  <2>2. CASE step = "write"
    <3>1. cf' = [c EXCEPT !.readable = TRUE, !.store = cf.root] BY <1>0, <1>2, <2>2
    <3> QED BY <1>6, <3>1 DEF Over, SettingsFields
  <2>3. CASE step \in Flags
    <3>1. cf' = [c EXCEPT !.store = PutKey(@, step, cf.root[step])] BY <1>0, <1>2, <2>3
    <3> QED BY <1>6, <3>1 DEF Over, SettingsFields
  <2>4. CASE step \notin Flags \cup {"truncate", "write"}
    <3>1. cf' = [c EXCEPT !.store = DeleteKey(@, step)] BY <1>2, <2>4
    <3> QED BY <1>6, <3>1 DEF Over, SettingsFields
  <2> QED BY <2>1, <2>2, <2>3, <2>4
<1>8. SUFFICES StoreOK(cf'.store) /\ StoreTells' /\ SaveGoesOn'
  <2>1. SettingsTypeOK' BY <1>3, <1>7, <1>8 DEF SettingsTypeOK
  <2> QED BY <1>3, <1>7, <1>8, <2>1 DEF SettingsInv, OffIsStale, SettingsKept, StartsValid
\* The whole is written: what is read is new.
<1>9. CASE step = "write"
  <2>1. cf' = [c EXCEPT !.readable = TRUE, !.store = cf.root] BY <1>0, <1>2, <1>9
  <2>2. cf'.readable = TRUE /\ cf'.store = cf.root BY <1>6, <2>1 DEF Over, SettingsFields
  <2>3. FlagsOK(cf.new) BY <1>3 DEF SettingsTypeOK
  <2>4. ReadFlags(cf.backend, cf.root, Defaults) = cf.new BY <1>4, <1>5, <2>3, ReadWritten DEF Written
  <2>5. last
    <3>1. CASE cf.backend = "windows"
      <4>1. cf.todo \in Seq(Flags \cup {"timeout"}) /\ cf.todo # << >> BY <1>1, <1>3, <3>1 DEF SaveGoesOn
      <4>2. step \in Flags \cup {"timeout"} BY <4>1 DEF step
      <4> QED BY <1>9, <4>2, FlagsAre
    <3>2. CASE cf.backend = "local"
      <4>1. cf.todo = IF cf.saved = "no" THEN <<"truncate", "write">> ELSE <<"write">>
        BY <1>1, <1>3, <3>2 DEF SaveGoesOn
      <4>2. cf.todo = <<"write">> BY <1>9, <4>1 DEF step
      <4> QED BY <4>2 DEF last
    <3>3. CASE cf.backend = "apple"
      <4>1. cf.todo = <<"write">> BY <1>1, <1>3, <3>3 DEF SaveGoesOn
      <4> QED BY <4>1 DEF last
    <3> QED BY <1>5, <3>1, <3>2, <3>3 DEF Backends
  <2> QED BY <1>4, <1>7, <2>2, <2>4, <2>5 DEF StoreTells, SaveGoesOn
\* The file is cut.
<1>10. CASE step = "truncate"
  <2>1. cf' = [c EXCEPT !.readable = FALSE] BY <1>0, <1>2, <1>10
  <2>2. cf'.readable = FALSE /\ cf'.store = cf.store BY <1>6, <2>1 DEF Over, SettingsFields
  <2>3. cf.backend = "local" /\ cf.todo = <<"truncate", "write">>
    <3>1. CASE cf.backend = "windows"
      <4>1. cf.todo \in Seq(Flags \cup {"timeout"}) /\ cf.todo # << >> BY <1>1, <1>3, <3>1 DEF SaveGoesOn
      <4>2. step \in Flags \cup {"timeout"} BY <4>1 DEF step
      <4> QED BY <1>10, <4>2, FlagsAre
    <3>2. CASE cf.backend = "local"
      <4>1. cf.todo = IF cf.saved = "no" THEN <<"truncate", "write">> ELSE <<"write">>
        BY <1>1, <1>3, <3>2 DEF SaveGoesOn
      <4> QED BY <1>10, <3>2, <4>1 DEF step
    <3>3. CASE cf.backend = "apple"
      <4>1. cf.todo = <<"write">> BY <1>1, <1>3, <3>3 DEF SaveGoesOn
      <4> QED BY <1>10, <4>1 DEF step
    <3> QED BY <1>5, <3>1, <3>2, <3>3 DEF Backends
  <2>4. Tail(cf.todo) = <<"write">> /\ ~last BY <2>3 DEF last
  <2> QED BY <1>3, <1>4, <1>7, <2>2, <2>3, <2>4 DEF StoreTells, SaveGoesOn, SettingsTypeOK
\* A key of the registry: it is written or deleted.
<1>11. CASE step \notin {"truncate", "write"}
  <2> DEFINE put == cf'.store
  <2>1. cf'.readable = cf.readable
        /\ put = IF step \in Flags THEN PutKey(cf.store, step, cf.root[step]) ELSE DeleteKey(cf.store, step)
    <3>1. CASE step \in Flags
      <4>1. cf' = [c EXCEPT !.store = PutKey(@, step, cf.root[step])] BY <1>2, <1>11, <3>1
      <4> QED BY <1>6, <3>1, <4>1 DEF Over, SettingsFields
    <3>2. CASE step \notin Flags
      <4>1. cf' = [c EXCEPT !.store = DeleteKey(@, step)] BY <1>2, <1>11, <3>2
      <4> QED BY <1>6, <3>2, <4>1 DEF Over, SettingsFields
    <3> QED BY <3>1, <3>2
  <2>3. cf.backend = "windows"
    <3>1. CASE cf.backend = "local"
      <4>1. cf.todo = IF cf.saved = "no" THEN <<"truncate", "write">> ELSE <<"write">>
        BY <1>1, <1>3, <3>1 DEF SaveGoesOn
      <4> QED BY <1>11, <4>1 DEF step
    <3>2. CASE cf.backend = "apple"
      <4>1. cf.todo = <<"write">> BY <1>1, <1>3, <3>2 DEF SaveGoesOn
      <4> QED BY <1>11, <4>1 DEF step
    <3> QED BY <1>5, <3>1, <3>2 DEF Backends
  <2>4. /\ cf.todo \in Seq(Flags \cup {"timeout"}) /\ cf.todo # << >>
        /\ \A k \in Flags : InTodo(cf.todo, k) \/ (k \in DOMAIN cf.store /\ cf.store[k] = cf.root[k])
    BY <1>1, <1>3, <2>3 DEF SaveGoesOn
  <2>5. step \in Flags \/ step = "timeout" BY <2>4 DEF step
  <2>6. FlagsOK(cf.new) /\ StoreOK(cf.store) BY <1>3 DEF SettingsTypeOK
  <2>7. step \in Flags => cf.root[step] = Write(cf.backend, KindOf[step], cf.new[step]) /\ step \in DOMAIN cf.root
    BY <1>4 DEF Written
  <2>8. StoreOK(put)
    <3>1. CASE step \in Flags
      <4>1. StoreOK(PutKey(cf.store, step, cf.root[step])) BY <1>4, <1>5, <2>6, <2>7, <3>1, PutKeyOK
      <4> QED BY <2>1, <3>1, <4>1
    <3>2. CASE step \notin Flags
      <4>1. StoreOK(DeleteKey(cf.store, step)) BY <2>6, DeleteKeyOK
      <4> QED BY <2>1, <3>2, <4>1
    <3> QED BY <3>1, <3>2
  <2> HIDE DEF put
  <2>9. /\ step \in Flags => step \in DOMAIN put /\ put[step] = cf.root[step]
        /\ \A k \in Flags : k \in DOMAIN cf.store /\ k # step => k \in DOMAIN put /\ put[k] = cf.store[k]
    <3>1. CASE step \in Flags
      <4>1. put = PutKey(cf.store, step, cf.root[step]) BY <2>1, <3>1
      <4> QED BY <3>1, <4>1 DEF PutKey
    <3>2. CASE step \notin Flags
      <4>1. put = DeleteKey(cf.store, step) BY <2>1, <3>2
      <4> QED BY <3>2, <4>1 DEF DeleteKey
    <3> QED BY <3>1, <3>2
  <2>10. \A k \in Flags : InTodo(Tail(cf.todo), k) \/ (k \in DOMAIN put /\ put[k] = cf.root[k])
    <3>1. \A k : InTodo(cf.todo, k) => k = step \/ InTodo(Tail(cf.todo), k)
      BY <2>4, TodoShrinks DEF step
    <3> QED BY <2>4, <2>9, <3>1
  <2>11. CASE last
    <3>1. \A k \in Flags : k \in DOMAIN put /\ put[k] = Write(cf.backend, KindOf[k], cf.new[k])
      <4>1. \A k : ~InTodo(<< >>, k) BY DEF InTodo
      <4> QED BY <1>4, <2>10, <2>11, <4>1 DEF Written, last
    <3>2. ReadFlags(cf.backend, put, Defaults) = cf.new BY <1>5, <2>6, <3>1, ReadWritten
    <3> QED BY <1>7, <2>3, <2>8, <2>11, <3>2 DEF StoreTells, SaveGoesOn, put
  <2>12. CASE ~last
    <3> DEFINE old == ReadFlags(cf.backend, cf.store, Defaults)  now == ReadFlags(cf.backend, put, Defaults)
    <3>1. \A k \in Flags :
            \/ k = step /\ now[k] = cf.new[k]
            \/ now[k] = old[k] /\ (Lost(cf.backend, cf.store, k) => Lost(cf.backend, put, k))
            \/ Lost(cf.backend, put, k) /\ now[k] = Defaults[k]
      <4>1. CASE step \in Flags
        <5>1. put = PutKey(cf.store, step, Write(cf.backend, KindOf[step], cf.new[step])) BY <2>1, <2>7, <4>1
        <5>2. OnlyKeyChanges(cf.backend, cf.store, put, step, cf.new)
          BY <5>1, <1>5, <2>6, <4>1, PutKeyReads
        <5> QED BY <5>2 DEF OnlyKeyChanges
      <4>2. CASE step = "timeout"
        <5>1. put = DeleteKey(cf.store, "timeout") BY <1>0, <2>1, <4>2
        <5>2. KeyGone(cf.backend, cf.store, put) BY <5>1, <1>5, DeleteKeyReads
        <5> QED BY <5>2 DEF KeyGone
      <4> QED BY <2>5, <4>1, <4>2
    <3>2. FlagsOK(old) /\ FlagsOK(now) BY <1>5, <2>6, <2>8, DefaultsOK, ReadFlagsOK
    <3>3. \A k \in Flags : OldOrNew(cf.backend, cf.store, cf.old, Corrected(cf.new), k)
      BY <1>3, <1>4, <2>3 DEF StoreTells, Seen, OldOrNew
    <3>c. \A k \in Flags : Corrected(Defaults)[k] = Defaults[k] BY CorrectedDefaults
    <3> HIDE DEF old, now
    <3>4. ASSUME NEW k \in Flags PROVE OldOrNew(cf.backend, put, cf.old, Corrected(cf.new), k)
      <4>1. CASE k = step /\ now[k] = cf.new[k]
        <5>1. Corrected(now)[k] = Corrected(cf.new)[k] BY <2>6, <3>2, <4>1, CorrectedPointwise
        <5> QED BY <5>1 DEF OldOrNew, now
      <4>2. CASE now[k] = old[k] /\ (Lost(cf.backend, cf.store, k) => Lost(cf.backend, put, k))
        <5>1. Corrected(now)[k] = Corrected(old)[k] BY <3>2, <4>2, CorrectedPointwise
        <5>2. OldOrNew(cf.backend, cf.store, cf.old, Corrected(cf.new), k) BY <3>3
        <5> QED BY <4>2, <5>1, <5>2 DEF OldOrNew, now, old
      <4>3. CASE Lost(cf.backend, put, k) /\ now[k] = Defaults[k]
        <5>1. Corrected(now)[k] = Defaults[k] BY <3>2, <3>c, <4>3, DefaultsOK, CorrectedPointwise
        <5> QED BY <4>3, <5>1 DEF OldOrNew, now
      <4> QED BY <3>1, <4>1, <4>2, <4>3
    <3>5. StoreTells' BY <1>7, <2>3, <2>12, <3>4 DEF StoreTells, put
    <3>6. Tail(cf.todo) \in Seq(Flags \cup {"timeout"}) /\ Tail(cf.todo) # << >> BY <2>4, <2>12 DEF last
    <3>7. SaveGoesOn' BY <1>4, <1>7, <2>3, <2>10, <2>12, <3>6 DEF SaveGoesOn, put
    <3> QED BY <2>8, <3>5, <3>7 DEF put
  <2> QED BY <2>11, <2>12
<1> QED BY <1>9, <1>10, <1>11

\* Arguments on top of flags give flags.
LEMMA ArgumentsOK ==
  ASSUME NEW f, FlagsOK(f), NEW args \in Arguments
  PROVE  FlagsOK([k \in Flags |-> IF k \in DOMAIN args THEN args[k] ELSE f[k]])
<1> DEFINE g == [k \in Flags |-> IF k \in DOMAIN args THEN args[k] ELSE f[k]]
<1>1. \A k \in Flags : g[k] = IF k \in DOMAIN args THEN args[k] ELSE f[k] OBVIOUS
<1>2. Over(Flags, g) BY DEF Over
<1> HIDE DEF g
<1>3. /\ "server_port" \in DOMAIN args => args["server_port"] = 0
      /\ "limit_rate" \in DOMAIN args => args["limit_rate"] = 1536
      /\ "connect_timeout" \in DOMAIN args => args["connect_timeout"] = -1
      /\ "method" \notin DOMAIN args /\ "tcp_keep_alive" \notin DOMAIN args
      /\ "tcp_keep_alive_interval" \notin DOMAIN args
  BY DEF Arguments
<1>4. IsPort(0) BY DEF IsPort, MaxPort
<1>5. 1536 \in 0 .. RateMax BY SettingsAssumption
<1>6. IsPort(g["server_port"]) BY <1>1, <1>3, <1>4, FlagsAre DEF FlagsOK
<1>7. g["limit_rate"] \in 0 .. RateMax BY <1>1, <1>3, <1>5, FlagsAre DEF FlagsOK
<1>8. g["connect_timeout"] \in Int BY <1>1, <1>3, FlagsAre DEF FlagsOK
<1>9. /\ g["method"] = f["method"] /\ g["tcp_keep_alive"] = f["tcp_keep_alive"]
      /\ g["tcp_keep_alive_interval"] = f["tcp_keep_alive_interval"]
  BY <1>1, <1>3, FlagsAre
<1>10. FlagsOK(g) BY <1>2, <1>6, <1>7, <1>8, <1>9 DEF FlagsOK
<1> QED BY <1>10 DEF g

LEMMA SeenOK ==
  ASSUME NEW backend \in Backends, NEW readable, NEW store, StoreOK(store)
  PROVE  FlagsOK(Seen(backend, readable, store))
BY DefaultsOK, ReadFlagsOK, CorrectedOK DEF Seen

\* ReadConfigFileAndArguments, into the defaults: it ends the program, or the
\* flags are what is stored with the arguments on top.
ReadDone(c, args, seen, d) ==
  /\ Over(SettingsFields, d)
  /\ d.program = c.program /\ d.backend = c.backend /\ d.form = c.form
  /\ d.store = c.store /\ d.readable = c.readable /\ d.started = c.started
  /\ d.saved = c.saved /\ d.old = c.old /\ d.new = c.new
  /\ \/ d.phase = "ended" /\ d.fresh = FALSE /\ FlagsOK(d.flags)
     \/ /\ d.phase = "running" /\ d.fresh = (args = << >>)
        /\ d.flags = [k \in Flags |-> IF k \in DOMAIN args THEN args[k] ELSE seen[k]]

LEMMA ReadResult ==
  ASSUME NEW c, Over(SettingsFields, c), c.backend \in Backends, StoreOK(c.store), c.flags = Defaults,
         c.phase = "running", c.fresh = FALSE, NEW args \in Arguments,
         NEW seen, seen = Seen(c.backend, c.readable, c.store),
         NEW d, d = ReadConfigFileAndArguments(c, args)
  PROVE  ReadDone(c, args, seen, d)
<1> DEFINE r == ReadConfig(c)
<1>1. /\ Over(SettingsFields, r)
      /\ r.program = c.program /\ r.backend = c.backend /\ r.form = c.form
      /\ r.store = c.store /\ r.readable = c.readable /\ r.started = c.started
      /\ r.saved = c.saved /\ r.old = c.old /\ r.new = c.new /\ r.fresh = FALSE
      /\ \/ r.phase = "ended" /\ r.flags = Defaults
         \/ r.phase = "running" /\ r.flags = seen
  <2>1. CASE ~Opens(c)
    <3>1. r = [c EXCEPT !.phase = IF c.enforce THEN "ended" ELSE @] BY <2>1 DEF ReadConfig
    <3>2. seen = Defaults BY <2>1 DEF Seen, Opens
    <3> HIDE DEF r
    <3> QED BY <3>1, <3>2 DEF Over, SettingsFields
  <2>2. CASE Opens(c) /\ c.enforce /\ \E k \in Required : ~Loads(c.backend, c.store, k)
    <3>1. r = [c EXCEPT !.phase = "ended"] BY <2>2 DEF ReadConfig
    <3> HIDE DEF r
    <3> QED BY <3>1 DEF Over, SettingsFields
  <2>3. CASE Opens(c) /\ ~(c.enforce /\ \E k \in Required : ~Loads(c.backend, c.store, k))
    <3>1. r = [c EXCEPT !.flags = Corrected(ReadFlags(c.backend, c.store, c.flags))] BY <2>3 DEF ReadConfig
    <3>2. seen = Corrected(ReadFlags(c.backend, c.store, c.flags)) BY <2>3 DEF Seen, Opens
    <3>3. r = [c EXCEPT !.flags = seen] BY <3>1, <3>2
    <3> HIDE DEF r
    <3> QED BY <3>3 DEF Over, SettingsFields
  <2> QED BY <2>1, <2>2, <2>3
<1> DEFINE flags == [k \in Flags |-> IF k \in DOMAIN args THEN args[k] ELSE r.flags[k]]
<1>2. FlagsOK(seen) BY SeenOK
<1>3. d = IF r.phase = "ended" THEN r
          ELSE IF flags.method = "https" /\ ~ReadTLSConfigFile(c) THEN [r EXCEPT !.phase = "ended"]
          ELSE [r EXCEPT !.flags = flags, !.fresh = args = << >>]
  BY DEF ReadConfigFileAndArguments
<1> HIDE DEF r
<1>4. CASE d = r /\ r.phase = "ended" BY <1>1, <1>4, DefaultsOK DEF ReadDone
<1>5. CASE d = [r EXCEPT !.phase = "ended"] /\ r.phase = "running"
  <2>1. r.flags = seen BY <1>1, <1>5
  <2> QED BY <1>1, <1>2, <1>5, <2>1 DEF Over, SettingsFields, ReadDone
<1>6. CASE d = [r EXCEPT !.flags = flags, !.fresh = args = << >>] /\ r.phase = "running"
  <2>1. r.flags = seen BY <1>1, <1>6
  <2>2. flags = [k \in Flags |-> IF k \in DOMAIN args THEN args[k] ELSE seen[k]] BY <2>1
  <2> HIDE DEF flags
  <2>3. /\ Over(SettingsFields, d)
        /\ d.program = c.program /\ d.backend = c.backend /\ d.form = c.form
        /\ d.store = c.store /\ d.readable = c.readable /\ d.started = c.started
        /\ d.saved = c.saved /\ d.old = c.old /\ d.new = c.new
        /\ d.phase = "running" /\ d.fresh = (args = << >>) /\ d.flags = flags
    BY <1>1, <1>6 DEF Over, SettingsFields
  <2> QED BY <2>2, <2>3 DEF ReadDone
<1> QED BY <1>1, <1>3, <1>4, <1>5, <1>6

\* What a program that starts without arguments finds is what SettingsKept says.
LEMMA SeenIsKept ==
  ASSUME SettingsInv
  PROVE  LET seen == Seen(cf.backend, cf.readable, cf.store)
             new == Corrected(cf.new) IN
         /\ cf.saved = "yes" => seen = new
         /\ cf.saved \in {"no", "partly"} =>
              IF cf.backend = "windows"
              THEN \A k \in Flags : \/ seen[k] \in {cf.old[k], new[k]}
                                    \/ Lost(cf.backend, cf.store, k) /\ seen[k] = Defaults[k]
              ELSE seen \in {cf.old, new, Defaults}
<1>1. StoreTells BY DEF SettingsInv
<1>2. CASE cf.saved = "yes" BY <1>1, <1>2 DEF StoreTells, Seen
<1>3. CASE cf.saved = "no" BY <1>1, <1>3 DEF StoreTells
<1>4. CASE cf.saved = "partly" BY <1>1, <1>4 DEF StoreTells, Seen, OldOrNew
<1> QED BY <1>2, <1>3, <1>4

LEMMA LaunchInv == SettingsInv /\ Launch => SettingsInv'
<1> SUFFICES ASSUME SettingsInv, Launch PROVE SettingsInv'
  OBVIOUS
<1> DEFINE b == [cf EXCEPT !.phase = "running", !.runs = @ + 1, !.flags = Defaults, !.started = FALSE]
           Got(args) == ReadConfigFileAndArguments(b, args)
<1>1. cf.phase = "off" BY DEF Launch
<1>2. PICK args \in Arguments :
        cf' = IF Got(args).phase = "ended" THEN Got(args)
              ELSE IF cf.program = "gui" THEN [Got(args) EXCEPT !.form = LoadChanges(Got(args).flags)]
              ELSE IF ValidateConfig(Got(args).flags) THEN [Got(args) EXCEPT !.started = TRUE]
              ELSE [Got(args) EXCEPT !.phase = "ended"]
  BY DEF Launch
<1>3. SettingsTypeOK /\ StoreTells BY DEF SettingsInv
<1>4. cf.fresh = FALSE BY <1>1 DEF SettingsInv, OffIsStale, SettingsTypeOK
<1>5. /\ Over(SettingsFields, b) /\ b.phase = "running" /\ b.started = FALSE /\ b.fresh = FALSE
      /\ b.flags = Defaults /\ b.form = cf.form
      /\ b.program = cf.program /\ b.backend = cf.backend /\ b.saved = cf.saved /\ b.new = cf.new
      /\ b.old = cf.old /\ b.store = cf.store /\ b.readable = cf.readable
  BY <1>3, <1>4 DEF Over, SettingsFields, SettingsTypeOK
<1> DEFINE c == Got(args)
           seen == Seen(cf.backend, cf.readable, cf.store)
<1> HIDE DEF b
<1>6. /\ Over(SettingsFields, c)
      /\ c.program = cf.program /\ c.backend = cf.backend /\ c.form = cf.form
      /\ c.store = cf.store /\ c.readable = cf.readable /\ c.started = FALSE
      /\ c.saved = cf.saved /\ c.old = cf.old /\ c.new = cf.new
      /\ \/ c.phase = "ended" /\ c.fresh = FALSE /\ FlagsOK(c.flags)
         \/ /\ c.phase = "running" /\ c.fresh = (args = << >>)
            /\ c.flags = [k \in Flags |-> IF k \in DOMAIN args THEN args[k] ELSE seen[k]]
  <2>1. b.backend \in Backends /\ StoreOK(b.store) BY <1>3, <1>5 DEF SettingsTypeOK
  <2>2. seen = Seen(b.backend, b.readable, b.store) BY <1>5
  <2>3. c = ReadConfigFileAndArguments(b, args) OBVIOUS
  <2> HIDE DEF seen, c
  <2>4. ReadDone(b, args, seen, c) BY <1>5, <2>1, <2>2, <2>3, ReadResult
  <2> QED BY <1>5, <2>4 DEF ReadDone
<1>7. FlagsOK(seen) BY <1>3, SeenOK DEF SettingsTypeOK
<1> HIDE DEF c, seen
<1>8. FlagsOK(c.flags) BY <1>6, <1>7, ArgumentsOK
<1>9. c.fresh \in BOOLEAN /\ (c.fresh => c.phase = "running" /\ c.flags = seen)
  <2>1. args = << >> => [k \in Flags |-> IF k \in DOMAIN args THEN args[k] ELSE seen[k]] = seen
    BY <1>7 DEF FlagsOK, Over
  <2> QED BY <1>6, <2>1
<1>10. cf' = IF c.phase = "ended" THEN c
             ELSE IF cf.program = "gui" THEN [c EXCEPT !.form = LoadChanges(c.flags)]
             ELSE IF ValidateConfig(c.flags) THEN [c EXCEPT !.started = TRUE]
             ELSE [c EXCEPT !.phase = "ended"]
  BY <1>2 DEF c
\* What holds in every case.
<1>11. /\ Over(SettingsFields, cf')
       /\ cf'.program = cf.program /\ cf'.backend = cf.backend /\ cf'.flags = c.flags
       /\ cf'.store = cf.store /\ cf'.readable = cf.readable
       /\ cf'.saved = cf.saved /\ cf'.old = cf.old /\ cf'.new = cf.new /\ cf'.fresh = c.fresh
       /\ cf'.phase \in {"running", "ended"} /\ cf'.form \in {cf.form, LoadChanges(c.flags)}
       /\ cf'.started \in BOOLEAN /\ (cf'.started => ValidateConfig(c.flags))
  <2>1. CASE c.phase = "ended" BY <1>6, <1>10, <2>1
  <2>2. CASE c.phase = "running" /\ cf' = [c EXCEPT !.form = LoadChanges(c.flags)]
    BY <1>6, <2>2 DEF Over, SettingsFields
  <2>3. CASE c.phase = "running" /\ cf' = [c EXCEPT !.started = TRUE] /\ ValidateConfig(c.flags)
    BY <1>6, <2>3 DEF Over, SettingsFields
  <2>4. CASE c.phase = "running" /\ cf' = [c EXCEPT !.phase = "ended"]
    BY <1>6, <2>4 DEF Over, SettingsFields
  <2> QED BY <1>6, <1>10, <2>1, <2>2, <2>3, <2>4
<1>12. SettingsTypeOK'
  <2>1. FormOK(cf'.form) BY <1>3, <1>8, <1>11, FormOfFlags DEF SettingsTypeOK
  <2> QED BY <1>3, <1>8, <1>9, <1>11, <2>1 DEF SettingsTypeOK
<1>13. StoreTells' BY <1>3, <1>11 DEF StoreTells
<1>14. SaveGoesOn' /\ OffIsStale' BY <1>11 DEF SaveGoesOn, OffIsStale
<1>15. SettingsKept'
  <2> SUFFICES ASSUME cf'.phase = "running", cf'.fresh PROVE SettingsKept'
    BY DEF SettingsKept
  <2>1. cf'.flags = seen BY <1>9, <1>11
  <2>2. cf.saved \in {"none", "no", "partly", "yes"} BY <1>3 DEF SettingsTypeOK
  <2>3. LET new == Corrected(cf.new) IN
        /\ cf.saved = "yes" => seen = new
        /\ cf.saved \in {"no", "partly"} =>
             IF cf.backend = "windows"
             THEN \A k \in Flags : \/ seen[k] \in {cf.old[k], new[k]}
                                   \/ Lost(cf.backend, cf.store, k) /\ seen[k] = Defaults[k]
             ELSE seen \in {cf.old, new, Defaults}
    BY SeenIsKept DEF seen
  <2> QED BY <1>11, <2>1, <2>2, <2>3 DEF SettingsKept
<1>16. StartsValid'
  <2> SUFFICES ASSUME ValidateConfig(c.flags) PROVE CanWork(c.flags)
    BY <1>11 DEF StartsValid
  <2> DEFINE g == c.flags
  <2>1. FlagsOK(g) /\ ValidateConfig(g) BY <1>8
  <2> HIDE DEF g
  <2>2. g["server_port"] \in 1 .. MaxPort
    <3>1. MaxPort \in Int BY DEF MaxPort
    <3> QED BY <2>1, <3>1 DEF FlagsOK, ValidateConfig, IsPort
  <2>3. g["limit_rate"] >= 0 BY <2>1, SettingsAssumption DEF FlagsOK
  <2>4. g["server"] \notin {Empty, "too long"} BY <2>1 DEF ValidateConfig, HostFits
  <2>5. CredentialsFit(g["method"], g["username"], g["password"]) /\ DoHFits(g["doh_url"], g["dot_host"])
        /\ g["connect_timeout"] >= 0 /\ g["method"] \in Methods
    BY <2>1 DEF ValidateConfig, FlagsOK
  <2>6. CanWork(g) BY <2>2, <2>3, <2>4, <2>5, WorkParts
  <2> QED BY <2>6 DEF g
<1> QED BY <1>12, <1>13, <1>14, <1>15, <1>16 DEF SettingsInv

LEMMA SettingsStep == SettingsInv /\ [SettingsNext]_cf => SettingsInv'
<1> SUFFICES ASSUME SettingsInv, [SettingsNext]_cf PROVE SettingsInv'
  OBVIOUS
<1>1. CASE UNCHANGED cf
  BY <1>1 DEF SettingsInv, SettingsTypeOK, StoreTells, SaveGoesOn, OffIsStale, SettingsKept, StartsValid
<1> QED BY <1>1, LaunchInv, OnStartInv, OnOkayInv, SaveStepInv, KilledInv, EditInv DEF SettingsNext

\* What was saved is read back in every place and for every kind of setting,
\* and a program killed in the middle of a save leaves the old settings, the
\* new ones or, of a file, none; only the registry mixes them, key by key.
THEOREM KeptCorrect == SettingsSpec => []SettingsKept
<1>1. SettingsInv => SettingsKept BY DEF SettingsInv
<1> QED BY <1>1, SettingsStart, SettingsStep, PTL DEF SettingsSpec

\* Whatever is stored, given as an argument or typed in, nothing starts with
\* settings that cannot work.
THEOREM ValidCorrect == SettingsSpec => []StartsValid
<1>1. SettingsInv => StartsValid BY DEF SettingsInv
<1> QED BY <1>1, SettingsStart, SettingsStep, PTL DEF SettingsSpec

-----------------------------------------------------------------------------
(* Lookups of the resolver. *)

\* The records a resolver with its user can be.
Codes == {"ok", "error", "timed_out", "cancelled"}
Addresses == Families \X Nat
Object ==
  [ done_ : BOOLEAN, cb_ : Nat, expired_ : BOOLEAN, timer : Nat, endpoints_ : BOOLEAN,
    bootstrap : {"none", "waiting", "running"}, reqs_ : Seq(Nat), addrinfo_ : Seq(Addresses),
    contexts : Seq([enabled : BOOLEAN, waits : Nat]) ]
DnsRequest ==
  [ family : Families, n : Nat, cb_ : BOOLEAN,
    stage : {"posted", "connecting", "handshaking", "header", "body", "done", "closed"} ]
Resolvers ==
  [ user : {"stream", "connection", "client"}, backend : {"doh", "cares", "libc"},
    ipv6works : BOOLEAN, closed : BOOLEAN, crashed : BOOLEAN, resolver_inited_ : BOOLEAN,
    held : BOOLEAN, o : Object, name : Names, requests : Seq(DnsRequest), lookups : Nat, libc : Nat,
    posted : Seq([n : Nat, ec : Codes, results : Seq(Addresses)]),
    due : SUBSET Nat, expired : SUBSET Nat, dup_failed : BOOLEAN, misplaced : BOOLEAN,
    answers : Seq([n : Nat, ec : Codes, results : Seq(Addresses), closed : BOOLEAN]) ]

\* The addresses of lookup n, those of IPv4 first.
GoodResults(s, n) ==
  /\ \A k \in DOMAIN s : s[k][2] = n
  /\ \A j, k \in DOMAIN s : j < k /\ s[j][1] = "AAAA" => s[k][1] = "AAAA"

\* What was answered, or is about to be.
GoodAnswer(r, a) ==
  /\ a.n \in 1 .. r.lookups /\ GoodResults(a.results, a.n)
  /\ a.ec = "timed_out" => a.n \in r.expired
Answers(r) ==
  /\ Len(r.answers) <= r.lookups
  /\ \A i \in DOMAIN r.answers :
       /\ GoodAnswer(r, r.answers[i])
       /\ r.answers[i].closed => ~(r.user = "stream" /\ r.backend = "doh")
       /\ \A k \in DOMAIN r.answers : r.answers[k].n = r.answers[i].n => k = i

\* At most one answer is still to come: the one of the last lookup, from the
\* back end, from the C library or posted.
Coming(r) == r.o.cb_ # NoLookup \/ r.libc # NoLookup \/ r.posted # << >>
Outstanding(r) ==
  /\ r.o.cb_ \in {NoLookup, r.lookups} /\ r.libc \in {NoLookup, r.lookups}
  /\ Len(r.posted) <= 1
  /\ \A i \in DOMAIN r.posted : r.posted[i].n = r.lookups /\ GoodAnswer(r, r.posted[i])
  /\ r.o.cb_ # NoLookup => r.libc = NoLookup /\ r.posted = << >>
  /\ r.libc # NoLookup => r.posted = << >>
  /\ Coming(r) => Len(r.answers) < r.lookups /\ \A i \in DOMAIN r.answers : r.answers[i].n # r.lookups

\* A timer that is due while the back end is at work is of this lookup.
Timers(r) ==
  /\ r.due \subseteq r.expired /\ r.due \subseteq 1 .. r.lookups /\ r.o.timer <= r.lookups
  /\ r.o.cb_ # NoLookup => r.due \subseteq {r.o.cb_} /\ r.o.timer \in {NoLookup, r.o.cb_}

\* The requests that have not ended are those in reqs_, IPv4 first; they are of this
\* lookup if an answer is to come, and what they brought is too.
Live(r, i) == r.requests[i].cb_
RequestsKnown(r) ==
  /\ \A i \in DOMAIN r.requests :
       /\ r.requests[i].n \in 1 .. r.lookups
       /\ Live(r, i) <=> r.requests[i].stage \notin {"done", "closed"}
       /\ Live(r, i) => \E k \in DOMAIN r.o.reqs_ : r.o.reqs_[k] = i
       /\ Live(r, i) /\ r.o.cb_ # NoLookup => r.requests[i].n = r.lookups
  /\ \A k \in DOMAIN r.o.reqs_ : r.o.reqs_[k] \in DOMAIN r.requests /\ Live(r, r.o.reqs_[k])
  /\ Len(r.o.reqs_) <= 2
  /\ Len(r.o.reqs_) = 2 =>
       r.requests[r.o.reqs_[1]].family = "A" /\ r.requests[r.o.reqs_[2]].family = "AAAA"
  /\ r.o.cb_ # NoLookup => GoodResults(r.o.addrinfo_, r.lookups)
  /\ r.o.bootstrap # "none" => r.o.reqs_ = << >> /\ r.lookups > 0

\* After a lookup that succeeded nothing is left over for the next one.
Left(r) == r.answers # << >> /\ r.answers[Len(r.answers)].ec = "ok" /\ r.o.cb_ = NoLookup
NothingLeft(r) == Left(r) => r.o.addrinfo_ = << >> /\ r.o.reqs_ = << >> /\ r.o.bootstrap = "none"

\* What each back end uses.
BackEnd(r) ==
  /\ r.o.cb_ # NoLookup => ~r.o.done_
  /\ r.backend = "doh" => r.libc = NoLookup /\ r.posted = << >> /\ r.o.contexts = << >>
  /\ r.backend # "doh" => /\ r.requests = << >> /\ r.o.reqs_ = << >> /\ r.o.addrinfo_ = << >>
                          /\ r.o.bootstrap = "none"
                          /\ ~r.o.done_ => r.o.cb_ # NoLookup /\ ~r.o.expired_
                          /\ r.o.done_ => \A i \in DOMAIN r.o.contexts : ~r.o.contexts[i].enabled

\* What each user does.
User(r) ==
  /\ r.held => r.lookups > 0
  /\ r.user = "connection" => /\ r.resolver_inited_ <=> r.lookups > 0
                              /\ r.answers # << >> => ~r.held
  /\ r.user = "stream" => r.lookups <= 1
  /\ r.user = "stream" /\ r.o.cb_ # NoLookup => r.held /\ (r.backend = "doh" => ~r.closed)

\* The inductive invariant, and the part that holds when an answer is about to be
\* given as well.
Sound(r) ==
  /\ r \in Resolvers /\ ~r.misplaced
  /\ Answers(r) /\ Outstanding(r) /\ Timers(r) /\ RequestsKnown(r) /\ BackEnd(r) /\ User(r)
ResolverInv == Sound(rs) /\ NothingLeft(rs)

\* A resolver nobody has used yet.
LEMMA ResolverStart == ResolverInit => ResolverInv
<1> SUFFICES ASSUME NEW u \in Users, NEW b \in BackEnds, NEW v \in BOOLEAN, rs = InitialResolver(u, b, v)
             PROVE  ResolverInv
  BY DEF ResolverInit
<1>1. u \in {"stream", "connection", "client"} /\ b \in {"doh", "cares", "libc"}
  BY ResolverAssumption
<1>2. NewResolver \in Object
  BY DEF NewResolver, Object, NoLookup
<1>3. rs \in Resolvers
  BY <1>1, <1>2 DEF InitialResolver, Resolvers, Names, NoLookup
<1>4. Answers(rs) /\ Timers(rs) /\ NothingLeft(rs) /\ User(rs)
  BY DEF InitialResolver, NewResolver, Answers, Timers, NothingLeft, Left, User, NoLookup
<1>5. Outstanding(rs) /\ RequestsKnown(rs) /\ BackEnd(rs) /\ ~rs.misplaced
  BY DEF InitialResolver, NewResolver, Outstanding, Coming, RequestsKnown, BackEnd, NoLookup
<1> QED BY <1>3, <1>4, <1>5 DEF ResolverInv, Sound

\* The answer that was to come is given (Answered).
MayAnswer(r, n, ec, results) ==
  /\ n = r.lookups /\ n > 0 /\ ec \in Codes /\ results \in Seq(Addresses) /\ GoodResults(results, n)
  /\ ec = "timed_out" => n \in r.expired
  /\ r.closed => ~(r.user = "stream" /\ r.backend = "doh")
  /\ ~Coming(r) /\ Len(r.answers) < r.lookups /\ \A i \in DOMAIN r.answers : r.answers[i].n # n
  /\ ec = "ok" => r.o.addrinfo_ = << >> /\ r.o.reqs_ = << >> /\ r.o.bootstrap = "none"

\* Giving that answer keeps the invariant, and nothing is left for the next lookup.
LEMMA AnsweredSound ==
  ASSUME NEW r, Sound(r), NEW n, NEW ec, NEW results, MayAnswer(r, n, ec, results)
  PROVE  /\ Sound(Answered(r, n, ec, results)) /\ NothingLeft(Answered(r, n, ec, results))
         /\ ec # "ok" => ~Left(Answered(r, n, ec, results))
<1> DEFINE a == [n |-> n, ec |-> ec, results |-> results, closed |-> r.closed]
           all == Append(r.answers, a)
           x == Answered(r, n, ec, results)
<1>1. r \in Resolvers BY DEF Sound
<1>2. x = [r EXCEPT !.answers = all, !.held = IF r.user = "connection" THEN FALSE ELSE r.held]
  BY <1>1 DEF Answered, Reset, Resolvers
<1>3. a \in [n : Nat, ec : Codes, results : Seq(Addresses), closed : BOOLEAN]
  BY <1>1 DEF MayAnswer, Resolvers
<1>4. /\ r.answers \in Seq([n : Nat, ec : Codes, results : Seq(Addresses), closed : BOOLEAN])
      /\ r.lookups \in Nat
  BY <1>1 DEF Resolvers
<1> HIDE DEF a
<1>5. /\ all \in Seq([n : Nat, ec : Codes, results : Seq(Addresses), closed : BOOLEAN])
      /\ Len(all) = Len(r.answers) + 1 /\ Len(r.answers) \in Nat
      /\ DOMAIN r.answers = 1 .. Len(r.answers) /\ DOMAIN all = 1 .. Len(r.answers) + 1
      /\ all[Len(r.answers) + 1] = a
  BY <1>3, <1>4, AppendProperties, LenProperties
<1>18. \A i \in DOMAIN r.answers : all[i] = r.answers[i]
  BY <1>3, <1>4, AppendProperties, LenProperties
<1> HIDE DEF all
<1>16. \A i \in DOMAIN all : i \in DOMAIN r.answers \/ i = Len(r.answers) + 1
  <2> SUFFICES ASSUME NEW i \in DOMAIN all
               PROVE  i \in DOMAIN r.answers \/ i = Len(r.answers) + 1
    OBVIOUS
  <2>1. i \in 1 .. Len(r.answers) + 1 BY <1>5
  <2>2. i \in 1 .. Len(r.answers) \/ i = Len(r.answers) + 1 BY <2>1, <1>5
  <2> QED BY <2>2, <1>5
<1>17. \A i \in DOMAIN all : (i \in DOMAIN r.answers /\ all[i] = r.answers[i]) \/ (i = Len(r.answers) + 1 /\ all[i] = a)
  <2> SUFFICES ASSUME NEW i \in DOMAIN all
               PROVE  (i \in DOMAIN r.answers /\ all[i] = r.answers[i]) \/ (i = Len(r.answers) + 1 /\ all[i] = a)
    OBVIOUS
  <2>1. CASE i \in DOMAIN r.answers BY <2>1, <1>18
  <2>2. CASE i = Len(r.answers) + 1 BY <2>2, <1>5
  <2> QED BY <2>1, <2>2, <1>16
<1>6. /\ x.user = r.user /\ x.backend = r.backend /\ x.closed = r.closed /\ x.lookups = r.lookups /\ x.o = r.o
      /\ x.libc = r.libc /\ x.posted = r.posted /\ x.due = r.due /\ x.expired = r.expired /\ x.requests = r.requests
      /\ x.misplaced = r.misplaced /\ x.answers = all /\ x.resolver_inited_ = r.resolver_inited_
      /\ x.held = IF r.user = "connection" THEN FALSE ELSE r.held
  BY <1>1, <1>2 DEF Resolvers
<1>7. x \in Resolvers
  BY <1>1, <1>2, <1>5 DEF Resolvers
<1> HIDE DEF x
<1>8. a.n = n /\ a.ec = ec /\ a.results = results /\ a.closed = r.closed BY DEF a
<1>9. GoodAnswer(x, a)
  BY <1>4, <1>6, <1>8 DEF MayAnswer, GoodAnswer
<1>10. Answers(x)
  <2>1. Len(x.answers) <= x.lookups BY <1>4, <1>5, <1>6 DEF MayAnswer
  <2>2. \A i \in DOMAIN r.answers : GoodAnswer(x, r.answers[i])
    BY <1>6 DEF Sound, Answers, GoodAnswer
  <2>3. \A i \in DOMAIN all : GoodAnswer(x, all[i])
    BY <1>17, <1>9, <2>2
  <2>4. \A i \in DOMAIN all : all[i].closed => ~(r.user = "stream" /\ r.backend = "doh")
    BY <1>17, <1>8 DEF Sound, Answers, MayAnswer
  <2>5. \A i, k \in DOMAIN all : all[k].n = all[i].n => k = i
    BY <1>17, <1>8 DEF Sound, Answers, MayAnswer
  <2> QED BY <2>1, <2>3, <2>4, <2>5, <1>6 DEF Answers
<1>11. Outstanding(x) /\ Timers(x) /\ RequestsKnown(x) /\ BackEnd(x) /\ User(x) /\ ~x.misplaced
  <2>1. Outstanding(x) BY <1>6 DEF Sound, Outstanding, Coming, MayAnswer, GoodAnswer
  <2>2. Timers(x) /\ BackEnd(x) /\ ~x.misplaced BY <1>6 DEF Sound, Timers, BackEnd
  <2>3. RequestsKnown(x) BY <1>6 DEF Sound, RequestsKnown, Live
  <2>4. User(x) BY <1>6 DEF Sound, User
  <2> QED BY <2>1, <2>2, <2>3, <2>4
<1>12. x.answers[Len(x.answers)].ec = ec BY <1>5, <1>6, <1>8
<1>13. NothingLeft(x) BY <1>6, <1>12 DEF NothingLeft, Left, MayAnswer
<1>14. ec # "ok" => ~Left(x) BY <1>12 DEF Left
<1>15. Sound(x) BY <1>7, <1>10, <1>11 DEF Sound
<1> QED BY <1>13, <1>14, <1>15 DEF x

\* A table with n rows is a sequence.
LEMMA TableSeq == ASSUME NEW S, NEW n \in Nat, NEW f \in [1 .. n -> S] PROVE f \in Seq(S)
BY SeqDef

\* Requests that are closed: none is left in reqs_.
LEMMA ClosedSound ==
  ASSUME NEW r, Sound(r), NothingLeft(r)
  PROVE  LET x == CloseRequests([r EXCEPT !.o.reqs_ = << >>], r.o.reqs_) IN
         /\ Sound(x) /\ NothingLeft(x)
         /\ x.o = [r.o EXCEPT !.reqs_ = << >>]
         /\ x = [r EXCEPT !.o.reqs_ = << >>, !.requests = x.requests]
         /\ DOMAIN x.requests = DOMAIN r.requests
         /\ \A i \in DOMAIN x.requests : ~Live(x, i)
<1> DEFINE y == [r EXCEPT !.o.reqs_ = << >>]
           x == CloseRequests(y, r.o.reqs_)
           q == [i \in DOMAIN r.requests |->
                   IF \E k \in DOMAIN r.o.reqs_ : r.o.reqs_[k] = i
                   THEN [r.requests[i] EXCEPT !.cb_ = FALSE, !.stage = "closed"] ELSE r.requests[i]]
<1>1. r \in Resolvers /\ r.o \in Object /\ r.requests \in Seq(DnsRequest) BY DEF Sound, Resolvers
<1>2. y.requests = r.requests /\ y.o = [r.o EXCEPT !.reqs_ = << >>] /\ y.o.reqs_ = << >>
  BY <1>1 DEF Resolvers, Object
<1>3. x = [r EXCEPT !.o.reqs_ = << >>, !.requests = q]
  BY <1>1, <1>2 DEF CloseRequests, Resolvers
<1>4. DOMAIN r.requests = 1 .. Len(r.requests) /\ Len(r.requests) \in Nat /\ \A i \in DOMAIN r.requests : r.requests[i] \in DnsRequest
  BY <1>1, ElementOfSeq, LenProperties
<1>5. \A i \in DOMAIN r.requests : q[i] \in DnsRequest
  BY <1>4 DEF DnsRequest
<1>6. q \in Seq(DnsRequest)
  <2>1. q \in [1 .. Len(r.requests) -> DnsRequest] BY <1>4, <1>5
  <2> QED BY <2>1, <1>4, TableSeq
<1>7. [r.o EXCEPT !.reqs_ = << >>] \in Object
  <2>1. << >> \in Seq(Nat) BY EmptySeq
  <2> QED BY <2>1, <1>1 DEF Object
<1>8. x \in Resolvers
  BY <1>1, <1>3, <1>6, <1>7 DEF Resolvers
<1>9. /\ x.user = r.user /\ x.backend = r.backend /\ x.closed = r.closed /\ x.lookups = r.lookups
      /\ x.o = [r.o EXCEPT !.reqs_ = << >>]
      /\ x.libc = r.libc /\ x.posted = r.posted /\ x.due = r.due /\ x.expired = r.expired /\ x.requests = q
      /\ x.misplaced = r.misplaced /\ x.answers = r.answers /\ x.resolver_inited_ = r.resolver_inited_
      /\ x.held = r.held
  BY <1>1, <1>3 DEF Resolvers
<1>10. /\ x.o.reqs_ = << >> /\ x.o.cb_ = r.o.cb_ /\ x.o.done_ = r.o.done_ /\ x.o.expired_ = r.o.expired_
       /\ x.o.timer = r.o.timer /\ x.o.bootstrap = r.o.bootstrap /\ x.o.addrinfo_ = r.o.addrinfo_
       /\ x.o.contexts = r.o.contexts
  BY <1>1, <1>9 DEF Object
<1>11. \A i \in DOMAIN q : q[i].n = r.requests[i].n /\ ~q[i].cb_ /\ q[i].stage \in {"done", "closed"}
  <2> SUFFICES ASSUME NEW i \in DOMAIN r.requests
               PROVE  q[i].n = r.requests[i].n /\ ~q[i].cb_ /\ q[i].stage \in {"done", "closed"}
    OBVIOUS
  <2>1. CASE \E k \in DOMAIN r.o.reqs_ : r.o.reqs_[k] = i
    <3>1. q[i] = [r.requests[i] EXCEPT !.cb_ = FALSE, !.stage = "closed"] BY <2>1
    <3> QED BY <3>1, <1>4 DEF DnsRequest
  <2>2. CASE ~\E k \in DOMAIN r.o.reqs_ : r.o.reqs_[k] = i
    <3>1. q[i] = r.requests[i] BY <2>2
    <3> QED BY <3>1, <2>2 DEF Sound, RequestsKnown, Live
  <2> QED BY <2>1, <2>2
<1>12. x = [r EXCEPT !.o.reqs_ = << >>, !.requests = x.requests] BY <1>3, <1>9
<1>13. DOMAIN q = DOMAIN r.requests OBVIOUS
<1> HIDE DEF x, y, q
<1>14. Answers(x) /\ Timers(x) /\ User(x) /\ ~x.misplaced
  BY <1>9, <1>10 DEF Sound, Answers, GoodAnswer, Timers, User
<1>15. Outstanding(x)
  BY <1>9, <1>10 DEF Sound, Outstanding, Coming, GoodAnswer
<1>16. RequestsKnown(x)
  BY <1>9, <1>10, <1>11, <1>13 DEF Sound, RequestsKnown, Live
<1>17. BackEnd(x)
  <2>1. r.requests = << >> => q = << >> BY <1>13, <1>6, <1>4
  <2> QED BY <1>9, <1>10, <2>1 DEF Sound, BackEnd
<1>18. NothingLeft(x) BY <1>9, <1>10 DEF NothingLeft, Left
<1>19. Sound(x) BY <1>8, <1>14, <1>15, <1>16, <1>17 DEF Sound
<1>20. \A i \in DOMAIN x.requests : ~Live(x, i) BY <1>9, <1>11 DEF Live
<1> QED BY <1>9, <1>12, <1>13, <1>18, <1>19, <1>20 DEF x, y

\* What a step of a back end leaves alone.
SameLookup(x, r) ==
  /\ x.user = r.user /\ x.backend = r.backend /\ x.lookups = r.lookups /\ x.name = r.name
  /\ x.ipv6works = r.ipv6works /\ x.o.bootstrap = r.o.bootstrap /\ DOMAIN x.requests = DOMAIN r.requests

\* An error or the last request ends the lookup (OnDoRequestDone).
LEMMA DoneSound ==
  ASSUME NEW r, Sound(r), NothingLeft(r), r.backend = "doh", NEW ec \in {"ok", "error", "timed_out"},
         ec = "timed_out" /\ r.o.cb_ # NoLookup => r.o.cb_ \in r.expired,
         ec = "ok" => r.o.bootstrap = "none"
  PROVE  LET x == OnDoRequestDone(r, ec) IN
         /\ Sound(x) /\ NothingLeft(x) /\ SameLookup(x, r)
         /\ IF ec = "ok" THEN x.o.reqs_ = r.o.reqs_
            ELSE x.o.reqs_ = << >> /\ (~Left(r) => ~Left(x))
<1> DEFINE x == OnDoRequestDone(r, ec)
           t == IF ec = "ok" THEN r ELSE CloseRequests([r EXCEPT !.o.reqs_ = << >>], r.o.reqs_)
           d == CancelTimer([t EXCEPT !.o.done_ = TRUE, !.o.addrinfo_ = << >>, !.o.cb_ = NoLookup])
           e == IF ec = "ok" /\ t.o.addrinfo_ = << >> THEN "error" ELSE ec
<1>1. x = IF t.o.reqs_ # << >> \/ t.o.done_ THEN t
          ELSE IF t.o.cb_ = NoLookup THEN d ELSE Answered(d, t.o.cb_, e, t.o.addrinfo_)
  BY DEF OnDoRequestDone
<1>2. r \in Resolvers /\ r.o \in Object BY DEF Sound, Resolvers
<1>3. /\ Sound(t) /\ NothingLeft(t) /\ SameLookup(t, r) /\ t.expired = r.expired /\ t.answers = r.answers
      /\ t.o.cb_ = r.o.cb_ /\ t.closed = r.closed
      /\ IF ec = "ok" THEN t.o.reqs_ = r.o.reqs_ ELSE t.o.reqs_ = << >>
  <2>1. CASE ec = "ok" BY <2>1 DEF SameLookup
  <2>2. CASE ec # "ok"
    <3> DEFINE c == CloseRequests([r EXCEPT !.o.reqs_ = << >>], r.o.reqs_)
    <3>1. /\ Sound(c) /\ NothingLeft(c) /\ c.o = [r.o EXCEPT !.reqs_ = << >>]
          /\ c = [r EXCEPT !.o.reqs_ = << >>, !.requests = c.requests]
          /\ DOMAIN c.requests = DOMAIN r.requests
      BY ClosedSound
    <3> HIDE DEF c
    <3>2. /\ c.user = r.user /\ c.backend = r.backend /\ c.lookups = r.lookups /\ c.name = r.name
          /\ c.ipv6works = r.ipv6works /\ c.expired = r.expired /\ c.answers = r.answers /\ c.closed = r.closed
      BY <3>1, <1>2 DEF Resolvers
    <3>3. c.o.reqs_ = << >> /\ c.o.cb_ = r.o.cb_ /\ c.o.bootstrap = r.o.bootstrap
      BY <3>1, <1>2 DEF Object
    <3>4. t = c BY <2>2 DEF c
    <3> HIDE DEF t
    <3> QED BY <2>2, <3>1, <3>2, <3>3, <3>4 DEF SameLookup
  <2> QED BY <2>1, <2>2
<1> HIDE DEF t
<1>4. ~Left(r) => ~Left(t) BY <1>3 DEF Left
<1>5. CASE t.o.reqs_ # << >> \/ t.o.done_
  <2>1. x = t BY <1>1, <1>5
  <2> QED BY <2>1, <1>3, <1>4
<1>6. CASE t.o.reqs_ = << >> /\ ~t.o.done_
  <2>1. t \in Resolvers /\ t.o \in Object BY <1>3 DEF Sound, Resolvers
  <2> DEFINE o == [t.o EXCEPT !.done_ = TRUE, !.addrinfo_ = << >>, !.cb_ = NoLookup, !.timer = NoLookup]
  <2>2. d = [t EXCEPT !.o = o] BY <2>1 DEF CancelTimer, Resolvers, Object
  <2>3. o \in Object
    <3>1. << >> \in Seq(Addresses) BY EmptySeq
    <3> QED BY <3>1, <2>1 DEF Object, NoLookup
  <2>4. d \in Resolvers BY <2>1, <2>2, <2>3 DEF Resolvers
  <2>5. /\ d.user = t.user /\ d.backend = t.backend /\ d.closed = t.closed /\ d.lookups = t.lookups /\ d.o = o
        /\ d.libc = t.libc /\ d.posted = t.posted /\ d.due = t.due /\ d.expired = t.expired /\ d.requests = t.requests
        /\ d.misplaced = t.misplaced /\ d.answers = t.answers /\ d.resolver_inited_ = t.resolver_inited_
        /\ d.held = t.held /\ d.name = t.name /\ d.ipv6works = t.ipv6works
    BY <2>1, <2>2 DEF Resolvers
  <2>6. /\ d.o.reqs_ = << >> /\ d.o.cb_ = NoLookup /\ d.o.done_ = TRUE /\ d.o.expired_ = t.o.expired_
        /\ d.o.timer = NoLookup /\ d.o.bootstrap = t.o.bootstrap /\ d.o.addrinfo_ = << >>
        /\ d.o.contexts = t.o.contexts
    <3> HIDE DEF d
    <3>1. /\ o.reqs_ = t.o.reqs_ /\ o.cb_ = NoLookup /\ o.done_ = TRUE /\ o.expired_ = t.o.expired_
          /\ o.timer = NoLookup /\ o.bootstrap = t.o.bootstrap /\ o.addrinfo_ = << >> /\ o.contexts = t.o.contexts
      BY <2>1 DEF Object
    <3> HIDE DEF o
    <3> QED BY <1>6, <2>5, <3>1
  <2>7. t.lookups \in Nat /\ t.backend = "doh" BY <1>3, <2>1 DEF Resolvers, SameLookup
  <2> HIDE DEF d, o
  <2>8. Sound(d)
    <3>1. Answers(d) /\ User(d) /\ ~d.misplaced
      BY <1>3, <2>5, <2>6 DEF Sound, Answers, GoodAnswer, User
    <3>2. Timers(d) BY <1>3, <2>5, <2>6, <2>7 DEF Sound, Timers, NoLookup
    <3>3. Outstanding(d)
      BY <1>3, <2>5, <2>6, <2>7 DEF Sound, Outstanding, Coming, BackEnd, GoodAnswer
    <3>4. RequestsKnown(d)
      BY <1>3, <1>6, <2>5, <2>6 DEF Sound, RequestsKnown, Live
    <3>5. BackEnd(d) BY <1>3, <2>5, <2>6, <2>7 DEF Sound, BackEnd
    <3> QED BY <2>4, <3>1, <3>2, <3>3, <3>4, <3>5 DEF Sound
  <2>9. SameLookup(d, r) BY <1>3, <2>5, <2>6 DEF SameLookup
  <2>10. CASE t.o.cb_ = NoLookup
    <3>1. x = d BY <1>1, <1>6, <2>10
    <3>2. Left(d) => Left(t) BY <2>5, <2>10 DEF Left
    <3>3. NothingLeft(d) BY <3>2, <1>3, <2>6 DEF NothingLeft
    <3> QED BY <3>1, <3>2, <3>3, <2>8, <2>9, <1>3, <1>4, <1>6, <2>6
  <2>11. CASE t.o.cb_ # NoLookup
    <3>1. x = Answered(d, t.o.cb_, e, t.o.addrinfo_) BY <1>1, <1>6, <2>11
    <3>2. /\ t.o.cb_ = d.lookups /\ d.lookups \in Nat \ {0} /\ Len(d.answers) < d.lookups
          /\ \A i \in DOMAIN d.answers : d.answers[i].n # d.lookups
      BY <1>3, <2>5, <2>7, <2>11 DEF Sound, Outstanding, Coming, NoLookup
    <3>3. t.o.addrinfo_ \in Seq(Addresses) /\ GoodResults(t.o.addrinfo_, t.o.cb_)
      BY <1>3, <2>1, <2>5, <2>11, <3>2 DEF Sound, RequestsKnown, Object
    <3>4. d.closed => ~(d.user = "stream" /\ d.backend = "doh")
      BY <1>3, <2>5, <2>11 DEF Sound, User
    <3>5. ~Coming(d)
      BY <1>3, <2>5, <2>6, <2>7 DEF Sound, BackEnd, Coming
    <3>6. e \in Codes /\ (e = "timed_out" => t.o.cb_ \in d.expired)
      BY <1>3, <2>5, <2>11 DEF Codes
    <3>7. e = "ok" => d.o.addrinfo_ = << >> /\ d.o.reqs_ = << >> /\ d.o.bootstrap = "none"
      BY <1>3, <2>6 DEF SameLookup
    <3>8. MayAnswer(d, t.o.cb_, e, t.o.addrinfo_)
      BY <3>2, <3>3, <3>4, <3>5, <3>6, <3>7 DEF MayAnswer
    <3>9. Sound(x) /\ NothingLeft(x) /\ (e # "ok" => ~Left(x))
      BY <2>8, <3>1, <3>8, AnsweredSound
    <3>10. /\ x.o = d.o /\ x.user = d.user /\ x.backend = d.backend /\ x.lookups = d.lookups /\ x.name = d.name
           /\ x.ipv6works = d.ipv6works /\ x.requests = d.requests
      BY <3>1, <2>4 DEF Answered, Reset, Resolvers
    <3>11. SameLookup(x, r) BY <3>10, <2>9 DEF SameLookup
    <3>12. e = "ok" => ec = "ok" OBVIOUS
    <3> QED BY <3>9, <3>10, <3>11, <3>12, <1>3, <1>6, <2>6
  <2> QED BY <2>10, <2>11
<1> QED BY <1>5, <1>6

\* Addresses of IPv4 go in front, addresses of IPv6 behind.
LEMMA ResultsInFront ==
  ASSUME NEW n \in Nat, NEW s \in Seq(Addresses), GoodResults(s, n),
         NEW a \in Seq(Addresses), \A k \in DOMAIN a : a[k] = <<"A", n>>
  PROVE  a \o s \in Seq(Addresses) /\ GoodResults(a \o s, n)
<1> DEFINE c == a \o s
<1>1. /\ c \in Seq(Addresses) /\ Len(c) = Len(a) + Len(s) /\ Len(a) \in Nat /\ Len(s) \in Nat
      /\ DOMAIN c = 1 .. Len(c) /\ DOMAIN a = 1 .. Len(a) /\ DOMAIN s = 1 .. Len(s)
      /\ \A i \in 1 .. Len(c) : c[i] = IF i <= Len(a) THEN a[i] ELSE s[i - Len(a)]
  BY ConcatProperties, LenProperties
<1> HIDE DEF c
<1>2. \A i \in 1 .. Len(c) : IF i <= Len(a) THEN i \in DOMAIN a ELSE i - Len(a) \in DOMAIN s
  BY <1>1
<1>3. \A i \in DOMAIN c : IF i <= Len(a) THEN c[i] = <<"A", n>> ELSE i - Len(a) \in DOMAIN s /\ c[i] = s[i - Len(a)]
  BY <1>1, <1>2
<1>4. \A k \in DOMAIN c : c[k][2] = n BY <1>3 DEF GoodResults
<1>5. ASSUME NEW j \in DOMAIN c, NEW k \in DOMAIN c, j < k, c[j][1] = "AAAA" PROVE c[k][1] = "AAAA"
  <2>1. j \in Int /\ k \in Int BY <1>1
  <2>2. ~(j <= Len(a)) BY <1>3, <1>5
  <2>3. ~(k <= Len(a)) BY <1>1, <1>5, <2>1, <2>2
  <2>4. j - Len(a) < k - Len(a) BY <1>1, <1>5, <2>1
  <2> QED BY <1>3, <1>5, <2>2, <2>3, <2>4 DEF GoodResults
<1> QED BY <1>1, <1>4, <1>5 DEF c, GoodResults

\* The same for addresses of IPv6, which go behind.
LEMMA ResultsBehind ==
  ASSUME NEW n \in Nat, NEW s \in Seq(Addresses), GoodResults(s, n),
         NEW a \in Seq(Addresses), \A k \in DOMAIN a : a[k] = <<"AAAA", n>>
  PROVE  s \o a \in Seq(Addresses) /\ GoodResults(s \o a, n)
<1> DEFINE c == s \o a
<1>1. /\ c \in Seq(Addresses) /\ Len(c) = Len(s) + Len(a) /\ Len(a) \in Nat /\ Len(s) \in Nat
      /\ DOMAIN c = 1 .. Len(c) /\ DOMAIN a = 1 .. Len(a) /\ DOMAIN s = 1 .. Len(s)
      /\ \A i \in 1 .. Len(c) : c[i] = IF i <= Len(s) THEN s[i] ELSE a[i - Len(s)]
  BY ConcatProperties, LenProperties
<1> HIDE DEF c
<1>2. \A i \in 1 .. Len(c) : IF i <= Len(s) THEN i \in DOMAIN s ELSE i - Len(s) \in DOMAIN a
  BY <1>1
<1>3. \A i \in DOMAIN c : IF i <= Len(s) THEN i \in DOMAIN s /\ c[i] = s[i] ELSE c[i] = <<"AAAA", n>>
  BY <1>1, <1>2
<1>4. \A k \in DOMAIN c : c[k][2] = n BY <1>3 DEF GoodResults
<1>5. ASSUME NEW j \in DOMAIN c, NEW k \in DOMAIN c, j < k, c[j][1] = "AAAA" PROVE c[k][1] = "AAAA"
  <2>1. j \in Int /\ k \in Int BY <1>1
  <2>2. k <= Len(s) => j <= Len(s) BY <1>1, <1>5, <2>1
  <2> QED BY <1>3, <1>5, <2>2 DEF GoodResults
<1> QED BY <1>1, <1>4, <1>5 DEF c, GoodResults

\* One element less in a sequence of one or two.
Without(rest, s, id) ==
  /\ rest \in Seq(Nat) /\ Len(rest) <= 1
  /\ \A k \in DOMAIN rest : rest[k] # id /\ \E j \in DOMAIN s : s[j] = rest[k]
  /\ \A j \in DOMAIN s : s[j] # id => \E k \in DOMAIN rest : rest[k] = s[j]

\* Head and tail, and the last element and those before it.
LEMMA TakenOut ==
  ASSUME NEW s \in Seq(Nat), Len(s) \in {1, 2}, Len(s) = 2 => s[1] # s[2]
  PROVE  /\ Without(Tail(s), s, s[1])
         /\ Without(SubSeq(s, 1, Len(s) - 1), s, s[Len(s)])
<1>1. DOMAIN s = 1 .. Len(s) /\ s # << >> BY LenProperties, EmptySeq
<1>2. /\ Tail(s) \in Seq(Nat) /\ Len(Tail(s)) = Len(s) - 1
      /\ \A i \in 1 .. Len(Tail(s)) : Tail(s)[i] = s[i + 1]
  BY <1>1, HeadTailProperties
<1>3. /\ SubSeq(s, 1, Len(s) - 1) \in Seq(Nat) /\ Len(SubSeq(s, 1, Len(s) - 1)) = Len(s) - 1
      /\ \A i \in 1 .. Len(s) - 1 : SubSeq(s, 1, Len(s) - 1)[i] = s[i]
  <2>1. 1 \in 1 .. Len(s) + 1 /\ Len(s) - 1 \in 1 - 1 .. Len(s) BY <1>1
  <2> DEFINE t == SubSeq(s, 1, Len(s) - 1)
  <2>2. /\ t \in Seq(Nat) /\ Len(t) = IF 1 <= Len(s) - 1 THEN Len(s) - 1 - 1 + 1 ELSE 0
        /\ \A i \in 1 .. Len(s) - 1 - 1 + 1 : t[i] = s[1 + i - 1]
    BY <2>1, SubSeqProperties
  <2> HIDE DEF t
  <2>3. Len(t) = Len(s) - 1 BY <2>2
  <2>4. \A i \in 1 .. Len(s) - 1 : t[i] = s[i] BY <2>2
  <2> QED BY <2>2, <2>3, <2>4 DEF t
<1> DEFINE u == Tail(s) v == SubSeq(s, 1, Len(s) - 1)
<1>4. DOMAIN u = 1 .. Len(u) /\ DOMAIN v = 1 .. Len(v) BY <1>2, <1>3, LenProperties
<1>7. /\ u \in Seq(Nat) /\ Len(u) = Len(s) - 1 /\ v \in Seq(Nat) /\ Len(v) = Len(s) - 1
      /\ \A i \in 1 .. Len(u) : u[i] = s[i + 1]
      /\ \A i \in 1 .. Len(s) - 1 : v[i] = s[i]
  BY <1>2, <1>3
<1> HIDE DEF u, v
<1>5. CASE Len(s) = 1
  <2>1. Len(u) = 0 /\ Len(v) = 0 BY <1>5, <1>7
  <2>2. DOMAIN u = {} /\ DOMAIN v = {} BY <1>4, <2>1
  <2>3. \A j \in DOMAIN s : j = 1 BY <1>1, <1>5
  <2>4. Without(u, s, s[1]) /\ Without(v, s, s[Len(s)]) BY <2>1, <2>2, <2>3, <1>5, <1>7 DEF Without
  <2> QED BY <2>4 DEF u, v
<1>6. CASE Len(s) = 2
  <2>1. Len(u) = 1 /\ Len(v) = 1 BY <1>6, <1>7
  <2>2. DOMAIN u = {1} /\ DOMAIN v = {1} BY <1>4, <2>1
  <2>3. DOMAIN s = {1, 2} BY <1>1, <1>6
  <2>4. u[1] = s[2] /\ v[1] = s[1] BY <1>6, <1>7, <2>1
  <2>5. Without(u, s, s[1]) /\ Without(v, s, s[Len(s)]) BY <2>1, <2>2, <2>3, <2>4, <1>6, <1>7 DEF Without
  <2> QED BY <2>5 DEF u, v
<1> QED BY <1>5, <1>6

\* A request that ends is taken out of reqs_, and what it brought is kept.
TakeOut(r, id, info, rest) ==
  [r EXCEPT !.requests[id].cb_ = FALSE, !.requests[id].stage = "done", !.o.addrinfo_ = info, !.o.reqs_ = rest]

\* The right request goes, and the addresses stay in order.
LEMMA RemovedSound ==
  ASSUME NEW r, Sound(r), r.backend = "doh", NEW id \in DOMAIN r.requests, Live(r, id),
         NEW rest, Without(rest, r.o.reqs_, id),
         NEW info \in Seq(Addresses), r.o.cb_ # NoLookup => GoodResults(info, r.lookups),
         ~Left(r)
  PROVE  LET x == TakeOut(r, id, info, rest) IN
         Sound(x) /\ ~Left(x) /\ SameLookup(x, r) /\ x.o.bootstrap = "none"
<1> DEFINE x == TakeOut(r, id, info, rest)
           q == [r.requests EXCEPT ![id].cb_ = FALSE, ![id].stage = "done"]
           o == [r.o EXCEPT !.addrinfo_ = info, !.reqs_ = rest]
<1>1. r \in Resolvers /\ r.o \in Object /\ r.requests \in Seq(DnsRequest) /\ r.lookups \in Nat BY DEF Sound, Resolvers
<1>2. x = [r EXCEPT !.requests = q, !.o = o] BY <1>1 DEF Resolvers, TakeOut
<1>3. /\ DOMAIN r.requests = 1 .. Len(r.requests) /\ Len(r.requests) \in Nat
      /\ \A i \in DOMAIN r.requests : r.requests[i] \in DnsRequest
  BY <1>1, ElementOfSeq, LenProperties
<1>4. /\ DOMAIN q = DOMAIN r.requests
      /\ \A i \in DOMAIN r.requests : i # id => q[i] = r.requests[i]
      /\ q[id] = [r.requests[id] EXCEPT !.cb_ = FALSE, !.stage = "done"]
  BY <1>3
<1>5. q \in Seq(DnsRequest)
  <2>1. q[id] \in DnsRequest BY <1>3, <1>4 DEF DnsRequest
  <2>2. q \in [1 .. Len(r.requests) -> DnsRequest] BY <1>3, <1>4, <2>1
  <2> HIDE DEF q
  <2> QED BY <2>2, <1>3, TableSeq
<1>6. o \in Object BY <1>1 DEF Object, Without
<1>7. x \in Resolvers BY <1>1, <1>2, <1>5, <1>6 DEF Resolvers
<1>8. /\ x.user = r.user /\ x.backend = r.backend /\ x.closed = r.closed /\ x.lookups = r.lookups /\ x.o = o
      /\ x.libc = r.libc /\ x.posted = r.posted /\ x.due = r.due /\ x.expired = r.expired /\ x.requests = q
      /\ x.misplaced = r.misplaced /\ x.answers = r.answers /\ x.resolver_inited_ = r.resolver_inited_
      /\ x.held = r.held /\ x.name = r.name /\ x.ipv6works = r.ipv6works
  BY <1>1, <1>2 DEF Resolvers
<1>9. /\ o.reqs_ = rest /\ o.cb_ = r.o.cb_ /\ o.done_ = r.o.done_ /\ o.expired_ = r.o.expired_
      /\ o.timer = r.o.timer /\ o.bootstrap = r.o.bootstrap /\ o.addrinfo_ = info /\ o.contexts = r.o.contexts
  BY <1>1 DEF Object
<1>10. /\ q[id].cb_ = FALSE /\ q[id].stage = "done" /\ q[id].n = r.requests[id].n
       /\ q[id].family = r.requests[id].family
  BY <1>3, <1>4 DEF DnsRequest
<1> HIDE DEF q, o, x
<1>11. Answers(x) /\ Timers(x) /\ User(x) /\ ~x.misplaced
  BY <1>8, <1>9 DEF Sound, Answers, GoodAnswer, Timers, User
<1>12. Outstanding(x) BY <1>8, <1>9 DEF Sound, Outstanding, Coming, GoodAnswer
<1>13. BackEnd(x) BY <1>8, <1>9 DEF Sound, BackEnd
<1>14. r.o.bootstrap = "none"
  <2>1. \E k \in DOMAIN r.o.reqs_ : r.o.reqs_[k] = id BY DEF Sound, RequestsKnown
  <2> QED BY <2>1, EmptySeq DEF Sound, RequestsKnown
<1>15. RequestsKnown(x)
  <2>1. \A i \in DOMAIN q :
          /\ q[i].n \in 1 .. r.lookups
          /\ q[i].cb_ <=> q[i].stage \notin {"done", "closed"}
          /\ q[i].cb_ => \E k \in DOMAIN rest : rest[k] = i
          /\ q[i].cb_ /\ r.o.cb_ # NoLookup => q[i].n = r.lookups
    <3> SUFFICES ASSUME NEW i \in DOMAIN q
                 PROVE  /\ q[i].n \in 1 .. r.lookups
                        /\ q[i].cb_ <=> q[i].stage \notin {"done", "closed"}
                        /\ q[i].cb_ => \E k \in DOMAIN rest : rest[k] = i
                        /\ q[i].cb_ /\ r.o.cb_ # NoLookup => q[i].n = r.lookups
      OBVIOUS
    <3>1. CASE i = id BY <3>1, <1>10 DEF Sound, RequestsKnown
    <3>2. CASE i # id
      <4>1. q[i] = r.requests[i] /\ i \in DOMAIN r.requests BY <3>2, <1>4
      <4> QED BY <4>1, <3>2 DEF Sound, RequestsKnown, Live, Without
    <3> QED BY <3>1, <3>2
  <2>2. \A k \in DOMAIN rest : rest[k] \in DOMAIN q /\ q[rest[k]].cb_
    BY <1>4 DEF Sound, RequestsKnown, Live, Without
  <2>3. Len(rest) <= 2 /\ ~(Len(rest) = 2)
    <3>1. Len(rest) \in Nat /\ Len(rest) <= 1 BY LenProperties DEF Without
    <3>2. \A m \in Nat : m <= 1 => m <= 2 /\ ~(m = 2) OBVIOUS
    <3> QED BY <3>1, <3>2
  <2>4. r.o.cb_ # NoLookup => GoodResults(info, r.lookups) OBVIOUS
  <2> QED BY <2>1, <2>2, <2>3, <2>4, <1>8, <1>9, <1>14 DEF RequestsKnown, Live
<1>16. Sound(x) BY <1>7, <1>11, <1>12, <1>13, <1>15 DEF Sound
<1>17. ~Left(x) BY <1>8, <1>9 DEF Left
<1>18. SameLookup(x, r) BY <1>4, <1>8, <1>9 DEF SameLookup
<1> QED BY <1>8, <1>9, <1>14, <1>16, <1>17, <1>18 DEF x

\* A request ends, whether or not anybody waits for it (OnDoneRequest).
LEMMA EndedSound ==
  ASSUME NEW r, Sound(r), NothingLeft(r), r.backend = "doh",
         NEW id \in DOMAIN r.requests, NEW ec \in {"ok", "error"}, NEW addrinfo \in Seq(Addresses),
         \A k \in DOMAIN addrinfo : addrinfo[k] = <<r.requests[id].family, r.requests[id].n>>
  PROVE  LET x == OnDoneRequest(r, id, ec, addrinfo) IN
         /\ Sound(x) /\ NothingLeft(x) /\ SameLookup(x, r)
         /\ ec = "error" /\ Live(r, id) => x.o.reqs_ = << >> /\ ~Left(x)
<1> DEFINE t == [r EXCEPT !.requests[id].cb_ = FALSE, !.requests[id].stage = "done"]
           x == OnDoneRequest(r, id, ec, addrinfo)
<1>1. r \in Resolvers /\ r.o \in Object /\ r.requests \in Seq(DnsRequest) /\ r.lookups \in Nat BY DEF Sound, Resolvers
<1>2. x = IF ~r.requests[id].cb_ THEN t
          ELSE IF r.requests[id].family = "A" THEN OnDoRequestDoneA(t, id, ec, addrinfo)
          ELSE OnDoRequestDoneAAAA(t, id, ec, addrinfo)
  BY DEF OnDoneRequest
<1>3. /\ DOMAIN r.requests = 1 .. Len(r.requests) /\ Len(r.requests) \in Nat
      /\ \A i \in DOMAIN r.requests : r.requests[i] \in DnsRequest
  BY <1>1, ElementOfSeq, LenProperties
<1>4. r.requests[id] \in DnsRequest /\ r.requests[id].cb_ \in BOOLEAN /\ r.requests[id].family \in Families
  BY <1>3 DEF DnsRequest
<1> DEFINE q == [r.requests EXCEPT ![id].cb_ = FALSE, ![id].stage = "done"]
<1>5. t = [r EXCEPT !.requests = q] BY <1>1 DEF Resolvers
<1>6. /\ t.user = r.user /\ t.backend = r.backend /\ t.closed = r.closed /\ t.lookups = r.lookups /\ t.o = r.o
      /\ t.libc = r.libc /\ t.posted = r.posted /\ t.due = r.due /\ t.expired = r.expired /\ t.requests = q
      /\ t.misplaced = r.misplaced /\ t.answers = r.answers /\ t.resolver_inited_ = r.resolver_inited_
      /\ t.held = r.held /\ t.name = r.name /\ t.ipv6works = r.ipv6works
  BY <1>1, <1>5 DEF Resolvers
<1>7. CASE ~Live(r, id)
  <2>1. /\ DOMAIN q = DOMAIN r.requests
        /\ \A i \in DOMAIN r.requests : i # id => q[i] = r.requests[i]
        /\ q[id] = [r.requests[id] EXCEPT !.cb_ = FALSE, !.stage = "done"]
    BY <1>3
  <2>2. /\ q[id] \in DnsRequest /\ q[id].cb_ = FALSE /\ q[id].stage = "done" /\ q[id].n = r.requests[id].n
        /\ q[id].family = r.requests[id].family
    BY <1>4, <2>1 DEF DnsRequest
  <2>3. q \in Seq(DnsRequest)
    <3>1. q \in [1 .. Len(r.requests) -> DnsRequest] BY <1>3, <2>1, <2>2
    <3> HIDE DEF q
    <3> QED BY <3>1, <1>3, TableSeq
  <2>4. t \in Resolvers BY <1>1, <1>5, <2>3 DEF Resolvers
  <2>5. x = t BY <1>2, <1>7 DEF Live
  <2>6. \A i \in DOMAIN q : q[i].cb_ = r.requests[i].cb_ /\ q[i].n = r.requests[i].n /\ q[i].family = r.requests[i].family
    BY <1>4, <1>7, <2>1, <2>2 DEF Live
  <2>7. \A i \in DOMAIN q : q[i].stage \in {"done", "closed"} <=> r.requests[i].stage \in {"done", "closed"}
    BY <1>7, <2>1, <2>2 DEF Sound, RequestsKnown
  <2> HIDE DEF q, t
  <2>8. Answers(t) /\ Timers(t) /\ User(t) /\ ~t.misplaced
    BY <1>6 DEF Sound, Answers, GoodAnswer, Timers, User
  <2>9. Outstanding(t) BY <1>6 DEF Sound, Outstanding, Coming, GoodAnswer
  <2>10. BackEnd(t) BY <1>6 DEF Sound, BackEnd
  <2>11. RequestsKnown(t) BY <1>6, <2>1, <2>6, <2>7 DEF Sound, RequestsKnown, Live
  <2>12. NothingLeft(t) BY <1>6 DEF NothingLeft, Left
  <2>13. SameLookup(t, r) BY <1>6, <2>1 DEF SameLookup
  <2> QED BY <1>7, <2>4, <2>5, <2>8, <2>9, <2>10, <2>11, <2>12, <2>13 DEF Sound
<1>8. CASE Live(r, id)
  <2> DEFINE s == r.o.reqs_
  <2>1. PICK k \in DOMAIN s : s[k] = id BY <1>8 DEF Sound, RequestsKnown
  <2>2. s \in Seq(Nat) /\ DOMAIN s = 1 .. Len(s) /\ Len(s) \in Nat BY <1>1, LenProperties DEF Object
  <2>3. Len(s) \in {1, 2}
    <3>1. Len(s) <= 2 BY DEF Sound, RequestsKnown
    <3>2. \A m \in Nat : m <= 2 /\ k \in 1 .. m => m \in {1, 2} OBVIOUS
    <3> QED BY <3>1, <3>2, <2>1, <2>2
  <2>4. Len(s) = 2 => r.requests[s[1]].family = "A" /\ r.requests[s[2]].family = "AAAA"
    BY DEF Sound, RequestsKnown
  <2>5. Len(s) = 2 => s[1] # s[2] BY <2>4
  <2>6. s # << >> BY <2>2, <2>3, EmptySeq
  <2>7. ~Left(r) BY <2>6 DEF NothingLeft
  <2>8. k \in {1, 2} /\ (Len(s) = 1 => k = 1)
    <3>1. \A m \in {1, 2} : k \in 1 .. m => k \in {1, 2} /\ (m = 1 => k = 1) OBVIOUS
    <3> QED BY <3>1, <2>1, <2>2, <2>3
  <2>9. CASE r.requests[id].family = "A"
    <3>1. s[1] = id BY <2>1, <2>3, <2>4, <2>8, <2>9
    <3>2. Head(s) = id /\ Without(Tail(s), s, id) BY <2>2, <2>3, <2>5, <3>1, TakenOut
    <3> DEFINE info == addrinfo \o r.o.addrinfo_
               u == [t EXCEPT !.o.addrinfo_ = info, !.o.reqs_ = Tail(s)]
    <3>3. info \in Seq(Addresses)
      BY <1>1, ConcatProperties DEF Object
    <3>4. r.o.cb_ # NoLookup => GoodResults(info, r.lookups)
      <4> SUFFICES ASSUME r.o.cb_ # NoLookup PROVE GoodResults(info, r.lookups) OBVIOUS
      <4>1. GoodResults(r.o.addrinfo_, r.lookups) /\ r.requests[id].n = r.lookups
        BY <1>8 DEF Sound, RequestsKnown
      <4>2. \A i \in DOMAIN addrinfo : addrinfo[i] = <<"A", r.lookups>> BY <4>1, <2>9
      <4>3. r.o.addrinfo_ \in Seq(Addresses) BY <1>1 DEF Object
      <4> QED BY <1>1, <4>1, <4>2, <4>3, ResultsInFront
    <3>5. u = TakeOut(r, id, info, Tail(s)) BY <1>1 DEF Resolvers, TakeOut
    <3>6. x = OnDoRequestDone(u, ec)
      <4>1. t.o.reqs_ = s /\ t.o.addrinfo_ = r.o.addrinfo_ BY <1>6
      <4> QED BY <4>1, <1>2, <1>8, <2>6, <2>9, <3>2 DEF OnDoRequestDoneA, Live
    <3> HIDE DEF u, info, t
    <3>7. /\ Sound(u) /\ ~Left(u) /\ SameLookup(u, r) /\ u.o.bootstrap = "none"
      BY <1>8, <2>7, <3>2, <3>3, <3>4, <3>5, RemovedSound
    <3>8. NothingLeft(u) /\ u.backend = "doh" BY <3>7 DEF NothingLeft, SameLookup
    <3>9. /\ Sound(x) /\ NothingLeft(x) /\ SameLookup(x, u)
          /\ ec # "ok" => x.o.reqs_ = << >> /\ ~Left(x)
      BY <3>6, <3>7, <3>8, DoneSound
    <3>10. SameLookup(x, r) BY <3>7, <3>9 DEF SameLookup
    <3> QED BY <3>9, <3>10
  <2>10. CASE r.requests[id].family # "A"
    <3>1. r.requests[id].family = "AAAA" BY <1>4, <2>10 DEF Families
    <3>2. s[Len(s)] = id BY <2>1, <2>3, <2>4, <2>8, <3>1
    <3>3. Without(SubSeq(s, 1, Len(s) - 1), s, id) BY <2>2, <2>3, <2>5, <3>2, TakenOut
    <3> DEFINE info == r.o.addrinfo_ \o addrinfo
               rest == SubSeq(s, 1, Len(s) - 1)
               u == [t EXCEPT !.o.addrinfo_ = info, !.o.reqs_ = rest]
    <3>4. info \in Seq(Addresses)
      BY <1>1, ConcatProperties DEF Object
    <3>5. r.o.cb_ # NoLookup => GoodResults(info, r.lookups)
      <4> SUFFICES ASSUME r.o.cb_ # NoLookup PROVE GoodResults(info, r.lookups) OBVIOUS
      <4>1. GoodResults(r.o.addrinfo_, r.lookups) /\ r.requests[id].n = r.lookups
        BY <1>8 DEF Sound, RequestsKnown
      <4>2. \A i \in DOMAIN addrinfo : addrinfo[i] = <<"AAAA", r.lookups>> BY <4>1, <3>1
      <4>3. r.o.addrinfo_ \in Seq(Addresses) BY <1>1 DEF Object
      <4> QED BY <1>1, <4>1, <4>2, <4>3, ResultsBehind
    <3>6. u = TakeOut(r, id, info, rest) BY <1>1 DEF Resolvers, TakeOut
    <3>7. x = OnDoRequestDone(u, ec)
      <4>1. t.o.reqs_ = s /\ t.o.addrinfo_ = r.o.addrinfo_ BY <1>6
      <4> QED BY <4>1, <1>2, <1>8, <2>3, <2>10, <3>2 DEF OnDoRequestDoneAAAA, Live
    <3> HIDE DEF u, info, rest, t
    <3>8. /\ Sound(u) /\ ~Left(u) /\ SameLookup(u, r) /\ u.o.bootstrap = "none"
      BY <1>8, <2>7, <3>3, <3>4, <3>5, <3>6, RemovedSound DEF rest
    <3>9. NothingLeft(u) /\ u.backend = "doh" BY <3>8 DEF NothingLeft, SameLookup
    <3>10. /\ Sound(x) /\ NothingLeft(x) /\ SameLookup(x, u)
           /\ ec # "ok" => x.o.reqs_ = << >> /\ ~Left(x)
      BY <3>7, <3>8, <3>9, DoneSound
    <3>11. SameLookup(x, r) BY <3>8, <3>10 DEF SameLookup
    <3> QED BY <3>10, <3>11
  <2> QED BY <2>9, <2>10
<1> QED BY <1>7, <1>8

\* A request is made: for IPv4 first, for IPv6 second or alone.
MayAsk(r, family) ==
  \/ r.o.reqs_ = << >>
  \/ /\ family = "AAAA" /\ Len(r.o.reqs_) = 1
     /\ r.requests[r.o.reqs_[1]].family = "A"
Asking(r) == Sound(r) /\ ~Left(r) /\ r.backend = "doh" /\ r.o.bootstrap = "none" /\ r.lookups > 0

Made(r, family) ==
  [r EXCEPT !.o.reqs_ = Append(@, Len(r.requests) + 1), !.requests = Append(@,
     [family |-> family, n |-> r.lookups, cb_ |-> TRUE,
      stage |-> IF r.name = "localhost" THEN "posted" ELSE "connecting"])]

\* The new request is the last of reqs_, and it is live.
LEMMA MadeSound ==
  ASSUME NEW r, Asking(r), NEW family \in Families, MayAsk(r, family)
  PROVE  LET x == Made(r, family)
             id == Len(r.requests) + 1
         IN /\ Asking(x) /\ id \in DOMAIN x.requests /\ Live(x, id)
            /\ family = "A" => MayAsk(x, "AAAA")
            /\ x.ipv6works = r.ipv6works /\ x.name = r.name
<1> DEFINE x == Made(r, family)
           id == Len(r.requests) + 1
           new == [family |-> family, n |-> r.lookups, cb_ |-> TRUE,
                   stage |-> IF r.name = "localhost" THEN "posted" ELSE "connecting"]
           q == Append(r.requests, new)
           s == Append(r.o.reqs_, id)
           o == [r.o EXCEPT !.reqs_ = s]
<1>1. /\ r \in Resolvers /\ r.o \in Object /\ r.requests \in Seq(DnsRequest) /\ r.lookups \in Nat
      /\ r.o.reqs_ \in Seq(Nat)
  BY DEF Asking, Sound, Resolvers, Object
<1>2. x = [r EXCEPT !.requests = q, !.o = o] BY <1>1 DEF Made, Resolvers
<1>3. new \in DnsRequest /\ new.n = r.lookups /\ new.cb_ = TRUE /\ new.family = family
      /\ new.stage \notin {"done", "closed"}
  BY <1>1 DEF DnsRequest
<1>4. id \in Nat BY <1>1, LenProperties
<1> HIDE DEF new
<1>5. /\ q \in Seq(DnsRequest) /\ DOMAIN r.requests = 1 .. Len(r.requests) /\ DOMAIN q = 1 .. Len(r.requests) + 1
      /\ Len(r.requests) \in Nat /\ q[id] = new
  BY <1>1, <1>3, AppendProperties, LenProperties
<1>6. \A i \in DOMAIN r.requests : q[i] = r.requests[i] BY <1>1, <1>3, AppendProperties, LenProperties
<1>7. id \in DOMAIN q /\ id \notin DOMAIN r.requests /\ \A i \in DOMAIN q : i \in DOMAIN r.requests \/ i = id
  <2>1. \A m \in Nat : m + 1 \in 1 .. m + 1 /\ m + 1 \notin 1 .. m
                      /\ \A i \in 1 .. m + 1 : i \in 1 .. m \/ i = m + 1
    OBVIOUS
  <2> QED BY <2>1, <1>5
<1> DEFINE m == Len(r.o.reqs_)
<1>8. /\ s \in Seq(Nat) /\ DOMAIN r.o.reqs_ = 1 .. m /\ DOMAIN s = 1 .. m + 1 /\ m \in Nat
      /\ Len(s) = m + 1 /\ s[m + 1] = id
  <2> HIDE DEF id
  <2> QED BY <1>1, <1>4, AppendProperties, LenProperties
<1>9. \A k \in DOMAIN r.o.reqs_ : s[k] = r.o.reqs_[k]
  <2> HIDE DEF id
  <2> QED BY <1>1, <1>4, AppendProperties, LenProperties
<1>10. m \in {0, 1} /\ (m = 1 => family = "AAAA" /\ r.requests[r.o.reqs_[1]].family = "A")
  BY EmptySeq, <1>1 DEF MayAsk
<1>11. /\ m + 1 \in DOMAIN s /\ \A k \in DOMAIN s : k \in DOMAIN r.o.reqs_ \/ k = m + 1
       /\ \A k \in DOMAIN r.o.reqs_ : k \in DOMAIN s
  <2>1. \A l \in Nat : l + 1 \in 1 .. l + 1
                      /\ (\A i \in 1 .. l + 1 : i \in 1 .. l \/ i = l + 1) /\ \A i \in 1 .. l : i \in 1 .. l + 1
    OBVIOUS
  <2> QED BY <2>1, <1>8
<1> HIDE DEF m, s
<1>12. o \in Object BY <1>1, <1>8 DEF Object
<1> HIDE DEF q
<1>13. x \in Resolvers BY <1>1, <1>2, <1>5, <1>12 DEF Resolvers
<1>14. /\ x.user = r.user /\ x.backend = r.backend /\ x.closed = r.closed /\ x.lookups = r.lookups /\ x.o = o
       /\ x.libc = r.libc /\ x.posted = r.posted /\ x.due = r.due /\ x.expired = r.expired /\ x.requests = q
       /\ x.misplaced = r.misplaced /\ x.answers = r.answers /\ x.resolver_inited_ = r.resolver_inited_
       /\ x.held = r.held /\ x.name = r.name /\ x.ipv6works = r.ipv6works
  BY <1>1, <1>2 DEF Resolvers
<1>15. /\ o.reqs_ = s /\ o.cb_ = r.o.cb_ /\ o.done_ = r.o.done_ /\ o.expired_ = r.o.expired_
       /\ o.timer = r.o.timer /\ o.bootstrap = r.o.bootstrap /\ o.addrinfo_ = r.o.addrinfo_ /\ o.contexts = r.o.contexts
  BY <1>1 DEF Object
<1> HIDE DEF x, o, id
<1>16. Answers(x) /\ Timers(x) /\ User(x) /\ ~x.misplaced
  BY <1>14, <1>15 DEF Asking, Sound, Answers, GoodAnswer, Timers, User
<1>17. Outstanding(x) BY <1>14, <1>15 DEF Asking, Sound, Outstanding, Coming, GoodAnswer
<1>18. BackEnd(x) BY <1>14, <1>15 DEF Asking, Sound, BackEnd
<1>19. RequestsKnown(x)
  <2>1. \A i \in DOMAIN q :
          /\ q[i].n \in 1 .. r.lookups
          /\ q[i].cb_ <=> q[i].stage \notin {"done", "closed"}
          /\ q[i].cb_ => \E k \in DOMAIN s : s[k] = i
          /\ q[i].cb_ /\ r.o.cb_ # NoLookup => q[i].n = r.lookups
    <3> SUFFICES ASSUME NEW i \in DOMAIN q
                 PROVE  /\ q[i].n \in 1 .. r.lookups
                        /\ q[i].cb_ <=> q[i].stage \notin {"done", "closed"}
                        /\ q[i].cb_ => \E k \in DOMAIN s : s[k] = i
                        /\ q[i].cb_ /\ r.o.cb_ # NoLookup => q[i].n = r.lookups
      OBVIOUS
    <3>1. CASE i = id
      <4>1. r.lookups \in 1 .. r.lookups BY <1>1 DEF Asking
      <4> QED BY <3>1, <4>1, <1>3, <1>5, <1>8, <1>11
    <3>2. CASE i # id
      <4>1. q[i] = r.requests[i] /\ i \in DOMAIN r.requests BY <3>2, <1>6, <1>7
      <4>2. Live(r, i) => \E k \in DOMAIN s : s[k] = i BY <4>1, <1>9, <1>11 DEF Asking, Sound, RequestsKnown
      <4> QED BY <4>1, <4>2 DEF Asking, Sound, RequestsKnown, Live
    <3> QED BY <3>1, <3>2
  <2>2. \A k \in DOMAIN s : s[k] \in DOMAIN q /\ q[s[k]].cb_
    <3> SUFFICES ASSUME NEW k \in DOMAIN s PROVE s[k] \in DOMAIN q /\ q[s[k]].cb_
      OBVIOUS
    <3>1. CASE k = m + 1 BY <3>1, <1>3, <1>5, <1>7, <1>8
    <3>2. CASE k # m + 1
      <4>1. k \in DOMAIN r.o.reqs_ /\ s[k] = r.o.reqs_[k] BY <3>2, <1>9, <1>11
      <4>2. s[k] \in DOMAIN r.requests /\ r.requests[s[k]].cb_ BY <4>1 DEF Asking, Sound, RequestsKnown, Live
      <4>3. DOMAIN r.requests \subseteq DOMAIN q BY <1>5
      <4> QED BY <4>2, <4>3, <1>6
    <3> QED BY <3>1, <3>2
  <2>3. Len(s) <= 2 /\ (Len(s) = 2 => q[s[1]].family = "A" /\ q[s[2]].family = "AAAA")
    <3>1. CASE m = 0 BY <3>1, <1>8
    <3>2. CASE m = 1
      <4>1. 1 \in DOMAIN r.o.reqs_ BY <3>2, <1>8
      <4>2. s[1] = r.o.reqs_[1] /\ s[1] \in DOMAIN r.requests BY <4>1, <1>9 DEF Asking, Sound, RequestsKnown
      <4>3. q[s[1]].family = "A" BY <4>2, <3>2, <1>6, <1>10
      <4>4. Len(s) = 2 /\ s[2] = id BY <3>2, <1>8
      <4> QED BY <4>3, <4>4, <3>2, <1>3, <1>5, <1>10
    <3> QED BY <3>1, <3>2, <1>10
  <2> QED BY <2>1, <2>2, <2>3, <1>14, <1>15 DEF RequestsKnown, Live, Asking, Sound
<1>20. Asking(x)
  <2>1. Sound(x) BY <1>13, <1>16, <1>17, <1>18, <1>19 DEF Sound
  <2>2. ~Left(x) BY <1>14, <1>15 DEF Left, Asking
  <2> QED BY <2>1, <2>2, <1>14, <1>15 DEF Asking
<1>21. family = "A" => MayAsk(x, "AAAA")
  <2> SUFFICES ASSUME family = "A" PROVE MayAsk(x, "AAAA") OBVIOUS
  <2>1. m = 0 BY <1>10
  <2>2. Len(s) = 1 /\ s[1] = id BY <2>1, <1>8
  <2> QED BY <2>2, <1>3, <1>5, <1>14, <1>15 DEF MayAsk
<1>22. id \in DOMAIN x.requests /\ Live(x, id) BY <1>3, <1>5, <1>7, <1>14 DEF Live
<1> QED BY <1>14, <1>20, <1>21, <1>22 DEF x, id

\* A request that is made may fail at once, which ends the lookup.
LEMMA RequestedSound ==
  ASSUME NEW r, Asking(r), NEW family \in Families, MayAsk(r, family), NEW x \in Requested(r, family)
  PROVE  Asking(x) /\ (family = "A" => MayAsk(x, "AAAA")) /\ x.ipv6works = r.ipv6works
<1> DEFINE t == Made(r, family)
           id == Len(r.requests) + 1
           failed == OnDoneRequest(t, id, "error", << >>)
<1>1. x = t \/ x = failed
  <2>1. r.name \in Names BY DEF Asking, Sound, Resolvers
  <2>2. Requested(r, family) = CASE r.name = "localhost" -> {t}
                                 [] r.name = "invalid" -> {failed}
                                 [] r.name = "name" -> {t, failed}
    BY DEF Requested, Made
  <2> HIDE DEF t, failed
  <2>3. r.name = "localhost" \/ r.name = "invalid" \/ r.name = "name" BY <2>1 DEF Names
  <2> QED BY <2>2, <2>3
<1>2. Asking(t) /\ id \in DOMAIN t.requests /\ Live(t, id) /\ (family = "A" => MayAsk(t, "AAAA")) /\ t.ipv6works = r.ipv6works
  BY MadeSound
<1> HIDE DEF t, id
<1>3. /\ Sound(failed) /\ NothingLeft(failed) /\ SameLookup(failed, t)
      /\ failed.o.reqs_ = << >> /\ ~Left(failed)
  <2>1. << >> \in Seq(Addresses) /\ DOMAIN << >> = {} BY EmptySeq
  <2>2. NothingLeft(t) BY <1>2 DEF Asking, NothingLeft
  <2> QED BY <1>2, <2>1, <2>2, EndedSound DEF Asking
<1> HIDE DEF failed
<1>4. Asking(failed) /\ MayAsk(failed, "AAAA") /\ failed.ipv6works = r.ipv6works
  BY <1>2, <1>3 DEF Asking, SameLookup, MayAsk
<1> QED BY <1>1, <1>2, <1>4

\* The requests of a lookup (DoHResolver::DoRequest).
LEMMA DoRequestSound ==
  ASSUME NEW r, Asking(r), r.o.reqs_ = << >>, NEW x \in DoRequest(r)
  PROVE  Sound(x) /\ NothingLeft(x)
<1>1. PICK t \in Requested(r, "A") : x \in IF t.ipv6works THEN Requested(t, "AAAA") ELSE {t}
  BY DEF DoRequest
<1>2. "A" \in Families /\ "AAAA" \in Families BY DEF Families
<1>3. MayAsk(r, "A") BY DEF MayAsk
<1>4. Asking(t) /\ MayAsk(t, "AAAA") BY <1>2, <1>3, RequestedSound
<1>5. Asking(x)
  <2>1. CASE x = t BY <2>1, <1>4
  <2>2. CASE x \in Requested(t, "AAAA") BY <2>2, <1>2, <1>4, RequestedSound
  <2> QED BY <1>1, <2>1, <2>2
<1> QED BY <1>5 DEF Asking, NothingLeft

\* What c-ares does with a lookup: it goes on, or it ends and its answer is posted or
\* dropped.
AresStep(x, r) ==
  /\ x \in Resolvers
  /\ x.user = r.user /\ x.backend = r.backend /\ x.lookups = r.lookups /\ x.requests = r.requests
  /\ x.libc = r.libc /\ x.expired = r.expired /\ x.misplaced = r.misplaced /\ x.answers = r.answers
  /\ x.resolver_inited_ = r.resolver_inited_ /\ x.held = r.held /\ x.due \subseteq r.due
  /\ x.o.reqs_ = r.o.reqs_ /\ x.o.addrinfo_ = r.o.addrinfo_ /\ x.o.bootstrap = r.o.bootstrap
  /\ x.o.timer \in {NoLookup, r.o.timer} \/ x.o.timer = x.o.cb_
  /\ x.o.done_ => \A i \in DOMAIN x.o.contexts : ~x.o.contexts[i].enabled
  /\ \/ /\ x.o.cb_ = r.o.cb_ /\ x.o.done_ = r.o.done_ /\ x.o.expired_ = r.o.expired_
        /\ x.posted = r.posted
     \/ /\ r.o.cb_ # NoLookup /\ x.o.cb_ = NoLookup /\ x.o.done_
        /\ \/ x.posted = << >>
           \/ /\ Len(x.posted) = 1
              /\ x.posted[1].n = r.lookups /\ GoodAnswer(r, x.posted[1])

\* Neither gives an answer twice.
LEMMA AresSound ==
  ASSUME NEW r, Sound(r), NothingLeft(r), r.backend # "doh", NEW x, AresStep(x, r)
  PROVE  Sound(x) /\ NothingLeft(x) /\ x.backend # "doh"
<1>1. /\ x \in Resolvers /\ x.o \in Object /\ r \in Resolvers /\ r.o \in Object
      /\ x.posted \in Seq([n : Nat, ec : Codes, results : Seq(Addresses)])
      /\ r.lookups \in Nat /\ r.o.cb_ \in {NoLookup, r.lookups}
      /\ r.o.timer \in Nat
  BY DEF AresStep, Sound, Resolvers, Outstanding, Object
<1>2. Answers(x) /\ ~x.misplaced
  BY DEF AresStep, Sound, Answers, GoodAnswer
<1>3. RequestsKnown(x)
  <2>1. r.requests = << >> /\ r.o.reqs_ = << >> /\ r.o.addrinfo_ = << >> /\ r.o.bootstrap = "none"
    BY DEF Sound, BackEnd
  <2>2. x.requests = << >> /\ x.o.reqs_ = << >> /\ x.o.addrinfo_ = << >> /\ x.o.bootstrap = "none"
    BY <2>1 DEF AresStep
  <2> QED BY <2>2 DEF RequestsKnown, GoodResults
<1>4. Timers(x)
  BY <1>1 DEF AresStep, Sound, Timers, NoLookup
<1>5. BackEnd(x)
  BY DEF AresStep, Sound, BackEnd
<1>6. User(x)
  BY DEF AresStep, Sound, User
<1>7. Outstanding(x)
  <2>1. CASE x.o.cb_ = r.o.cb_ /\ x.posted = r.posted
    BY <2>1 DEF AresStep, Sound, Outstanding, Coming, GoodAnswer
  <2>2. CASE r.o.cb_ # NoLookup /\ x.o.cb_ = NoLookup /\ x.posted = << >>
    BY <2>2 DEF AresStep, Sound, Outstanding, Coming, GoodAnswer
  <2>3. CASE /\ r.o.cb_ # NoLookup /\ x.o.cb_ = NoLookup /\ Len(x.posted) = 1
             /\ x.posted[1].n = r.lookups /\ GoodAnswer(r, x.posted[1])
    <3>1. DOMAIN x.posted = {1} BY <1>1, <2>3, LenProperties
    <3>2. GoodAnswer(x, x.posted[1]) BY <2>3 DEF AresStep, GoodAnswer
    <3> QED BY <2>3, <3>1, <3>2 DEF AresStep, Sound, Outstanding, Coming
  <2> QED BY <2>1, <2>2, <2>3 DEF AresStep
<1>8. NothingLeft(x)
  <2>1. r.o.reqs_ = << >> /\ r.o.addrinfo_ = << >> /\ r.o.bootstrap = "none"
    BY DEF Sound, BackEnd
  <2> QED BY <2>1 DEF NothingLeft, AresStep
<1> QED BY <1>1, <1>2, <1>3, <1>4, <1>5, <1>6, <1>7, <1>8 DEF Sound, AresStep

\* A lookup of c-ares ends (OnAsyncResolve), expired_ having been set if its time was up.
LEMMA AresEnded ==
  ASSUME NEW s, Sound(s), NothingLeft(s), s.backend # "doh", s.o.cb_ # NoLookup,
         \A i \in DOMAIN s.o.contexts : ~s.o.contexts[i].enabled,
         NEW e \in BOOLEAN, NEW status \in {"ok", "error", "cancelled"}, e => s.o.cb_ \in s.expired
  PROVE  LET x == OnAsyncResolve([s EXCEPT !.o.expired_ = e], status) IN
         Sound(x) /\ NothingLeft(x) /\ x.backend # "doh" /\ x.o.contexts = s.o.contexts
<1> DEFINE r == [s EXCEPT !.o.expired_ = e]
           x == OnAsyncResolve(r, status)
           ec == IF status # "ok" /\ e THEN "timed_out" ELSE status
           results == IF ec = "ok" THEN << <<"A", s.o.cb_>> >> ELSE << >>
           a == [n |-> s.o.cb_, ec |-> ec, results |-> results]
           o == [s.o EXCEPT !.expired_ = e, !.done_ = TRUE, !.cb_ = NoLookup, !.timer = NoLookup]
           t == [s EXCEPT !.o = o]
<1>1. /\ s \in Resolvers /\ s.o \in Object /\ s.lookups \in Nat /\ s.o.cb_ = s.lookups /\ s.lookups > 0
      /\ s.posted = << >> /\ s.expired \in SUBSET Nat
  BY DEF Sound, Resolvers, Outstanding, NoLookup
<1>2. r.o.cb_ = s.o.cb_ /\ r.o.expired_ = e /\ r.posted = s.posted BY <1>1 DEF Resolvers, Object
<1>3. CancelTimer([r EXCEPT !.o.done_ = TRUE, !.o.cb_ = NoLookup]) = t
  BY <1>1 DEF CancelTimer, Resolvers, Object
<1>4. t.posted = << >> BY <1>1 DEF Resolvers
<1>5. x = IF ec = "cancelled" THEN t ELSE [t EXCEPT !.posted = Append(<< >>, a)]
  <2> HIDE DEF r, t
  <2>1. (IF status # "ok" /\ r.o.expired_ THEN "timed_out" ELSE status) = ec BY <1>2
  <2>2. x = IF ec = "cancelled" THEN t
            ELSE [t EXCEPT !.posted = Append(t.posted, [n |-> r.o.cb_, ec |-> ec, results |->
                    IF ec = "ok" THEN << <<"A", r.o.cb_>> >> ELSE << >>])]
    <3> HIDE DEF ec
    <3> QED BY <2>1, <1>3 DEF OnAsyncResolve
  <2> QED BY <2>2, <1>2, <1>4
<1>6. o \in Object BY <1>1 DEF Object, NoLookup
<1>7. /\ o.reqs_ = s.o.reqs_ /\ o.cb_ = NoLookup /\ o.done_ /\ o.timer = NoLookup
      /\ o.bootstrap = s.o.bootstrap /\ o.addrinfo_ = s.o.addrinfo_ /\ o.contexts = s.o.contexts
  BY <1>1 DEF Object
<1>8. results \in Seq(Addresses) /\ GoodResults(results, s.o.cb_)
  <2>1. << >> \in Seq(Addresses) /\ GoodResults(<< >>, s.o.cb_) BY EmptySeq DEF GoodResults
  <2>2. << <<"A", s.o.cb_>> >> \in Seq(Addresses) /\ GoodResults(<< <<"A", s.o.cb_>> >>, s.o.cb_)
    <3>1. <<"A", s.o.cb_>> \in Addresses BY <1>1 DEF Addresses, Families
    <3>2. << <<"A", s.o.cb_>> >> \in Seq(Addresses) BY <3>1
    <3>3. GoodResults(<< <<"A", s.o.cb_>> >>, s.o.cb_) BY DEF GoodResults
    <3> QED BY <3>2, <3>3
  <2> QED BY <2>1, <2>2
<1> HIDE DEF o, results
<1>9. a \in [n : Nat, ec : Codes, results : Seq(Addresses)] BY <1>1, <1>8 DEF Codes
<1>10. a.n = s.lookups /\ GoodAnswer(s, a)
  <2>1. a.n = s.lookups /\ a.results = results /\ a.ec = ec BY <1>1
  <2>2. s.lookups \in 1 .. s.lookups BY <1>1
  <2> QED BY <1>1, <1>8, <2>1, <2>2 DEF GoodAnswer
<1> HIDE DEF a, ec
<1>11. Append(<< >>, a) = <<a>> /\ <<a>> \in Seq([n : Nat, ec : Codes, results : Seq(Addresses)])
       /\ Len(<<a>>) = 1 /\ <<a>>[1] = a
  BY <1>9
<1>12. /\ t \in Resolvers /\ t.o = o /\ t.user = s.user /\ t.backend = s.backend /\ t.lookups = s.lookups
       /\ t.requests = s.requests
       /\ t.libc = s.libc /\ t.expired = s.expired /\ t.misplaced = s.misplaced /\ t.answers = s.answers
       /\ t.resolver_inited_ = s.resolver_inited_ /\ t.held = s.held /\ t.due = s.due
  BY <1>1, <1>6 DEF Resolvers
<1> HIDE DEF t
<1>13. CASE ec = "cancelled"
  <2>1. x = t BY <1>5, <1>13
  <2>2. AresStep(t, s) BY <1>4, <1>7, <1>12 DEF AresStep
  <2> QED BY <2>1, <2>2, <1>7, <1>12, AresSound
<1>14. CASE ec # "cancelled"
  <2>1. x = [t EXCEPT !.posted = <<a>>] BY <1>5, <1>11, <1>14
  <2> HIDE DEF x
  <2>2. /\ x \in Resolvers /\ x.posted = <<a>> /\ x.o = o /\ x.user = s.user /\ x.backend = s.backend
        /\ x.lookups = s.lookups /\ x.requests = s.requests
        /\ x.libc = s.libc /\ x.expired = s.expired /\ x.misplaced = s.misplaced /\ x.answers = s.answers
        /\ x.resolver_inited_ = s.resolver_inited_ /\ x.held = s.held /\ x.due = s.due
    BY <2>1, <1>11, <1>12 DEF Resolvers
  <2>3. AresStep(x, s) BY <1>7, <1>10, <1>11, <2>2 DEF AresStep
  <2> QED BY <2>2, <2>3, <1>7, AresSound DEF x
<1> QED BY <1>13, <1>14

\* What c-ares changes of a lookup that goes on.
SocketLists == Seq([enabled : BOOLEAN, waits : Nat])
AresPut(r, cs, n, due, d, c) ==
  [r EXCEPT !.o.contexts = cs, !.o.timer = n, !.due = due, !.dup_failed = d, !.closed = c]

\* Such a change keeps the invariant.
LEMMA AresPutSound ==
  ASSUME NEW r, Sound(r), NothingLeft(r), r.backend # "doh",
         NEW cs \in SocketLists, r.o.done_ => \A i \in DOMAIN cs : ~cs[i].enabled,
         NEW n, n = NoLookup \/ n = r.o.timer \/ n = r.o.cb_, NEW due, due \subseteq r.due,
         NEW d, d \in BOOLEAN, NEW c, c \in BOOLEAN
  PROVE  LET x == AresPut(r, cs, n, due, d, c) IN
         /\ Sound(x) /\ NothingLeft(x) /\ x.backend # "doh" /\ x.o.contexts = cs /\ x.o.done_ = r.o.done_
         /\ x.o.cb_ = r.o.cb_ /\ x.expired = r.expired /\ x.o.expired_ = r.o.expired_ /\ x.lookups = r.lookups
<1> DEFINE x == AresPut(r, cs, n, due, d, c)
           o == [r.o EXCEPT !.contexts = cs, !.timer = n]
<1>1. r \in Resolvers /\ r.o \in Object /\ r.due \in SUBSET Nat BY DEF Sound, Resolvers
<1>2. x = [r EXCEPT !.o = o, !.due = due, !.dup_failed = d, !.closed = c]
  BY <1>1 DEF AresPut, Resolvers, Object
<1>3. o \in Object
  <2>1. n \in Nat BY <1>1 DEF Object, NoLookup
  <2> QED BY <2>1, <1>1 DEF Object, SocketLists
<1>4. /\ o.contexts = cs /\ o.timer = n /\ o.cb_ = r.o.cb_ /\ o.done_ = r.o.done_ /\ o.expired_ = r.o.expired_
      /\ o.reqs_ = r.o.reqs_ /\ o.addrinfo_ = r.o.addrinfo_ /\ o.bootstrap = r.o.bootstrap
  BY <1>1 DEF Object
<1> HIDE DEF o
<1>5. /\ x \in Resolvers /\ x.o = o /\ x.due = due
      /\ x.user = r.user /\ x.backend = r.backend /\ x.lookups = r.lookups /\ x.requests = r.requests
      /\ x.libc = r.libc /\ x.expired = r.expired /\ x.misplaced = r.misplaced /\ x.answers = r.answers
      /\ x.resolver_inited_ = r.resolver_inited_ /\ x.held = r.held /\ x.posted = r.posted
  <2>1. due \in SUBSET Nat BY <1>1
  <2>2. x \in Resolvers BY <2>1, <1>1, <1>2, <1>3 DEF Resolvers
  <2>3. x.o = o /\ x.due = due BY <1>1, <1>2 DEF Resolvers
  <2>4. /\ x.user = r.user /\ x.backend = r.backend /\ x.lookups = r.lookups /\ x.requests = r.requests
        /\ x.libc = r.libc /\ x.expired = r.expired /\ x.misplaced = r.misplaced /\ x.answers = r.answers
        /\ x.resolver_inited_ = r.resolver_inited_ /\ x.held = r.held /\ x.posted = r.posted
    BY <1>1, <1>2 DEF Resolvers
  <2> QED BY <2>2, <2>3, <2>4
<1> HIDE DEF x
<1>6. AresStep(x, r) BY <1>4, <1>5 DEF AresStep
<1> QED BY <1>4, <1>5, <1>6, AresSound DEF x

\* c-ares is done with its sockets (CloseSockets).
LEMMA SocketsClosed ==
  ASSUME NEW r, r \in Resolvers
  PROVE  LET cs == CloseSockets(r).o.contexts IN
         /\ cs \in SocketLists /\ DOMAIN cs = DOMAIN r.o.contexts /\ \A i \in DOMAIN cs : ~cs[i].enabled
         /\ CloseSockets(r) = [r EXCEPT !.o.contexts = cs]
<1> DEFINE cs == [i \in DOMAIN r.o.contexts |-> [r.o.contexts[i] EXCEPT !.enabled = FALSE]]
<1>1. r.o \in Object /\ r.o.contexts \in Seq([enabled : BOOLEAN, waits : Nat]) BY DEF Resolvers, Object
<1>2. /\ DOMAIN r.o.contexts = 1 .. Len(r.o.contexts) /\ Len(r.o.contexts) \in Nat
      /\ \A i \in DOMAIN r.o.contexts : r.o.contexts[i] \in [enabled : BOOLEAN, waits : Nat]
  BY <1>1, LenProperties, ElementOfSeq
<1>3. \A i \in DOMAIN r.o.contexts :
         cs[i] \in [enabled : BOOLEAN, waits : Nat] /\ ~cs[i].enabled
  BY <1>2
<1>4. cs \in SocketLists
  <2>1. cs \in [1 .. Len(r.o.contexts) -> [enabled : BOOLEAN, waits : Nat]] BY <1>2, <1>3
  <2> HIDE DEF cs
  <2> QED BY <2>1, <1>2, TableSeq DEF SocketLists
<1>5. CloseSockets(r) = [r EXCEPT !.o.contexts = cs] BY DEF CloseSockets
<1>6. DOMAIN cs = DOMAIN r.o.contexts OBVIOUS
<1> HIDE DEF cs
<1>7. CloseSockets(r).o.contexts = cs BY <1>1, <1>5 DEF Resolvers, Object
<1> QED BY <1>3, <1>4, <1>5, <1>6, <1>7

\* A lookup of c-ares is cancelled, by its user or because its time is up.
LEMMA AresCancelled ==
  ASSUME NEW s, Sound(s), NothingLeft(s), s.backend # "doh", ~s.o.done_,
         NEW e \in BOOLEAN, e => s.o.cb_ \in s.expired
  PROVE  LET x == AresCancel([s EXCEPT !.o.expired_ = e]) IN
         Sound(x) /\ NothingLeft(x) /\ x.backend # "doh" /\ DOMAIN x.o.contexts = DOMAIN s.o.contexts
<1> DEFINE r == [s EXCEPT !.o.expired_ = e]
           cs == CloseSockets(r).o.contexts
           u == AresPut(s, cs, NoLookup, s.due, s.dup_failed, s.closed)
           x == AresCancel(r)
<1>1. s \in Resolvers /\ s.o \in Object /\ s.dup_failed \in BOOLEAN /\ s.closed \in BOOLEAN
  BY DEF Sound, Resolvers
<1>2. /\ r \in Resolvers /\ r.o = [s.o EXCEPT !.expired_ = e]
  BY <1>1 DEF Resolvers, Object
<1>3. ~r.o.done_ /\ r.o.contexts = s.o.contexts BY <1>1, <1>2 DEF Object
<1>4. /\ cs \in SocketLists /\ DOMAIN cs = DOMAIN r.o.contexts /\ \A i \in DOMAIN cs : ~cs[i].enabled
      /\ CloseSockets(r) = [r EXCEPT !.o.contexts = cs]
  BY <1>2, SocketsClosed
<1>5. s.o.cb_ # NoLookup BY DEF Sound, BackEnd
<1> HIDE DEF cs
<1>6. CancelTimer(CloseSockets(r)) = [u EXCEPT !.o.expired_ = e]
  <2> DEFINE o == [s.o EXCEPT !.contexts = cs, !.timer = NoLookup]
             oe == [s.o EXCEPT !.expired_ = e, !.contexts = cs]
  <2>1. u = [s EXCEPT !.o = o] BY <1>1 DEF AresPut, Resolvers, Object
  <2>2. CloseSockets(r) = [s EXCEPT !.o = oe] BY <1>1, <1>4 DEF Resolvers, Object
  <2>3. [o EXCEPT !.expired_ = e] = [oe EXCEPT !.timer = NoLookup] BY <1>1 DEF Object
  <2> HIDE DEF o, oe, u, r
  <2>4. [u EXCEPT !.o.expired_ = e] = [s EXCEPT !.o = [o EXCEPT !.expired_ = e]] BY <1>1, <2>1 DEF Resolvers
  <2>5. CancelTimer(CloseSockets(r)) = [s EXCEPT !.o = [oe EXCEPT !.timer = NoLookup]]
    BY <1>1, <2>2 DEF CancelTimer, Resolvers
  <2> QED BY <2>3, <2>4, <2>5
<1>7. x = OnAsyncResolve([u EXCEPT !.o.expired_ = e], "cancelled")
  BY <1>3, <1>6 DEF AresCancel
<1>8. /\ Sound(u) /\ NothingLeft(u) /\ u.backend # "doh" /\ u.o.contexts = cs
      /\ u.o.cb_ = s.o.cb_ /\ u.expired = s.expired
  BY <1>1, <1>4, AresPutSound
<1> HIDE DEF u, r
<1>9. Sound(x) /\ NothingLeft(x) /\ x.backend # "doh" /\ x.o.contexts = u.o.contexts
  BY <1>4, <1>5, <1>7, <1>8, AresEnded
<1> QED BY <1>3, <1>4, <1>8, <1>9 DEF r

\* c-ares opens a socket, which may fail; one that is open is waited for.
LEMMA OpenSocketSound ==
  ASSUME NEW r, Sound(r), NothingLeft(r), r.backend # "doh", ~r.o.done_, NEW x \in OpenSocket(r)
  PROVE  /\ Sound(x) /\ NothingLeft(x) /\ x.backend # "doh" /\ x.lookups = r.lookups
         /\ ~x.o.done_ => x.o.cb_ = r.lookups
         /\ DOMAIN r.o.contexts \subseteq DOMAIN x.o.contexts
<1> DEFINE new == [enabled |-> TRUE, waits |-> 1]
           cs == Append(r.o.contexts, new)
           y == AresPut(r, cs, r.o.timer, r.due, r.dup_failed, r.closed)
           z == AresPut(r, r.o.contexts, r.o.timer, r.due, TRUE, r.closed)
<1>1. /\ r \in Resolvers /\ r.o \in Object /\ r.o.contexts \in SocketLists /\ r.dup_failed \in BOOLEAN
      /\ r.closed \in BOOLEAN /\ r.o.cb_ = r.lookups /\ ~r.o.expired_
  BY DEF Sound, Resolvers, Object, SocketLists, BackEnd, Outstanding
<1>2. x = [r EXCEPT !.o.contexts = cs] \/ x = AresCancel([r EXCEPT !.dup_failed = TRUE])
  BY DEF OpenSocket
<1>3. cs \in SocketLists /\ DOMAIN r.o.contexts \subseteq DOMAIN cs
  <2>1. new \in [enabled : BOOLEAN, waits : Nat] OBVIOUS
  <2> HIDE DEF new
  <2>2. /\ cs \in Seq([enabled : BOOLEAN, waits : Nat]) /\ DOMAIN r.o.contexts = 1 .. Len(r.o.contexts)
        /\ DOMAIN cs = 1 .. Len(r.o.contexts) + 1 /\ Len(r.o.contexts) \in Nat
    BY <1>1, <2>1, AppendProperties, LenProperties DEF SocketLists
  <2>3. \A m \in Nat : 1 .. m \subseteq 1 .. m + 1 OBVIOUS
  <2> QED BY <2>2, <2>3 DEF SocketLists
<1> HIDE DEF cs
<1>4. CASE x = [r EXCEPT !.o.contexts = cs]
  <2>1. x = y BY <1>1, <1>4 DEF AresPut, Resolvers, Object
  <2>2. /\ Sound(y) /\ NothingLeft(y) /\ y.backend # "doh" /\ y.o.contexts = cs
        /\ y.o.cb_ = r.o.cb_ /\ y.lookups = r.lookups
    <3> DEFINE n == r.o.timer  d == r.dup_failed  c == r.closed  due == r.due
    <3>1. n = r.o.timer /\ due \subseteq r.due /\ d \in BOOLEAN /\ c \in BOOLEAN
      BY <1>1
    <3>2. y = AresPut(r, cs, n, due, d, c) OBVIOUS
    <3> HIDE DEF n, d, c, due
    <3>3. r.o.done_ => \A i \in DOMAIN cs : ~cs[i].enabled OBVIOUS
    <3>4. LET w == AresPut(r, cs, n, due, d, c) IN
          /\ Sound(w) /\ NothingLeft(w) /\ w.backend # "doh" /\ w.o.contexts = cs /\ w.o.cb_ = r.o.cb_
          /\ w.lookups = r.lookups
      BY <1>3, <3>1, <3>3, AresPutSound
    <3> QED BY <3>2, <3>4
  <2> QED BY <2>1, <2>2, <1>1, <1>3
<1>5. CASE x = AresCancel([r EXCEPT !.dup_failed = TRUE])
  <2>1. [r EXCEPT !.dup_failed = TRUE] = [z EXCEPT !.o.expired_ = FALSE]
    <3> DEFINE w == [r EXCEPT !.dup_failed = TRUE]
    <3>1. z = w BY <1>1 DEF AresPut, Resolvers, Object
    <3>2. w \in Resolvers /\ w.o \in Object /\ ~w.o.expired_ BY <1>1 DEF Resolvers
    <3> HIDE DEF z, w
    <3>3. [w.o EXCEPT !.expired_ = FALSE] = w.o BY <3>2 DEF Object
    <3>4. [w EXCEPT !.o.expired_ = FALSE] = w BY <3>2, <3>3 DEF Resolvers
    <3> QED BY <3>1, <3>4 DEF w
  <2>2. /\ Sound(z) /\ NothingLeft(z) /\ z.backend # "doh" /\ z.o.contexts = r.o.contexts /\ ~z.o.done_
        /\ z.lookups = r.lookups
    <3> DEFINE n == r.o.timer  c == r.closed  due == r.due  cz == r.o.contexts  d == TRUE
    <3>1. /\ n = r.o.timer /\ due \subseteq r.due /\ c \in BOOLEAN
          /\ d \in BOOLEAN /\ cz \in SocketLists
      BY <1>1
    <3>2. z = AresPut(r, cz, n, due, d, c) OBVIOUS
    <3> HIDE DEF n, d, c, due, cz
    <3>3. cz = r.o.contexts BY DEF cz
    <3>4. r.o.done_ => \A i \in DOMAIN cz : ~cz[i].enabled OBVIOUS
    <3>5. LET w == AresPut(r, cz, n, due, d, c) IN
          /\ Sound(w) /\ NothingLeft(w) /\ w.backend # "doh" /\ w.o.contexts = cz /\ w.o.done_ = r.o.done_
          /\ w.lookups = r.lookups
      BY <3>1, <3>4, AresPutSound
    <3> QED BY <3>2, <3>3, <3>5
  <2> HIDE DEF z
  <2>3. Sound(x) /\ NothingLeft(x) /\ x.backend # "doh" /\ DOMAIN x.o.contexts = DOMAIN z.o.contexts
    BY <1>5, <2>1, <2>2, AresCancelled
  <2>4. x.lookups = z.lookups
    <3>1. z \in Resolvers BY <2>2 DEF Sound
    <3> QED BY <1>5, <2>1, <3>1 DEF AresCancel, OnAsyncResolve, CancelTimer, CloseSockets, Resolvers
  <2>5. ~x.o.done_ => x.o.cb_ = x.lookups BY <2>3 DEF Sound, BackEnd, Outstanding
  <2> QED BY <2>2, <2>3, <2>4, <2>5
<1> QED BY <1>2, <1>4, <1>5

\* A lookup may begin: no answer is to come, and the back end that is held has nothing of
\* an earlier lookup left.
Idle(r) ==
  /\ r.due = {} /\ r.o.timer = NoLookup /\ r.o.reqs_ = << >> /\ r.o.addrinfo_ = << >>
  /\ r.o.bootstrap = "none"
Ready(r) ==
  /\ Sound(r) /\ NothingLeft(r) /\ ~Coming(r) /\ Len(r.answers) < r.lookups
  /\ \A i \in DOMAIN r.answers : r.answers[i].n # r.lookups
  /\ r.held => Idle(r)
  /\ r.user = "stream" => r.held \/ r.backend = "libc"
  /\ r.user = "stream" => ~r.closed

\* The back end takes up a lookup.
Begun(r, f, n, e, b) ==
  [r EXCEPT !.o.cb_ = r.lookups, !.o.done_ = FALSE, !.o.expired_ = f, !.o.timer = n, !.o.endpoints_ = e,
            !.o.bootstrap = b]

\* The back end is at work on this lookup, with nothing of another.
LEMMA BegunSound ==
  ASSUME NEW r, Ready(r), r.held, NEW f, f \in BOOLEAN, NEW n, n = NoLookup \/ n = r.lookups,
         NEW e, e \in BOOLEAN, NEW b, b = "none" \/ b = "waiting",
         r.backend # "doh" => ~f /\ b = "none"
  PROVE  LET x == Begun(r, f, n, e, b) IN
         /\ Sound(x) /\ ~Left(x) /\ x.o.reqs_ = << >> /\ x.o.bootstrap = b
         /\ x.backend = r.backend /\ x.lookups = r.lookups /\ r.lookups > 0 /\ x.o.cb_ = r.lookups
         /\ ~x.o.done_ /\ x.o.expired_ = f /\ x.o.contexts = r.o.contexts /\ x.expired = r.expired
<1> DEFINE x == Begun(r, f, n, e, b)
           o == [r.o EXCEPT !.cb_ = r.lookups, !.done_ = FALSE, !.expired_ = f, !.timer = n, !.endpoints_ = e,
                            !.bootstrap = b]
<1>1. /\ r \in Resolvers /\ r.o \in Object /\ r.lookups \in Nat
      /\ r.answers \in Seq([n : Nat, ec : Codes, results : Seq(Addresses), closed : BOOLEAN])
  BY DEF Ready, Sound, Resolvers
<1>2. r.lookups > 0
  <2>1. Len(r.answers) \in Nat /\ Len(r.answers) < r.lookups BY <1>1, LenProperties DEF Ready
  <2> QED BY <2>1, <1>1
<1>3. x = [r EXCEPT !.o = o] BY <1>1 DEF Begun, Resolvers, Object
<1>4. o \in Object
  <2>1. n \in Nat /\ b \in {"none", "waiting", "running"} BY <1>1 DEF NoLookup
  <2> QED BY <2>1, <1>1 DEF Object
<1>5. /\ o.cb_ = r.lookups /\ o.done_ = FALSE /\ o.expired_ = f /\ o.timer = n /\ o.bootstrap = b
      /\ o.reqs_ = r.o.reqs_ /\ o.addrinfo_ = r.o.addrinfo_ /\ o.contexts = r.o.contexts
  BY <1>1 DEF Object
<1> HIDE DEF o
<1>6. /\ x \in Resolvers /\ x.o = o /\ x.due = r.due /\ x.posted = r.posted /\ x.closed = r.closed
      /\ x.user = r.user /\ x.backend = r.backend /\ x.lookups = r.lookups /\ x.requests = r.requests
      /\ x.libc = r.libc /\ x.expired = r.expired /\ x.misplaced = r.misplaced /\ x.answers = r.answers
      /\ x.resolver_inited_ = r.resolver_inited_ /\ x.held = r.held
  <2> HIDE DEF x
  <2>1. x \in Resolvers BY <1>1, <1>3, <1>4 DEF Resolvers
  <2>2. x.o = o BY <1>1, <1>3 DEF Resolvers
  <2>3. /\ x.due = r.due /\ x.posted = r.posted /\ x.closed = r.closed
        /\ x.user = r.user /\ x.backend = r.backend /\ x.lookups = r.lookups /\ x.requests = r.requests
        /\ x.libc = r.libc /\ x.expired = r.expired /\ x.misplaced = r.misplaced /\ x.answers = r.answers
        /\ x.resolver_inited_ = r.resolver_inited_ /\ x.held = r.held
    BY <1>1, <1>3 DEF Resolvers
  <2> QED BY <2>1, <2>2, <2>3
<1> HIDE DEF x
<1>7. Answers(x) /\ ~x.misplaced /\ User(x)
  BY <1>6, <1>5 DEF Ready, Sound, Answers, GoodAnswer, User
<1>8. Outstanding(x) BY <1>5, <1>6 DEF Ready, Sound, Outstanding, Coming, GoodAnswer
<1>9. Timers(x)
  BY <1>1, <1>5, <1>6 DEF Ready, Idle, Sound, Timers, NoLookup
<1>10. RequestsKnown(x)
  <2>1. r.o.reqs_ = << >> /\ r.o.addrinfo_ = << >> BY DEF Ready, Idle
  <2>2. \A i \in DOMAIN r.requests : ~Live(r, i) BY <2>1 DEF Ready, Sound, RequestsKnown
  <2>3. GoodResults(<< >>, r.lookups) BY DEF GoodResults
  <2> QED BY <1>2, <1>5, <1>6, <2>1, <2>2, <2>3 DEF Ready, Sound, RequestsKnown, Live
<1>11. BackEnd(x)
  <2>1. r.lookups # NoLookup BY <1>1, <1>2 DEF NoLookup
  <2>2. CASE r.backend = "doh" BY <2>2, <1>5, <1>6 DEF Ready, Sound, BackEnd
  <2>3. CASE r.backend # "doh" BY <2>1, <2>3, <1>5, <1>6 DEF Ready, Sound, BackEnd
  <2> QED BY <2>2, <2>3
<1>12. ~Left(x) BY <1>1, <1>2, <1>5, <1>6 DEF Left, NoLookup
<1>13. Sound(x) BY <1>6, <1>7, <1>8, <1>9, <1>10, <1>11 DEF Sound
<1> QED BY <1>2, <1>5, <1>6, <1>12, <1>13 DEF Ready, Idle, x

\* DoHResolver::AsyncResolve
LEMMA DoHAsyncResolveSound ==
  ASSUME NEW r, Ready(r), r.held, r.backend = "doh", NEW x \in DoHAsyncResolve(r)
  PROVE  Sound(x) /\ NothingLeft(x)
<1> DEFINE f == r.o.expired_
           e == r.o.endpoints_
           on == TRUE
           n == r.lookups
           none == "none"
           waiting == "waiting"
           plain == Begun(r, f, n, e, none)
           known == Begun(r, f, n, on, none)
           first == Begun(r, f, n, e, waiting)
           t == [r EXCEPT !.o.cb_ = r.lookups, !.o.done_ = FALSE, !.o.timer = r.lookups]
<1>1. r \in Resolvers /\ r.o \in Object /\ f \in BOOLEAN /\ e \in BOOLEAN /\ on \in BOOLEAN /\ r.o.bootstrap = "none"
  BY DEF Ready, Idle, Sound, Resolvers, Object
<1>2. t = plain /\ [t EXCEPT !.o.endpoints_ = TRUE] = known /\ [t EXCEPT !.o.bootstrap = "waiting"] = first
  <2> DEFINE o == [r.o EXCEPT !.cb_ = r.lookups, !.done_ = FALSE, !.timer = r.lookups]
  <2>1. t = [r EXCEPT !.o = o] BY <1>1 DEF Resolvers
  <2>2. /\ plain = [r EXCEPT !.o = [r.o EXCEPT !.cb_ = r.lookups, !.done_ = FALSE, !.expired_ = f, !.timer = n,
                                               !.endpoints_ = e, !.bootstrap = "none"]]
        /\ known = [r EXCEPT !.o = [r.o EXCEPT !.cb_ = r.lookups, !.done_ = FALSE, !.expired_ = f, !.timer = n,
                                               !.endpoints_ = TRUE, !.bootstrap = "none"]]
        /\ first = [r EXCEPT !.o = [r.o EXCEPT !.cb_ = r.lookups, !.done_ = FALSE, !.expired_ = f, !.timer = n,
                                               !.endpoints_ = e, !.bootstrap = "waiting"]]
    BY <1>1 DEF Begun, Resolvers
  <2>3. /\ o = [r.o EXCEPT !.cb_ = r.lookups, !.done_ = FALSE, !.expired_ = f, !.timer = n,
                           !.endpoints_ = e, !.bootstrap = "none"]
        /\ [o EXCEPT !.endpoints_ = TRUE] =
             [r.o EXCEPT !.cb_ = r.lookups, !.done_ = FALSE, !.expired_ = f, !.timer = n,
                         !.endpoints_ = TRUE, !.bootstrap = "none"]
        /\ [o EXCEPT !.bootstrap = "waiting"] =
             [r.o EXCEPT !.cb_ = r.lookups, !.done_ = FALSE, !.expired_ = f, !.timer = n,
                         !.endpoints_ = e, !.bootstrap = "waiting"]
    BY <1>1 DEF Object
  <2> HIDE DEF o, plain, known, first, t
  <2>4. /\ [t EXCEPT !.o.endpoints_ = TRUE] = [r EXCEPT !.o = [o EXCEPT !.endpoints_ = TRUE]]
        /\ [t EXCEPT !.o.bootstrap = "waiting"] = [r EXCEPT !.o = [o EXCEPT !.bootstrap = "waiting"]]
    BY <1>1, <2>1 DEF Resolvers
  <2> QED BY <2>1, <2>2, <2>3, <2>4
<1>3. x \in DoRequest(plain) \/ x \in DoRequest(known) \/ x = first
  BY <1>2 DEF DoHAsyncResolve
<1>6. none = "none" /\ waiting = "waiting" /\ n = r.lookups OBVIOUS
<1> HIDE DEF none, waiting, f, e, on, n
<1>4. Asking(plain) /\ plain.o.reqs_ = << >>
  BY <1>1, <1>6, BegunSound DEF Asking
<1>5. Asking(known) /\ known.o.reqs_ = << >>
  BY <1>1, <1>6, BegunSound DEF Asking
<1>7. Sound(first) /\ ~Left(first)
  BY <1>1, <1>6, BegunSound
<1> HIDE DEF plain, known, first
<1>8. CASE x \in DoRequest(plain) BY <1>4, <1>8, DoRequestSound
<1>9. CASE x \in DoRequest(known) BY <1>5, <1>9, DoRequestSound
<1>10. CASE x = first BY <1>7, <1>10 DEF NothingLeft
<1> QED BY <1>3, <1>8, <1>9, <1>10

\* CAresResolver::AsyncResolve
LEMMA CAresAsyncResolveSound ==
  ASSUME NEW r, Ready(r), r.held, r.backend # "doh", NEW x \in CAresAsyncResolve(r)
  PROVE  Sound(x) /\ NothingLeft(x)
<1> DEFINE off == FALSE
           e == r.o.endpoints_
           n == r.o.timer
           none == "none"
           t == Begun(r, off, n, e, none)
<1>1. r \in Resolvers /\ r.o \in Object /\ e \in BOOLEAN /\ off \in BOOLEAN /\ r.o.bootstrap = "none" /\ n = NoLookup
  BY DEF Ready, Idle, Sound, Resolvers, Object
<1>2. [r EXCEPT !.o.done_ = FALSE, !.o.expired_ = FALSE, !.o.cb_ = r.lookups] = t
  <2>1. t = [r EXCEPT !.o = [r.o EXCEPT !.cb_ = r.lookups, !.done_ = FALSE, !.expired_ = FALSE, !.timer = n,
                                        !.endpoints_ = e, !.bootstrap = "none"]]
    BY <1>1 DEF Begun, Resolvers
  <2>2. [r.o EXCEPT !.cb_ = r.lookups, !.done_ = FALSE, !.expired_ = FALSE, !.timer = n, !.endpoints_ = e,
                    !.bootstrap = "none"]
        = [r.o EXCEPT !.done_ = FALSE, !.expired_ = FALSE, !.cb_ = r.lookups]
    BY <1>1 DEF Object
  <2>3. [r EXCEPT !.o.done_ = FALSE, !.o.expired_ = FALSE, !.o.cb_ = r.lookups]
        = [r EXCEPT !.o = [r.o EXCEPT !.done_ = FALSE, !.expired_ = FALSE, !.cb_ = r.lookups]]
    BY <1>1 DEF Resolvers
  <2> QED BY <2>1, <2>2, <2>3
<1>3. none = "none" /\ ~off OBVIOUS
<1>4. \A i \in DOMAIN r.o.contexts : ~r.o.contexts[i].enabled
  BY DEF Ready, Sound, BackEnd, Coming
<1> HIDE DEF off, e, n, none
<1>5. /\ Sound(t) /\ NothingLeft(t) /\ t.backend # "doh" /\ t.o.cb_ = r.lookups /\ t.lookups = r.lookups
      /\ r.lookups > 0 /\ ~t.o.done_ /\ t.o.expired_ = off /\ t.o.contexts = r.o.contexts
  BY <1>1, <1>3, BegunSound DEF NothingLeft
<1>6. t = [t EXCEPT !.o.expired_ = off]
  <2>1. t \in Resolvers /\ t.o \in Object BY <1>5 DEF Sound, Resolvers
  <2> HIDE DEF t
  <2>2. [t.o EXCEPT !.expired_ = off] = t.o BY <2>1, <1>5 DEF Object
  <2> QED BY <2>1, <2>2 DEF Resolvers
<1>7. t.o.cb_ # NoLookup
  <2>1. r.lookups \in Nat BY <1>1 DEF Resolvers
  <2> QED BY <2>1, <1>5 DEF NoLookup
<1> DEFINE Timed(y) == IF y.o.done_ THEN y ELSE [y EXCEPT !.o.timer = r.lookups]
<1>8. \/ x \in {OnAsyncResolve(t, "error"), OnAsyncResolve(t, "ok")}
      \/ \E y \in OpenSocket(t) : x = Timed(y)
  BY <1>2 DEF CAresAsyncResolve
<1> HIDE DEF t
<1>9. CASE x \in {OnAsyncResolve(t, "error"), OnAsyncResolve(t, "ok")}
  <2>1. PICK status \in {"ok", "error", "cancelled"} : x = OnAsyncResolve([t EXCEPT !.o.expired_ = off], status)
    BY <1>6, <1>9
  <2> QED BY <2>1, <1>1, <1>3, <1>4, <1>5, <1>7, AresEnded
<1>10. CASE \E y \in OpenSocket(t) : x = Timed(y)
  <2>1. PICK y \in OpenSocket(t) : x = Timed(y) BY <1>10
  <2>2. /\ Sound(y) /\ NothingLeft(y) /\ y.backend # "doh" /\ y.lookups = t.lookups
        /\ ~y.o.done_ => y.o.cb_ = t.lookups
    BY <1>5, OpenSocketSound
  <2>3. CASE y.o.done_ BY <2>1, <2>2, <2>3
  <2>4. CASE ~y.o.done_
    <3> DEFINE cs == y.o.contexts
               l == r.lookups
               due == y.due
               d == y.dup_failed
               c == y.closed
    <3>1. y \in Resolvers /\ y.o \in Object /\ cs \in SocketLists /\ d \in BOOLEAN /\ c \in BOOLEAN /\ due \subseteq y.due
      BY <2>2 DEF Sound, Resolvers, Object, SocketLists
    <3>2. x = AresPut(y, cs, l, due, d, c)
      <4>1. x = [y EXCEPT !.o.timer = l] BY <2>1, <2>4
      <4>2. [y.o EXCEPT !.timer = l] = [y.o EXCEPT !.contexts = cs, !.timer = l] BY <3>1 DEF Object
      <4>3. [y EXCEPT !.o.timer = l] = [y EXCEPT !.o = [y.o EXCEPT !.timer = l]] BY <3>1 DEF Resolvers
      <4>4. AresPut(y, cs, l, due, d, c) = [y EXCEPT !.o = [y.o EXCEPT !.contexts = cs, !.timer = l]]
        BY <3>1 DEF Resolvers, AresPut
      <4> QED BY <4>1, <4>2, <4>3, <4>4
    <3>3. l = y.o.cb_ BY <1>5, <2>2, <2>4
    <3>4. y.o.done_ => \A i \in DOMAIN cs : ~cs[i].enabled BY <2>4
    <3> HIDE DEF cs, l, due, d, c
    <3> QED BY <2>2, <3>1, <3>2, <3>3, <3>4, AresPutSound
  <2> QED BY <2>3, <2>4
<1> QED BY <1>8, <1>9, <1>10

\* ResolverImpl::AsyncResolve
LEMMA AsyncResolveSound ==
  ASSUME NEW r, Ready(r), NEW x \in AsyncResolve(r)
  PROVE  Sound(x) /\ NothingLeft(x)
<1>1. /\ r \in Resolvers /\ r.o \in Object /\ r.lookups \in Nat /\ r.backend \in {"doh", "cares", "libc"}
      /\ Sound(r) /\ NothingLeft(r)
  BY DEF Ready, Sound, Resolvers
<1>2. CASE r.backend = "doh" /\ r.held
  BY <1>2, DoHAsyncResolveSound DEF AsyncResolve
<1>3. CASE r.backend = "cares" /\ r.held
  BY <1>3, CAresAsyncResolveSound DEF AsyncResolve
<1>4. CASE r.backend = "doh" /\ ~r.held
  <2>1. x = [r EXCEPT !.crashed = TRUE] BY <1>4 DEF AsyncResolve
  <2>2. /\ x \in Resolvers /\ x.o = r.o /\ x.due = r.due /\ x.posted = r.posted /\ x.closed = r.closed
        /\ x.user = r.user /\ x.backend = r.backend /\ x.lookups = r.lookups /\ x.requests = r.requests
        /\ x.libc = r.libc /\ x.expired = r.expired /\ x.misplaced = r.misplaced /\ x.answers = r.answers
        /\ x.resolver_inited_ = r.resolver_inited_ /\ x.held = r.held
    BY <1>1, <2>1 DEF Resolvers
  <2>3. Answers(x) /\ Outstanding(x) /\ NothingLeft(x) /\ ~x.misplaced
    BY <1>1, <2>2 DEF Sound, Answers, Outstanding, Coming, GoodAnswer, NothingLeft, Left
  <2>4. Timers(x) /\ RequestsKnown(x) /\ BackEnd(x) /\ User(x)
    BY <1>1, <2>2 DEF Sound, Timers, RequestsKnown, Live, BackEnd, User
  <2> QED BY <2>2, <2>3, <2>4 DEF Sound
<1>5. CASE r.backend = "libc" \/ (r.backend = "cares" /\ ~r.held)
  <2>1. x = [r EXCEPT !.libc = r.lookups] BY <1>5 DEF AsyncResolve
  <2>2. /\ x \in Resolvers /\ x.o = r.o /\ x.due = r.due /\ x.posted = r.posted /\ x.closed = r.closed
        /\ x.user = r.user /\ x.backend = r.backend /\ x.lookups = r.lookups /\ x.requests = r.requests
        /\ x.libc = r.lookups /\ x.expired = r.expired /\ x.misplaced = r.misplaced /\ x.answers = r.answers
        /\ x.resolver_inited_ = r.resolver_inited_ /\ x.held = r.held
    BY <1>1, <2>1 DEF Resolvers
  <2>3. Answers(x) /\ NothingLeft(x) /\ ~x.misplaced
    BY <1>1, <2>2 DEF Sound, Answers, GoodAnswer, NothingLeft, Left
  <2>4. Outstanding(x)
    BY <1>1, <2>2 DEF Ready, Sound, Outstanding, Coming, GoodAnswer
  <2>5. Timers(x) /\ RequestsKnown(x) /\ User(x)
    BY <1>1, <2>2 DEF Sound, Timers, RequestsKnown, Live, User
  <2>6. BackEnd(x) BY <1>1, <1>5, <2>2 DEF Sound, BackEnd
  <2> QED BY <2>2, <2>3, <2>4, <2>5, <2>6 DEF Sound
<1> QED BY <1>1, <1>2, <1>3, <1>4, <1>5

\* The next lookup of a user, with the back end made anew (InitResolver) or kept.
NextLookup(r, name, init) ==
  LET t == [r EXCEPT !.lookups = @ + 1, !.name = name] IN IF init THEN InitResolver(t) ELSE t

\* The lookup may begin.
LEMMA LookupReady ==
  ASSUME NEW r, Sound(r), NothingLeft(r), NEW name \in Names, NEW init, init \in BOOLEAN,
         ~Coming(r), Len(r.answers) = r.lookups, r.user = "stream" => init /\ ~r.closed /\ r.lookups = 0,
         init => r.due = {} /\ \A i \in DOMAIN r.requests : ~Live(r, i),
         ~init /\ r.held => Idle(r),
         r.user = "connection" => (r.resolver_inited_ <=> ~init)
  PROVE  Ready(NextLookup(r, name, init))
<1> DEFINE x == NextLookup(r, name, init)
           t == [r EXCEPT !.lookups = @ + 1, !.name = name]
           l == r.lookups + 1
           o == IF init THEN NewResolver ELSE r.o
<1>1. /\ r \in Resolvers /\ r.o \in Object /\ r.lookups \in Nat
      /\ r.answers \in Seq([n : Nat, ec : Codes, results : Seq(Addresses), closed : BOOLEAN])
  BY DEF Sound, Resolvers
<1>2. /\ x \in Resolvers /\ x.o = o /\ x.due = r.due /\ x.posted = r.posted /\ x.closed = r.closed
      /\ x.user = r.user /\ x.backend = r.backend /\ x.lookups = l /\ x.requests = r.requests
      /\ x.libc = r.libc /\ x.expired = r.expired /\ x.misplaced = r.misplaced /\ x.answers = r.answers
      /\ x.resolver_inited_ = (init \/ r.resolver_inited_)
      /\ x.held = IF init THEN r.backend # "libc" ELSE r.held
  <2>1. /\ t \in Resolvers /\ t.o = r.o /\ t.due = r.due /\ t.posted = r.posted /\ t.closed = r.closed
        /\ t.user = r.user /\ t.backend = r.backend /\ t.lookups = l /\ t.requests = r.requests
        /\ t.libc = r.libc /\ t.expired = r.expired /\ t.misplaced = r.misplaced /\ t.answers = r.answers
        /\ t.resolver_inited_ = r.resolver_inited_ /\ t.held = r.held
    <3>1. l \in Nat /\ t = [r EXCEPT !.lookups = l, !.name = name] BY <1>1
    <3> HIDE DEF l, t
    <3>2. t \in Resolvers BY <1>1, <3>1 DEF Resolvers
    <3>3. /\ t.o = r.o /\ t.due = r.due /\ t.posted = r.posted /\ t.closed = r.closed
          /\ t.user = r.user /\ t.backend = r.backend /\ t.lookups = l /\ t.requests = r.requests
          /\ t.libc = r.libc /\ t.expired = r.expired /\ t.misplaced = r.misplaced /\ t.answers = r.answers
          /\ t.resolver_inited_ = r.resolver_inited_ /\ t.held = r.held
      BY <1>1, <3>1 DEF Resolvers
    <3> QED BY <3>2, <3>3
  <2> HIDE DEF t
  <2>2. CASE ~init
    <3>1. x = t BY <2>2 DEF NextLookup, t
    <3>2. r.resolver_inited_ \in BOOLEAN BY <1>1 DEF Resolvers
    <3> QED BY <2>1, <2>2, <3>1, <3>2
  <2>3. CASE init
    <3>1. x = [t EXCEPT !.resolver_inited_ = TRUE, !.held = t.backend # "libc", !.o = NewResolver]
      BY <2>3 DEF NextLookup, InitResolver, t
    <3>2. NewResolver \in Object BY DEF NewResolver, Object, NoLookup
    <3> HIDE DEF x
    <3>3. x \in Resolvers BY <2>1, <3>1, <3>2 DEF Resolvers
    <3>4. /\ x.due = t.due /\ x.posted = t.posted /\ x.closed = t.closed
          /\ x.user = t.user /\ x.backend = t.backend /\ x.lookups = t.lookups /\ x.requests = t.requests
          /\ x.libc = t.libc /\ x.expired = t.expired /\ x.misplaced = t.misplaced /\ x.answers = t.answers
      BY <2>1, <3>1 DEF Resolvers
    <3>5. x.o = NewResolver /\ x.resolver_inited_ = TRUE /\ x.held = (t.backend # "libc")
      BY <2>1, <3>1 DEF Resolvers
    <3> QED BY <2>1, <2>3, <3>3, <3>4, <3>5
  <2> QED BY <2>2, <2>3
<1>3. l \in Nat /\ l > r.lookups /\ l > 0 /\ \A i \in 1 .. r.lookups : i \in 1 .. l /\ i # l BY <1>1
<1>4. o.cb_ = NoLookup /\ (o.timer = NoLookup \/ (~init /\ o.timer = r.o.timer))
  BY DEF Coming, NewResolver
<1>5. r.libc = NoLookup /\ r.posted = << >> /\ r.o.cb_ = NoLookup BY DEF Coming
<1> HIDE DEF x, l
<1>6. \A i \in DOMAIN r.answers : r.answers[i].n \in 1 .. r.lookups BY DEF Sound, Answers, GoodAnswer
<1>7. Answers(x) /\ ~x.misplaced
  <2>1. Len(r.answers) <= l BY <1>1, <1>3
  <2>2. \A i \in DOMAIN r.answers : GoodAnswer(x, r.answers[i])
    BY <1>2, <1>3 DEF Sound, Answers, GoodAnswer
  <2> QED BY <1>2, <2>1, <2>2 DEF Sound, Answers
<1>8. Outstanding(x)
  <2>1. Len(<< >>) <= 1 /\ DOMAIN << >> = {} OBVIOUS
  <2> HIDE DEF o
  <2> QED BY <1>2, <1>4, <1>5, <2>1 DEF Outstanding, Coming
<1>9. Timers(x)
  <2>1. r.due \subseteq r.expired /\ r.due \subseteq 1 .. r.lookups /\ r.o.timer <= r.lookups /\ r.o.timer \in Nat
    BY <1>1 DEF Sound, Timers, Object
  <2>2. o.timer <= l BY <1>1, <1>3, <1>4, <2>1 DEF NoLookup
  <2>3. r.due \subseteq 1 .. l BY <1>3, <2>1
  <2> HIDE DEF o
  <2> QED BY <1>2, <1>4, <2>1, <2>2, <2>3 DEF Timers
<1>10. RequestsKnown(x)
  <2>1. \A i \in DOMAIN r.requests : r.requests[i].n \in 1 .. l
    BY <1>3 DEF Sound, RequestsKnown
  <2>2. CASE init
    <3>1. o.reqs_ = << >> /\ o.bootstrap = "none" BY <2>2 DEF NewResolver
    <3> HIDE DEF o
    <3>2. Len(<< >>) = 0 /\ DOMAIN << >> = {} OBVIOUS
    <3> QED BY <1>2, <1>4, <2>1, <2>2, <3>1, <3>2 DEF Sound, RequestsKnown, Live
  <2>3. CASE ~init
    <3>1. o = r.o BY <2>3
    <3> HIDE DEF o
    <3> QED BY <1>2, <1>3, <1>4, <1>5, <2>1, <3>1 DEF Sound, RequestsKnown, Live
  <2> QED BY <2>2, <2>3
<1>11. BackEnd(x)
  <2>1. CASE init
    <3>1. /\ o.reqs_ = << >> /\ o.bootstrap = "none" /\ o.done_ = TRUE /\ o.addrinfo_ = << >>
          /\ o.contexts = << >>
      BY <2>1 DEF NewResolver
    <3> HIDE DEF o
    <3> QED BY <1>2, <1>4, <1>5, <3>1 DEF Sound, BackEnd
  <2>2. CASE ~init BY <2>2, <1>2 DEF Sound, BackEnd
  <2> QED BY <2>1, <2>2
<1>12. User(x)
  <2>1. x.held => x.lookups > 0 BY <1>2, <1>3
  <2>2. x.user = "connection" => /\ x.resolver_inited_ <=> x.lookups > 0
                                 /\ x.answers # << >> => ~x.held
    <3> SUFFICES ASSUME r.user = "connection"
                 PROVE  (x.resolver_inited_ <=> x.lookups > 0) /\ (x.answers # << >> => ~x.held)
      BY <1>2
    <3>1. CASE init
      <4>1. ~r.resolver_inited_ BY <3>1
      <4>2. r.lookups = 0 BY <1>1, <4>1 DEF Sound, User
      <4>3. r.answers = << >> BY <1>1, <4>2, EmptySeq
      <4> QED BY <1>2, <1>3, <3>1, <4>3
    <3>2. CASE ~init BY <1>2, <1>3, <3>2 DEF Sound, User
    <3> QED BY <3>1, <3>2
  <2>3. x.user = "stream" => x.lookups <= 1 BY <1>1, <1>2 DEF l
  <2> QED BY <1>2, <1>4, <2>1, <2>2, <2>3 DEF User
<1>13. NothingLeft(x)
  <2>1. CASE init BY <2>1, <1>2 DEF NothingLeft, NewResolver
  <2>2. CASE ~init BY <2>2, <1>2 DEF NothingLeft, Left
  <2> QED BY <2>1, <2>2
<1>14. Sound(x) BY <1>2, <1>7, <1>8, <1>9, <1>10, <1>11, <1>12 DEF Sound
<1>15. ~Coming(x) BY <1>2, <1>4, <1>5 DEF Coming
<1>16. Len(x.answers) < x.lookups /\ \A i \in DOMAIN x.answers : x.answers[i].n # x.lookups
  BY <1>1, <1>2, <1>3, <1>6
<1>17. x.held => Idle(x)
  <2>1. CASE init BY <2>1, <1>2 DEF Idle, NewResolver
  <2>2. CASE ~init BY <2>2, <1>2 DEF Idle
  <2> QED BY <2>1, <2>2
<1>18. x.user = "stream" => (x.held \/ x.backend = "libc") /\ ~x.closed BY <1>2
<1> QED BY <1>13, <1>14, <1>15, <1>16, <1>17, <1>18 DEF Ready, x

\* Who asks has no answer to come, and has had one for each of its lookups.
LEMMA NotPending ==
  ASSUME ResolverInv, ~Pending
  PROVE  ~Coming(rs) /\ Len(rs.answers) = rs.lookups /\ (rs.lookups > 0 => rs.answers # << >>)
<1>1. rs.lookups \in Nat /\ rs.answers \in Seq([n : Nat, ec : Codes, results : Seq(Addresses), closed : BOOLEAN])
  BY DEF ResolverInv, Sound, Resolvers
<1>2. Len(rs.answers) \in Nat /\ (Len(rs.answers) > 0 => rs.answers # << >>) BY <1>1, LenProperties, EmptySeq
<1>3. Len(rs.answers) <= rs.lookups BY DEF ResolverInv, Sound, Answers
<1>4. ~(rs.lookups > Len(rs.answers)) BY DEF Pending
<1>5. Len(rs.answers) = rs.lookups BY <1>1, <1>2, <1>3, <1>4
<1>6. ~Coming(rs) BY <1>1, <1>2, <1>5 DEF ResolverInv, Sound, Outstanding
<1> QED BY <1>2, <1>5, <1>6

\* Nobody has looked anything up: no timer is due and no request was made.
LEMMA NoneBefore ==
  ASSUME ResolverInv, rs.lookups = 0
  PROVE  rs.due = {} /\ \A i \in DOMAIN rs.requests : ~Live(rs, i)
<1>1. 1 .. rs.lookups = {} OBVIOUS
<1> QED BY <1>1 DEF ResolverInv, Sound, Timers, RequestsKnown

\* A client, a connection or a stream looks a name up.
LEMMA LookupInv == ASSUME ResolverInv, Lookup PROVE ResolverInv'
<1>1. Sound(rs) /\ NothingLeft(rs) /\ rs \in Resolvers /\ rs.lookups \in Nat /\ rs.user \in {"stream", "connection", "client"}
  BY DEF ResolverInv, Sound, Resolvers
<1>2. SUFFICES \E name \in Names, init \in BOOLEAN :
                 Ready(NextLookup(rs, name, init)) /\ rs' \in AsyncResolve(NextLookup(rs, name, init))
  BY AsyncResolveSound DEF ResolverInv
<1>3. CASE ResolveAddress
  <2> DEFINE init == ~(Succeeded /\ rs.held)
  <2>1. PICK name \in Names : rs' \in AsyncResolve(NextLookup(rs, name, init))
    BY <1>3 DEF ResolveAddress, NextLookup
  <2>2. ~Pending /\ RunReturns /\ rs.user = "client" BY <1>3 DEF ResolveAddress
  <2>3. ~Coming(rs) /\ Len(rs.answers) = rs.lookups /\ (rs.lookups > 0 => rs.answers # << >>)
    BY <2>2, NotPending
  <2>4. rs.due = {} /\ \A i \in DOMAIN rs.requests : ~Live(rs, i)
    BY <2>2 DEF RunReturns, ResolverInv, Sound, RequestsKnown
  <2>5. ~init /\ rs.held => Idle(rs)
    <3> SUFFICES ASSUME Succeeded, rs.held PROVE Idle(rs) OBVIOUS
    <3>1. rs.answers # << >> BY <2>3 DEF ResolverInv, Sound, User
    <3>2. Left(rs) BY <2>3, <3>1 DEF Left, Coming, Succeeded
    <3> QED BY <2>2, <3>2 DEF ResolverInv, NothingLeft, Idle, RunReturns
  <2>6. init \in BOOLEAN OBVIOUS
  <2> HIDE DEF init
  <2>7. Ready(NextLookup(rs, name, init)) BY <1>1, <2>2, <2>3, <2>4, <2>5, <2>6, LookupReady
  <2> QED BY <2>1, <2>6, <2>7
<1>4. CASE OnCmdConnect
  <2> DEFINE init == ~rs.resolver_inited_
  <2>1. PICK name \in Names : rs' \in AsyncResolve(NextLookup(rs, name, init))
    BY <1>4 DEF OnCmdConnect, NextLookup
  <2>2. ~Pending /\ rs.user = "connection" BY <1>4 DEF OnCmdConnect
  <2>3. ~Coming(rs) /\ Len(rs.answers) = rs.lookups /\ (rs.lookups > 0 => rs.answers # << >>)
    BY <2>2, NotPending
  <2>4. init => rs.due = {} /\ \A i \in DOMAIN rs.requests : ~Live(rs, i)
    <3> SUFFICES ASSUME init PROVE rs.due = {} /\ \A i \in DOMAIN rs.requests : ~Live(rs, i) OBVIOUS
    <3>1. rs.lookups = 0 BY <1>1, <2>2 DEF Sound, User
    <3> QED BY <3>1, NoneBefore
  <2>5. ~init => ~rs.held
    BY <1>1, <2>2, <2>3 DEF Sound, User
  <2>6. init \in BOOLEAN /\ (rs.resolver_inited_ <=> ~init) OBVIOUS
  <2> HIDE DEF init
  <2>7. Ready(NextLookup(rs, name, init)) BY <1>1, <2>2, <2>3, <2>4, <2>5, <2>6, LookupReady
  <2> QED BY <2>1, <2>6, <2>7
<1>5. CASE async_connect
  <2> DEFINE init == TRUE
  <2>1. rs.user = "stream" /\ rs.lookups = 0 /\ ~rs.closed BY <1>5 DEF async_connect
  <2>2. PICK name \in Names : rs' \in AsyncResolve(NextLookup(rs, name, init))
    <3>1. rs.lookups + 1 = 1 BY <2>1
    <3> QED BY <1>5, <3>1 DEF async_connect, NextLookup
  <2>3. ~Pending
    <3>1. Len(rs.answers) \in Nat BY <1>1, LenProperties DEF Resolvers
    <3> QED BY <2>1, <3>1 DEF Pending
  <2>4. ~Coming(rs) /\ Len(rs.answers) = rs.lookups BY <2>3, NotPending
  <2>5. rs.due = {} /\ \A i \in DOMAIN rs.requests : ~Live(rs, i) BY <2>1, NoneBefore
  <2>6. init \in BOOLEAN /\ init OBVIOUS
  <2> HIDE DEF init
  <2>7. Ready(NextLookup(rs, name, init)) BY <1>1, <2>1, <2>4, <2>5, <2>6, LookupReady
  <2> QED BY <2>2, <2>6, <2>7
<1> QED BY <1>3, <1>4, <1>5 DEF Lookup

\* A request goes on.
LEMMA RequestGoesOnInv ==
  ASSUME ResolverInv, NEW id \in DOMAIN rs.requests, RequestGoesOn(id) PROVE ResolverInv'
<1> DEFINE r == rs
           x == rs'
           st == NextStage[r.requests[id].stage]
           q == [r.requests EXCEPT ![id].stage = st]
<1>1. r \in Resolvers /\ r.requests \in Seq(DnsRequest) BY DEF ResolverInv, Sound, Resolvers
<1>2. x = [r EXCEPT !.requests = q] BY <1>1 DEF RequestGoesOn, Resolvers
<1>3. r.requests[id].stage \in {"connecting", "handshaking", "header"}
  BY DEF RequestGoesOn, NextStage
<1>4. st \in {"handshaking", "header", "body"} BY <1>3 DEF NextStage
<1>5. /\ DOMAIN r.requests = 1 .. Len(r.requests) /\ Len(r.requests) \in Nat
      /\ \A i \in DOMAIN r.requests : r.requests[i] \in DnsRequest
  BY <1>1, LenProperties, ElementOfSeq
<1> HIDE DEF st
<1>6. /\ DOMAIN q = DOMAIN r.requests /\ q[id] = [r.requests[id] EXCEPT !.stage = st]
      /\ \A i \in DOMAIN r.requests : i # id => q[i] = r.requests[i]
  OBVIOUS
<1>7. /\ q[id] \in DnsRequest /\ q[id].cb_ = r.requests[id].cb_ /\ q[id].stage = st
      /\ q[id].n = r.requests[id].n /\ q[id].family = r.requests[id].family
  BY <1>4, <1>5, <1>6 DEF DnsRequest
<1>8. q \in Seq(DnsRequest)
  <2>1. q \in [1 .. Len(r.requests) -> DnsRequest] BY <1>5, <1>6, <1>7
  <2> HIDE DEF q
  <2> QED BY <2>1, <1>5, TableSeq
<1> HIDE DEF q
<1>9. /\ x \in Resolvers /\ x.o = r.o /\ x.due = r.due /\ x.posted = r.posted /\ x.closed = r.closed
      /\ x.user = r.user /\ x.backend = r.backend /\ x.lookups = r.lookups /\ x.requests = q
      /\ x.libc = r.libc /\ x.expired = r.expired /\ x.misplaced = r.misplaced /\ x.answers = r.answers
      /\ x.resolver_inited_ = r.resolver_inited_ /\ x.held = r.held
  BY <1>1, <1>2, <1>8 DEF Resolvers
<1>10. \A i \in DOMAIN q : /\ q[i].cb_ = r.requests[i].cb_ /\ q[i].n = r.requests[i].n
                           /\ q[i].family = r.requests[i].family
                           /\ q[i].stage \in {"done", "closed"} <=> r.requests[i].stage \in {"done", "closed"}
  BY <1>3, <1>4, <1>6, <1>7
<1> HIDE DEF x, r
<1>11. Sound(r) /\ NothingLeft(r) BY DEF ResolverInv, r
<1>12. Answers(x) /\ Timers(x) /\ User(x) /\ ~x.misplaced /\ NothingLeft(x)
  BY <1>9, <1>11 DEF Sound, Answers, GoodAnswer, Timers, User, NothingLeft, Left
<1>13. Outstanding(x) BY <1>9, <1>11 DEF Sound, Outstanding, Coming, GoodAnswer
<1>14. BackEnd(x)
  <2>1. r.backend = "doh"
    <3>1. DOMAIN r.requests # {} BY DEF r
    <3>2. r.requests # << >> BY <3>1
    <3> QED BY <3>2, <1>11 DEF Sound, BackEnd
  <2> QED BY <2>1, <1>9, <1>11 DEF Sound, BackEnd
<1>15. RequestsKnown(x)
  BY <1>6, <1>9, <1>10, <1>11 DEF Sound, RequestsKnown, Live
<1>16. Sound(x) BY <1>9, <1>12, <1>13, <1>14, <1>15 DEF Sound
<1> QED BY <1>12, <1>16 DEF ResolverInv, x

\* A request fails, is answered, or gives the address of the host itself.
LEMMA RequestEndsInv ==
  ASSUME ResolverInv, NEW id \in DOMAIN rs.requests,
         RequestFails(id) \/ OnParseDnsResponse(id) \/ addrinfo_loopback(id)
  PROVE  ResolverInv'
<1> DEFINE q == rs.requests[id]
<1>1. rs \in Resolvers /\ Sound(rs) /\ NothingLeft(rs) /\ q \in DnsRequest /\ rs.backend = "doh"
  <2>1. rs \in Resolvers /\ Sound(rs) /\ NothingLeft(rs) BY DEF ResolverInv, Sound
  <2>2. q \in DnsRequest
    <3>1. rs.requests \in Seq(DnsRequest) BY <2>1 DEF Resolvers
    <3> QED BY <3>1, ElementOfSeq, LenProperties
  <2>3. rs.requests # << >>
    <3>1. DOMAIN rs.requests # {} OBVIOUS
    <3> QED BY <3>1
  <2> QED BY <2>1, <2>2, <2>3 DEF Sound, BackEnd
<1>2. SUFFICES \E ec \in {"ok", "error"}, addrinfo \in Seq(Addresses) :
                  /\ \A k \in DOMAIN addrinfo : addrinfo[k] = <<q.family, q.n>>
                  /\ rs' = OnDoneRequest(rs, id, ec, addrinfo)
  BY <1>1, EndedSound DEF ResolverInv
<1>3. << >> \in Seq(Addresses) /\ DOMAIN << >> = {} BY EmptySeq
<1>4. <<q.family, q.n>> \in Addresses BY <1>1 DEF DnsRequest, Addresses
<1>5. CASE RequestFails(id)
  BY <1>3, <1>5 DEF RequestFails
<1>6. CASE OnParseDnsResponse(id)
  <2>1. PICK response \in Responses :
          LET good == parse(response) = "good"
          IN rs' = OnDoneRequest(rs, id, IF good THEN "ok" ELSE "error",
                                 IF good THEN addrinfo_dup(q.family, response, q.n) ELSE << >>)
    BY <1>6 DEF OnParseDnsResponse
  <2> DEFINE kept == {i \in DOMAIN response.records : response.records[i] = q.family}
             n == Cardinality(kept)
             found == addrinfo_dup(q.family, response, q.n)
  <2>2. n \in Nat
    <3>1. response.records \in {<< >>, <<"A">>, <<"CNAME", "AAAA">>, <<"OTHER">>} BY DEF Responses
    <3>2. DOMAIN response.records \subseteq 1 .. 2 BY <3>1
    <3>3. IsFiniteSet(1 .. 2)
      <4>1. 1 \in Int /\ 2 \in Int OBVIOUS
      <4> QED BY <4>1, FS_Interval, Zenon
    <3>4. IsFiniteSet(kept) BY <3>2, <3>3, FS_Subset
    <3> QED BY <3>4, FS_CardinalityType
  <2>3. found = [i \in 1 .. n |-> <<q.family, q.n>>] BY DEF addrinfo_dup
  <2> HIDE DEF n, found, q
  <2>4. found \in Seq(Addresses)
    <3>1. found \in [1 .. n -> Addresses] BY <1>4, <2>3
    <3> QED BY <2>2, <3>1, TableSeq
  <2>5. \A k \in DOMAIN found : found[k] = <<q.family, q.n>> BY <2>3
  <2>6. CASE parse(response) = "good" BY <2>1, <2>4, <2>5, <2>6 DEF found
  <2>7. CASE parse(response) # "good" BY <1>3, <2>1, <2>7
  <2> QED BY <2>6, <2>7
<1>7. CASE addrinfo_loopback(id)
  <2> DEFINE found == << <<q.family, q.n>> >>
  <2>1. rs' = OnDoneRequest(rs, id, "ok", found) BY <1>7 DEF addrinfo_loopback
  <2>2. found \in Seq(Addresses) /\ \A k \in DOMAIN found : found[k] = <<q.family, q.n>>
    <3> DEFINE a == <<q.family, q.n>>
    <3> HIDE DEF a
    <3>1. a \in Addresses BY <1>4 DEF a
    <3>2. <<a>> \in Seq(Addresses) /\ \A k \in DOMAIN <<a>> : <<a>>[k] = a BY <3>1
    <3> QED BY <3>2 DEF a
  <2> HIDE DEF found
  <2> QED BY <2>1, <2>2
<1> QED BY <1>5, <1>6, <1>7

\* The lookup of the DNS server runs, and ends.
Bootstrapped(r, b, e) == [r EXCEPT !.o.bootstrap = b, !.o.endpoints_ = e]

\* The requests can be made once the address of the DNS server is there.
LEMMA BootstrapSound ==
  ASSUME NEW r, Sound(r), NothingLeft(r), r.o.bootstrap # "none", NEW b, b = "none" \/ b = "running",
         NEW e, e \in BOOLEAN
  PROVE  LET x == Bootstrapped(r, b, e) IN
         /\ Sound(x) /\ ~Left(x) /\ x.backend = "doh" /\ x.o.reqs_ = << >> /\ x.lookups > 0
         /\ x.o.bootstrap = b
<1> DEFINE x == Bootstrapped(r, b, e)
           o == [r.o EXCEPT !.bootstrap = b, !.endpoints_ = e]
<1>1. r \in Resolvers /\ r.o \in Object BY DEF Sound, Resolvers
<1>2. x = [r EXCEPT !.o = o] BY <1>1 DEF Bootstrapped, Resolvers
<1>3. o \in Object BY <1>1 DEF Object
<1>4. /\ o.cb_ = r.o.cb_ /\ o.done_ = r.o.done_ /\ o.expired_ = r.o.expired_ /\ o.timer = r.o.timer /\ o.bootstrap = b
      /\ o.reqs_ = r.o.reqs_ /\ o.addrinfo_ = r.o.addrinfo_ /\ o.contexts = r.o.contexts
  BY <1>1 DEF Object
<1> HIDE DEF o, x
<1>5. x \in Resolvers BY <1>1, <1>2, <1>3 DEF Resolvers
<1>6. /\ x.o = o /\ x.due = r.due /\ x.posted = r.posted /\ x.closed = r.closed
      /\ x.user = r.user /\ x.backend = r.backend /\ x.lookups = r.lookups /\ x.requests = r.requests
      /\ x.libc = r.libc /\ x.expired = r.expired /\ x.misplaced = r.misplaced /\ x.answers = r.answers
      /\ x.resolver_inited_ = r.resolver_inited_ /\ x.held = r.held
  BY <1>1, <1>2 DEF Resolvers
<1>7. Answers(x) /\ Timers(x) /\ User(x) /\ ~x.misplaced
  BY <1>4, <1>6 DEF Sound, Answers, GoodAnswer, Timers, User
<1>8. Outstanding(x) BY <1>4, <1>6 DEF Sound, Outstanding, Coming, GoodAnswer
<1>9. r.backend = "doh" BY DEF Sound, BackEnd
<1>10. BackEnd(x) BY <1>4, <1>6, <1>9 DEF Sound, BackEnd
<1>11. RequestsKnown(x) /\ r.o.reqs_ = << >> /\ r.lookups > 0
  BY <1>4, <1>6 DEF Sound, RequestsKnown, Live
<1>12. ~Left(x) BY <1>4, <1>6 DEF NothingLeft, Left
<1>13. Sound(x) BY <1>5, <1>7, <1>8, <1>10, <1>11 DEF Sound
<1> QED BY <1>4, <1>6, <1>9, <1>11, <1>12, <1>13 DEF x

\* BootstrapRuns and OnBootstrap
LEMMA BootstrapInv == ASSUME ResolverInv, BootstrapRuns \/ OnBootstrap PROVE ResolverInv'
<1> DEFINE e == rs.o.endpoints_
           on == TRUE
           none == "none"
           running == "running"
<1>1. /\ Sound(rs) /\ NothingLeft(rs) /\ rs \in Resolvers /\ rs.o \in Object /\ e \in BOOLEAN /\ on \in BOOLEAN
  BY DEF ResolverInv, Sound, Resolvers, Object
<1>2. \A b : Bootstrapped(rs, b, e) = [rs EXCEPT !.o.bootstrap = b]
  <2> SUFFICES ASSUME NEW b PROVE Bootstrapped(rs, b, e) = [rs EXCEPT !.o.bootstrap = b] OBVIOUS
  <2>1. [rs.o EXCEPT !.bootstrap = b, !.endpoints_ = e] = [rs.o EXCEPT !.bootstrap = b] BY <1>1 DEF Object
  <2>2. Bootstrapped(rs, b, e) = [rs EXCEPT !.o = [rs.o EXCEPT !.bootstrap = b, !.endpoints_ = e]] BY <1>1 DEF Bootstrapped, Resolvers
  <2>3. [rs EXCEPT !.o.bootstrap = b] = [rs EXCEPT !.o = [rs.o EXCEPT !.bootstrap = b]] BY <1>1 DEF Resolvers
  <2> QED BY <2>1, <2>2, <2>3
<1>3. [[rs EXCEPT !.o.bootstrap = "none"] EXCEPT !.o.endpoints_ = TRUE] = Bootstrapped(rs, none, on)
  BY <1>1 DEF Bootstrapped, Resolvers, Object
<1>8. none = "none" OBVIOUS
<1>9. running = "running" OBVIOUS
<1> HIDE DEF e, on, none, running
<1>4. CASE BootstrapRuns
  <2>1. rs' = Bootstrapped(rs, running, e) /\ rs.o.bootstrap # "none" BY <1>2, <1>4, <1>9 DEF BootstrapRuns
  <2>2. Sound(Bootstrapped(rs, running, e)) /\ ~Left(Bootstrapped(rs, running, e)) BY <1>1, <1>9, <2>1, BootstrapSound
  <2> QED BY <2>1, <2>2 DEF ResolverInv, NothingLeft
<1>5. CASE OnBootstrap
  <2> DEFINE t == Bootstrapped(rs, none, e)
             u == Bootstrapped(rs, none, on)
  <2>1. rs.o.bootstrap # "none" BY <1>5 DEF OnBootstrap
  <2>2. rs' = OnDoRequestDone(t, "error") \/ rs' \in DoRequest(u)
    <3>1. t = [rs EXCEPT !.o.bootstrap = "none"] BY <1>2, <1>8
    <3> HIDE DEF t, u
    <3>2. u = [t EXCEPT !.o.endpoints_ = TRUE] BY <1>3, <3>1 DEF u
    <3> QED BY <1>5, <3>1, <3>2 DEF OnBootstrap
  <2>3. Sound(t) /\ ~Left(t) /\ t.backend = "doh" /\ t.o.bootstrap = "none"
    <3>1. Sound(t) /\ ~Left(t) /\ t.backend = "doh" /\ t.o.bootstrap = none
      BY <1>1, <1>8, <2>1, BootstrapSound
    <3> QED BY <1>8, <3>1
  <2>4. Asking(u) /\ u.o.reqs_ = << >>
    <3>1. /\ Sound(u) /\ ~Left(u) /\ u.backend = "doh" /\ u.o.reqs_ = << >> /\ u.lookups > 0
          /\ u.o.bootstrap = none
      BY <1>1, <1>8, <2>1, BootstrapSound
    <3> QED BY <1>8, <3>1 DEF Asking
  <2> HIDE DEF t, u
  <2>5. CASE rs' = OnDoRequestDone(t, "error")
    <3>1. NothingLeft(t) BY <2>3 DEF NothingLeft
    <3> QED BY <2>3, <2>5, <3>1, DoneSound DEF ResolverInv
  <2>6. CASE rs' \in DoRequest(u) BY <2>4, <2>6, DoRequestSound DEF ResolverInv
  <2> QED BY <2>2, <2>5, <2>6
<1> QED BY <1>4, <1>5

\* A queue with one element.
LEMMA OnlyOne ==
  ASSUME NEW S, NEW s \in Seq(S), s # << >>, Len(s) <= 1
  PROVE  DOMAIN s = {1} /\ Tail(s) = << >> /\ Head(s) = s[1] /\ s[1] \in S
<1>1. Len(s) = 1
  <2>1. Len(s) \in Nat BY LenProperties
  <2>2. Len(s) # 0 BY EmptySeq
  <2> QED BY <2>1, <2>2
<1>2. DOMAIN s = 1 .. 1 BY <1>1, LenProperties
<1>3. DOMAIN s = {1} BY <1>2
<1>4. s[1] \in S BY <1>1, ElementOfSeq
<1>5. Len(Tail(s)) = 0 /\ Tail(s) \in Seq(S) /\ Head(s) = s[1] BY <1>1, HeadTailProperties
<1>6. Tail(s) = << >> BY <1>5, EmptySeq
<1> QED BY <1>3, <1>4, <1>5, <1>6

\* An answer that was posted, or comes from the C library.
LEMMA AnswerInv == ASSUME ResolverInv, PostedAnswer \/ LibcAnswers PROVE ResolverInv'
<1> DEFINE r == rs
<1>1. /\ Sound(r) /\ r \in Resolvers /\ r.lookups \in Nat /\ r.libc \in Nat
      /\ r.posted \in Seq([n : Nat, ec : Codes, results : Seq(Addresses)])
  BY DEF ResolverInv, Sound, Resolvers
<1>2. SUFFICES ASSUME NEW y, NEW n, NEW ec, NEW results,
                      y = [r EXCEPT !.posted = << >>, !.libc = NoLookup],
                      Coming(r), r.o.cb_ = NoLookup, r.backend # "doh", n = r.lookups, n > 0,
                      ec \in Codes, results \in Seq(Addresses),
                      GoodResults(results, n), ec = "timed_out" => n \in r.expired
               PROVE  Sound(Answered(y, n, ec, results)) /\ NothingLeft(Answered(y, n, ec, results))
  <2>1. CASE PostedAnswer
    <3> DEFINE a == Head(r.posted)
               y == [r EXCEPT !.posted = << >>, !.libc = NoLookup]
    <3>1. r.posted # << >> /\ Len(r.posted) <= 1 BY <1>1, <2>1 DEF PostedAnswer, Sound, Outstanding
    <3>2. /\ DOMAIN r.posted = {1} /\ Tail(r.posted) = << >> /\ a = r.posted[1]
          /\ a \in [n : Nat, ec : Codes, results : Seq(Addresses)]
      <4> DEFINE T == [n : Nat, ec : Codes, results : Seq(Addresses)]
                 p == r.posted
      <4>1. p \in Seq(T) /\ p # << >> /\ Len(p) <= 1 BY <1>1, <3>1
      <4> HIDE DEF T, p
      <4>2. DOMAIN p = {1} /\ Tail(p) = << >> /\ Head(p) = p[1] /\ p[1] \in T BY <4>1, OnlyOne
      <4> QED BY <4>2 DEF T, p
    <3>4. /\ a.n = r.lookups /\ GoodAnswer(r, a) /\ r.libc = NoLookup /\ r.o.cb_ = NoLookup
      BY <3>1, <3>2, <1>1 DEF Sound, Outstanding
    <3>6. [rs EXCEPT !.posted = Tail(@)] = y BY <1>1, <3>2, <3>4 DEF Resolvers
    <3>7. rs' = Answered(y, a.n, a.ec, a.results) BY <2>1, <3>6 DEF PostedAnswer
    <3>8. Coming(r) /\ r.backend # "doh" BY <1>1, <3>1 DEF Coming, Sound, BackEnd
    <3>9. /\ a.n > 0 /\ a.ec \in Codes /\ a.results \in Seq(Addresses) /\ GoodResults(a.results, a.n)
          /\ a.ec = "timed_out" => a.n \in r.expired
      BY <3>2, <3>4 DEF GoodAnswer
    <3> HIDE DEF a, y
    <3>10. y = [r EXCEPT !.posted = << >>, !.libc = NoLookup] BY DEF y
    <3>11. Sound(Answered(y, a.n, a.ec, a.results)) /\ NothingLeft(Answered(y, a.n, a.ec, a.results))
      BY <1>2, <3>4, <3>8, <3>9, <3>10
    <3> QED BY <3>7, <3>11 DEF ResolverInv
  <2>2. CASE LibcAnswers
    <3> DEFINE y == [r EXCEPT !.posted = << >>, !.libc = NoLookup]
               n == r.libc
    <3>1. /\ n # NoLookup /\ n = r.lookups /\ r.posted = << >> /\ r.o.cb_ = NoLookup
          /\ r.backend # "doh" /\ Coming(r)
      BY <1>1, <2>2 DEF LibcAnswers, Sound, Outstanding, BackEnd, Coming
    <3>2. PICK ec \in {"ok", "error"} :
            rs' = Answered([rs EXCEPT !.libc = NoLookup], n, ec, IF ec = "ok" THEN << <<"A", n>> >> ELSE << >>)
      BY <2>2 DEF LibcAnswers
    <3>3. [rs EXCEPT !.libc = NoLookup] = y BY <1>1, <3>1 DEF Resolvers
    <3>4. n > 0 /\ n \in Nat /\ ec \in Codes /\ ec # "timed_out" BY <1>1, <3>1 DEF NoLookup, Codes
    <3> HIDE DEF n, y
    <3> DEFINE results == IF ec = "ok" THEN << <<"A", n>> >> ELSE << >>
    <3>5. results \in Seq(Addresses) /\ GoodResults(results, n)
      <4>1. << >> \in Seq(Addresses) /\ GoodResults(<< >>, n) BY EmptySeq DEF GoodResults
      <4>2. << <<"A", n>> >> \in Seq(Addresses)
        <5>1. <<"A", n>> \in Addresses BY <3>4 DEF Addresses, Families
        <5> QED BY <5>1
      <4>3. GoodResults(<< <<"A", n>> >>, n) BY DEF GoodResults
      <4> QED BY <4>1, <4>2, <4>3
    <3>6. rs' = Answered(y, n, ec, results) BY <3>2, <3>3
    <3> HIDE DEF results
    <3>7. y = [r EXCEPT !.posted = << >>, !.libc = NoLookup] BY DEF y
    <3>8. Sound(Answered(y, n, ec, results)) /\ NothingLeft(Answered(y, n, ec, results))
      BY <1>2, <3>1, <3>4, <3>5, <3>7
    <3> QED BY <3>6, <3>8 DEF ResolverInv
  <2> QED BY <2>1, <2>2
<1> HIDE DEF r
<1>3. y \in Resolvers
  <2>1. << >> \in Seq([n : Nat, ec : Codes, results : Seq(Addresses)]) BY EmptySeq
  <2> QED BY <1>1, <1>2, <2>1 DEF Resolvers, NoLookup
<1>4. /\ y.o = r.o /\ y.due = r.due /\ y.posted = << >> /\ y.closed = r.closed
      /\ y.user = r.user /\ y.backend = r.backend /\ y.lookups = r.lookups /\ y.requests = r.requests
      /\ y.libc = NoLookup /\ y.expired = r.expired /\ y.misplaced = r.misplaced /\ y.answers = r.answers
      /\ y.resolver_inited_ = r.resolver_inited_ /\ y.held = r.held
  BY <1>1, <1>2 DEF Resolvers
<1>5. Answers(y) /\ Timers(y) /\ User(y) /\ ~y.misplaced
  BY <1>1, <1>4 DEF Sound, Answers, GoodAnswer, Timers, User
<1>6. Outstanding(y)
  <2>1. Len(<< >>) <= 1 /\ DOMAIN << >> = {} OBVIOUS
  <2> QED BY <1>2, <1>4, <2>1 DEF Outstanding, Coming
<1>7. RequestsKnown(y) /\ BackEnd(y)
  BY <1>1, <1>2, <1>4 DEF Sound, RequestsKnown, Live, BackEnd
<1>8. Sound(y) BY <1>3, <1>5, <1>6, <1>7 DEF Sound
<1>9. MayAnswer(y, n, ec, results)
  BY <1>1, <1>2, <1>4 DEF MayAnswer, Sound, Outstanding, Coming, BackEnd
<1> QED BY <1>8, <1>9, AnsweredSound

\* A timer expires.
LEMMA TimerExpiresInv == ASSUME ResolverInv, TimerExpires PROVE ResolverInv'
<1> DEFINE r == rs
           x == rs'
           n == r.o.timer
           o == [r.o EXCEPT !.timer = NoLookup]
<1>1. Sound(r) /\ NothingLeft(r) /\ r \in Resolvers /\ r.o \in Object /\ r.lookups \in Nat /\ n \in Nat
  BY DEF ResolverInv, Sound, Resolvers, Object
<1>2. x = [r EXCEPT !.o = o, !.due = @ \cup {n}, !.expired = @ \cup {n}] /\ n # NoLookup
  BY <1>1 DEF TimerExpires, Resolvers
<1>3. o \in Object BY <1>1 DEF Object, NoLookup
<1>4. /\ o.cb_ = r.o.cb_ /\ o.done_ = r.o.done_ /\ o.expired_ = r.o.expired_ /\ o.timer = NoLookup
      /\ o.bootstrap = r.o.bootstrap
      /\ o.reqs_ = r.o.reqs_ /\ o.addrinfo_ = r.o.addrinfo_ /\ o.contexts = r.o.contexts
  BY <1>1 DEF Object
<1>15. n <= r.lookups /\ (r.o.cb_ # NoLookup => n = r.o.cb_)
  BY <1>1, <1>2 DEF Sound, Timers
<1> HIDE DEF o, x, r, n
<1>5. x \in Resolvers BY <1>1, <1>2, <1>3 DEF Resolvers
<1>6. /\ x.o = o /\ x.due = r.due \cup {n} /\ x.posted = r.posted /\ x.closed = r.closed
      /\ x.user = r.user /\ x.backend = r.backend /\ x.lookups = r.lookups /\ x.requests = r.requests
      /\ x.libc = r.libc /\ x.expired = r.expired \cup {n} /\ x.misplaced = r.misplaced /\ x.answers = r.answers
      /\ x.resolver_inited_ = r.resolver_inited_ /\ x.held = r.held
  BY <1>1, <1>2 DEF Resolvers
<1>7. n \in 1 .. r.lookups BY <1>1, <1>2, <1>15 DEF NoLookup
<1>8. Timers(x)
  <2>1. r.due \subseteq r.expired /\ r.due \subseteq 1 .. r.lookups
        /\ (r.o.cb_ # NoLookup => r.due \subseteq {r.o.cb_})
    BY <1>1 DEF Sound, Timers
  <2>2. NoLookup <= r.lookups BY <1>1 DEF NoLookup
  <2> QED BY <1>4, <1>6, <1>7, <1>15, <2>1, <2>2 DEF Timers
<1>9. Answers(x) /\ User(x) /\ ~x.misplaced /\ NothingLeft(x)
  BY <1>1, <1>4, <1>6 DEF Sound, Answers, GoodAnswer, User, NothingLeft, Left
<1>10. Outstanding(x) BY <1>1, <1>4, <1>6 DEF Sound, Outstanding, Coming, GoodAnswer
<1>11. RequestsKnown(x) /\ BackEnd(x)
  BY <1>1, <1>4, <1>6 DEF Sound, RequestsKnown, Live, BackEnd
<1>12. Sound(x) BY <1>5, <1>8, <1>9, <1>10, <1>11 DEF Sound
<1> QED BY <1>9, <1>12 DEF ResolverInv, x

\* The handler of a timer runs, maybe after the lookup has ended.
LEMMA OnTimerInv == ASSUME ResolverInv, OnTimer PROVE ResolverInv'
<1> DEFINE r == rs
<1>1. Sound(r) /\ NothingLeft(r) /\ r \in Resolvers /\ r.o \in Object
  BY DEF ResolverInv, Sound, Resolvers
<1>2. PICK n \in r.due :
        LET t == [r EXCEPT !.due = @ \ {n}] IN
        rs' = IF r.o.done_ THEN t
              ELSE IF r.backend = "doh" THEN OnDoRequestDone(t, "timed_out")
              ELSE AresCancel([t EXCEPT !.o.expired_ = TRUE])
  BY DEF OnTimer
<1> DEFINE t == [r EXCEPT !.due = @ \ {n}]
<1>3. r.o.cb_ # NoLookup => r.o.cb_ = n /\ n \in r.expired BY <1>1 DEF Sound, Timers
<1>4. t \in Resolvers /\ t.due = r.due \ {n} BY <1>1 DEF Resolvers
<1>5. /\ t.o = r.o /\ t.posted = r.posted /\ t.closed = r.closed
      /\ t.user = r.user /\ t.backend = r.backend /\ t.lookups = r.lookups /\ t.requests = r.requests
      /\ t.libc = r.libc /\ t.expired = r.expired /\ t.misplaced = r.misplaced /\ t.answers = r.answers
      /\ t.resolver_inited_ = r.resolver_inited_ /\ t.held = r.held
  BY <1>1 DEF Resolvers
<1>6. rs' = IF r.o.done_ THEN t
            ELSE IF r.backend = "doh" THEN OnDoRequestDone(t, "timed_out")
            ELSE AresCancel([t EXCEPT !.o.expired_ = TRUE])
  BY <1>2
<1> HIDE DEF r, t
<1>7. Answers(t) /\ Timers(t) /\ User(t) /\ ~t.misplaced /\ NothingLeft(t)
  BY <1>1, <1>4, <1>5 DEF Sound, Answers, GoodAnswer, Timers, User, NothingLeft, Left
<1>8. Outstanding(t) BY <1>1, <1>5 DEF Sound, Outstanding, Coming, GoodAnswer
<1>9. RequestsKnown(t) /\ BackEnd(t)
  BY <1>1, <1>5 DEF Sound, RequestsKnown, Live, BackEnd
<1>10. Sound(t) BY <1>4, <1>7, <1>8, <1>9 DEF Sound
<1>11. CASE r.o.done_ BY <1>6, <1>7, <1>10, <1>11 DEF ResolverInv
<1>12. CASE ~r.o.done_ /\ r.backend = "doh"
  <2>1. rs' = OnDoRequestDone(t, "timed_out") BY <1>6, <1>12
  <2>2. t.o.cb_ # NoLookup => t.o.cb_ \in t.expired BY <1>3, <1>5
  <2> QED BY <1>5, <1>7, <1>10, <1>12, <2>1, <2>2, DoneSound DEF ResolverInv
<1>13. CASE ~r.o.done_ /\ r.backend # "doh"
  <2> DEFINE on == TRUE
  <2>1. rs' = AresCancel([t EXCEPT !.o.expired_ = on]) BY <1>6, <1>13
  <2>2. t.o.cb_ \in t.expired BY <1>1, <1>3, <1>5, <1>13 DEF Sound, BackEnd
  <2>3. on \in BOOLEAN OBVIOUS
  <2> HIDE DEF on
  <2> QED BY <1>5, <1>7, <1>10, <1>13, <2>1, <2>2, <2>3, AresCancelled DEF ResolverInv
<1> QED BY <1>11, <1>12, <1>13

\* The user closes: it cancels what the C library has not taken up, or lets go of the back end.
Shut(r, l, h) == [r EXCEPT !.closed = TRUE, !.libc = l, !.held = h]

\* Unless a lookup over HTTPS or TLS is still to be answered, that is all there is to do.
LEMMA ShutSound ==
  ASSUME NEW r, Sound(r), NothingLeft(r), NEW l, l = NoLookup \/ l = r.libc, NEW h, h \in BOOLEAN,
         h = r.held \/ (~h /\ r.user # "stream"),
         ~(r.user = "stream" /\ r.backend = "doh" /\ r.o.cb_ # NoLookup)
  PROVE  LET x == Shut(r, l, h) IN
         Sound(x) /\ NothingLeft(x) /\ x.o = r.o /\ x.backend = r.backend /\ x.expired = r.expired
<1> DEFINE x == Shut(r, l, h)
<1>1. r \in Resolvers /\ r.libc \in Nat BY DEF Sound, Resolvers
<1>2. l \in Nat BY <1>1 DEF NoLookup
<1>3. x \in Resolvers BY <1>1, <1>2 DEF Shut, Resolvers
<1>4. x.libc = l /\ x.held = h BY <1>1 DEF Shut, Resolvers
<1>5. /\ x.o = r.o /\ x.due = r.due /\ x.posted = r.posted
      /\ x.user = r.user /\ x.backend = r.backend /\ x.lookups = r.lookups /\ x.requests = r.requests
      /\ x.expired = r.expired /\ x.misplaced = r.misplaced /\ x.answers = r.answers
      /\ x.resolver_inited_ = r.resolver_inited_
  BY <1>1 DEF Shut, Resolvers
<1> HIDE DEF x
<1>6. Answers(x) /\ Timers(x) /\ ~x.misplaced /\ NothingLeft(x)
  BY <1>5 DEF Sound, Answers, GoodAnswer, Timers, NothingLeft, Left
<1>7. User(x) BY <1>4, <1>5 DEF Sound, User
<1>8. Outstanding(x) BY <1>4, <1>5 DEF Sound, Outstanding, Coming, GoodAnswer
<1>9. RequestsKnown(x) /\ BackEnd(x)
  BY <1>4, <1>5 DEF Sound, RequestsKnown, Live, BackEnd
<1> QED BY <1>3, <1>5, <1>6, <1>7, <1>8, <1>9 DEF Sound, x

\* DoHResolver::Cancel: no answer is to come any more.
LEMMA DoHCancelSound ==
  ASSUME NEW r, Sound(r), NothingLeft(r), r.backend = "doh", r.user = "stream"
  PROVE  LET x == DoHCancel([r EXCEPT !.closed = TRUE]) IN Sound(x) /\ NothingLeft(x)
<1> DEFINE c == [r EXCEPT !.closed = TRUE]
           x == DoHCancel(c)
           y == CloseRequests([r EXCEPT !.o.reqs_ = << >>], r.o.reqs_)
           yc == CloseRequests([c EXCEPT !.o.reqs_ = << >>], c.o.reqs_)
           b == IF r.o.bootstrap = "waiting" THEN "none" ELSE r.o.bootstrap
           o == [y.o EXCEPT !.cb_ = NoLookup, !.timer = NoLookup, !.addrinfo_ = << >>, !.bootstrap = b]
<1>1. r \in Resolvers /\ r.o \in Object BY DEF Sound, Resolvers
<1>2. /\ Sound(y) /\ NothingLeft(y) /\ y.o = [r.o EXCEPT !.reqs_ = << >>]
      /\ y = [r EXCEPT !.o.reqs_ = << >>, !.requests = y.requests]
      /\ \A i \in DOMAIN y.requests : ~Live(y, i)
  BY ClosedSound
<1>3. yc = [y EXCEPT !.closed = TRUE]
  <2>1. c.o = r.o /\ c.requests = r.requests /\ c = [r EXCEPT !.closed = TRUE] BY <1>1 DEF Resolvers
  <2>2. [c EXCEPT !.o.reqs_ = << >>].requests = r.requests /\ [r EXCEPT !.o.reqs_ = << >>].requests = r.requests
    BY <1>1 DEF Resolvers
  <2> DEFINE q == [i \in DOMAIN r.requests |->
                     IF \E k \in DOMAIN r.o.reqs_ : r.o.reqs_[k] = i
                     THEN [r.requests[i] EXCEPT !.cb_ = FALSE, !.stage = "closed"] ELSE r.requests[i]]
  <2>3. yc = [c EXCEPT !.o.reqs_ = << >>, !.requests = q]
    BY <1>1, <2>1, <2>2 DEF CloseRequests, Resolvers
  <2>4. y = [r EXCEPT !.o.reqs_ = << >>, !.requests = q]
    BY <1>1, <2>2 DEF CloseRequests, Resolvers
  <2> HIDE DEF q, y, yc
  <2>5. [r EXCEPT !.o.reqs_ = << >>, !.requests = q] = [r EXCEPT !.o = [r.o EXCEPT !.reqs_ = << >>], !.requests = q]
    BY <1>1 DEF Resolvers
  <2>6. [c EXCEPT !.o.reqs_ = << >>, !.requests = q]
        = [r EXCEPT !.closed = TRUE, !.o = [r.o EXCEPT !.reqs_ = << >>], !.requests = q]
    BY <1>1 DEF Resolvers
  <2> QED BY <1>1, <2>3, <2>4, <2>5, <2>6 DEF Resolvers
<1>4. y \in Resolvers /\ y.o \in Object BY <1>2 DEF Sound, Resolvers
<1>5. y.o.bootstrap = r.o.bootstrap /\ y.o.reqs_ = << >> BY <1>1, <1>2 DEF Object
<1>6. x = [y EXCEPT !.closed = TRUE, !.o = o]
  <2>1. x = [yc EXCEPT !.o.cb_ = NoLookup, !.o.timer = NoLookup, !.o.addrinfo_ = << >>,
                       !.o.bootstrap = IF @ = "waiting" THEN "none" ELSE @]
    BY DEF DoHCancel
  <2> HIDE DEF x, yc, y
  <2>2. yc.o = y.o BY <1>3, <1>4 DEF Resolvers
  <2>3. yc \in Resolvers BY <1>3, <1>4 DEF Resolvers
  <2>4. x = [yc EXCEPT !.o = [yc.o EXCEPT !.cb_ = NoLookup, !.timer = NoLookup, !.addrinfo_ = << >>,
                                          !.bootstrap = IF yc.o.bootstrap = "waiting" THEN "none" ELSE yc.o.bootstrap]]
    BY <2>1, <2>2, <2>3, <1>4 DEF Resolvers, Object
  <2>5. x = [yc EXCEPT !.o = o] BY <1>5, <2>2, <2>4
  <2> HIDE DEF o
  <2> QED BY <1>3, <1>4, <2>5 DEF Resolvers
<1>7. b \in {"none", "waiting", "running"} BY <1>1 DEF Object
<1> HIDE DEF y, b
<1>8. o \in Object
  <2>1. << >> \in Seq(Addresses) BY EmptySeq
  <2> QED BY <2>1, <1>4, <1>7 DEF Object, NoLookup
<1>9. /\ o.cb_ = NoLookup /\ o.done_ = y.o.done_ /\ o.expired_ = y.o.expired_ /\ o.timer = NoLookup
      /\ o.bootstrap = b /\ o.reqs_ = << >> /\ o.addrinfo_ = << >> /\ o.contexts = y.o.contexts
  BY <1>4, <1>5 DEF Object
<1> HIDE DEF o, x
<1>10. x \in Resolvers BY <1>4, <1>6, <1>8 DEF Resolvers
<1>11. /\ x.o = o /\ x.due = y.due /\ x.posted = y.posted
       /\ x.user = y.user /\ x.backend = y.backend /\ x.lookups = y.lookups /\ x.requests = y.requests
       /\ x.libc = y.libc /\ x.expired = y.expired /\ x.misplaced = y.misplaced /\ x.answers = y.answers
       /\ x.resolver_inited_ = y.resolver_inited_ /\ x.held = y.held
  BY <1>4, <1>6 DEF Resolvers
<1>12. y.backend = "doh" /\ y.user = "stream" /\ y.lookups \in Nat
  <2>1. y.backend = r.backend /\ y.user = r.user BY <1>1, <1>2 DEF Resolvers
  <2> QED BY <2>1, <1>4 DEF Resolvers
<1>13. Answers(x) /\ User(x) /\ ~x.misplaced
  BY <1>2, <1>9, <1>11 DEF Sound, Answers, GoodAnswer, User
<1>14. Timers(x)
  <2>1. NoLookup <= y.lookups BY <1>12 DEF NoLookup
  <2> QED BY <2>1, <1>2, <1>9, <1>11 DEF Sound, Timers
<1>15. Outstanding(x)
  <2>1. y.libc = NoLookup /\ y.posted = << >> BY <1>2, <1>12 DEF Sound, BackEnd
  <2>2. Len(<< >>) <= 1 /\ DOMAIN << >> = {} OBVIOUS
  <2> QED BY <2>1, <2>2, <1>9, <1>11 DEF Outstanding, Coming
<1>16. BackEnd(x) BY <1>2, <1>9, <1>11, <1>12 DEF Sound, BackEnd
<1>17. RequestsKnown(x)
  <2>1. b # "none" => y.lookups > 0
    <3>1. b # "none" => y.o.bootstrap # "none" BY <1>5 DEF b
    <3> QED BY <3>1, <1>2 DEF Sound, RequestsKnown
  <2>2. Len(<< >>) = 0 /\ DOMAIN << >> = {} OBVIOUS
  <2> QED BY <2>1, <2>2, <1>2, <1>9, <1>11 DEF Sound, RequestsKnown, Live
<1>18. NothingLeft(x)
  <2> SUFFICES ASSUME Left(x) PROVE b = "none" BY <1>9, <1>11 DEF NothingLeft
  <2>1. CASE y.o.cb_ = NoLookup
    <3>1. y.o.bootstrap = "none" BY <2>1, <1>2, <1>11 DEF NothingLeft, Left
    <3> QED BY <3>1, <1>5 DEF b
  <2>2. CASE y.o.cb_ # NoLookup
    <3>1. Len(y.answers) < y.lookups /\ y.lookups <= 1 BY <1>2, <1>12, <2>2 DEF Sound, Outstanding, Coming, User
    <3>2. y.answers \in Seq([n : Nat, ec : Codes, results : Seq(Addresses), closed : BOOLEAN])
      BY <1>4 DEF Resolvers
    <3>3. Len(y.answers) = 0 BY <1>12, <3>1, <3>2, LenProperties
    <3>4. x.answers = << >> BY <1>11, <3>2, <3>3, EmptySeq
    <3> QED BY <3>4 DEF Left
  <2> QED BY <2>1, <2>2
<1>19. Sound(x) BY <1>10, <1>13, <1>14, <1>15, <1>16, <1>17 DEF Sound
<1> QED BY <1>18, <1>19 DEF x, c

\* A lookup of c-ares that has not timed out.
LEMMA NotExpired ==
  ASSUME NEW r, r \in Resolvers, NEW f, f = FALSE, ~r.o.expired_
  PROVE  [r EXCEPT !.o.expired_ = f] = r
<1>1. r.o \in Object BY DEF Resolvers
<1>2. [r.o EXCEPT !.expired_ = f] = r.o BY <1>1 DEF Object
<1> QED BY <1>1, <1>2 DEF Resolvers

\* The user closes.
LEMMA CloseInv == ASSUME ResolverInv, close PROVE ResolverInv'
<1> DEFINE r == rs
           l == r.libc
           h == r.held
           off == FALSE
           c == [r EXCEPT !.closed = TRUE]
           s == Shut(r, l, h)
<1>1. /\ Sound(r) /\ NothingLeft(r) /\ r \in Resolvers /\ h \in BOOLEAN /\ off \in BOOLEAN
      /\ r.backend \in {"doh", "cares", "libc"}
  BY DEF ResolverInv, Sound, Resolvers
<1>2. c = s BY <1>1 DEF Shut, Resolvers
<1>3. [c EXCEPT !.libc = NoLookup] = Shut(r, NoLookup, h) BY <1>1 DEF Shut, Resolvers
<1>4. Reset(c) = Shut(r, l, off) BY <1>1 DEF Shut, Reset, Resolvers
<1>5. CASE r.user = "connection" /\ rs' = Reset(c)
  <2>1. ~off OBVIOUS
  <2> HIDE DEF l, h, off, r
  <2>2. Sound(Shut(r, l, off)) /\ NothingLeft(Shut(r, l, off)) BY <1>1, <1>5, <2>1, ShutSound DEF l
  <2> QED BY <1>4, <1>5, <2>2 DEF ResolverInv
<1>6. CASE r.user = "stream" /\ rs' \in Cancel(c)
  <2>1. c.held = h /\ c.backend = r.backend BY <1>1 DEF Resolvers
  <2>2. CASE h /\ r.backend = "doh"
    <3>1. rs' = DoHCancel(c) BY <1>6, <2>1, <2>2 DEF Cancel
    <3> QED BY <1>1, <1>6, <2>2, <3>1, DoHCancelSound DEF ResolverInv
  <2>3. CASE ~(h /\ r.backend = "doh")
    <3>1. ~(r.backend = "doh" /\ r.o.cb_ # NoLookup) BY <1>1, <1>6, <2>3 DEF Sound, User
    <3>2. h = r.held /\ l = r.libc OBVIOUS
    <3>3. /\ Sound(s) /\ NothingLeft(s) /\ s.o = r.o /\ s.backend = r.backend /\ s.expired = r.expired
      <4> HIDE DEF l, h
      <4> QED BY <1>1, <3>1, <3>2, ShutSound
    <3>4. Sound(Shut(r, NoLookup, h)) /\ NothingLeft(Shut(r, NoLookup, h))
      <4> DEFINE m == NoLookup
      <4>1. m = NoLookup OBVIOUS
      <4> HIDE DEF l, h, m
      <4>2. Sound(Shut(r, m, h)) /\ NothingLeft(Shut(r, m, h)) BY <1>1, <3>1, <3>2, <4>1, ShutSound
      <4> QED BY <4>1, <4>2
    <3>5. CASE h /\ r.backend = "cares"
      <4>1. rs' = AresCancel(s) BY <1>2, <1>6, <2>1, <3>5 DEF Cancel
      <4>2. CASE s.o.done_ BY <3>3, <4>1, <4>2 DEF AresCancel, ResolverInv
      <4>3. CASE ~s.o.done_
        <5>1. s \in Resolvers /\ ~s.o.expired_ /\ s.backend # "doh" /\ off = FALSE
          BY <3>3, <3>5, <4>3 DEF Sound, BackEnd
        <5> HIDE DEF s, off
        <5>2. [s EXCEPT !.o.expired_ = off] = s BY <5>1, NotExpired
        <5>3. Sound(AresCancel([s EXCEPT !.o.expired_ = off])) /\ NothingLeft(AresCancel([s EXCEPT !.o.expired_ = off]))
          BY <1>1, <3>3, <4>3, <5>1, AresCancelled
        <5> QED BY <4>1, <5>2, <5>3 DEF ResolverInv
      <4> QED BY <4>2, <4>3
    <3>6. CASE ~(h /\ r.backend = "cares")
      <4>1. rs' \in {s, Shut(r, NoLookup, h)} BY <1>2, <1>3, <1>6, <2>1, <2>3, <3>6 DEF Cancel
      <4> QED BY <3>3, <3>4, <4>1 DEF ResolverInv
    <3> QED BY <3>5, <3>6
  <2> QED BY <2>2, <2>3
<1> QED BY <1>5, <1>6 DEF close

\* The waits for a socket are counted.
LEMMA WaitsSound ==
  ASSUME NEW r, Sound(r), NothingLeft(r), r.backend # "doh", NEW i \in DOMAIN r.o.contexts, NEW w \in Nat
  PROVE  LET x == [r EXCEPT !.o.contexts[i].waits = w] IN
         /\ Sound(x) /\ NothingLeft(x) /\ x.backend # "doh"
         /\ DOMAIN x.o.contexts = DOMAIN r.o.contexts
         /\ x.o.contexts[i].enabled = r.o.contexts[i].enabled
<1> DEFINE x == [r EXCEPT !.o.contexts[i].waits = w]
           cs == [r.o.contexts EXCEPT ![i].waits = w]
           n == r.o.timer
           due == r.due
           d == r.dup_failed
           c == r.closed
<1>1. /\ r \in Resolvers /\ r.o \in Object /\ r.o.contexts \in Seq([enabled : BOOLEAN, waits : Nat])
      /\ d \in BOOLEAN /\ c \in BOOLEAN
  BY DEF Sound, Resolvers, Object
<1>2. /\ DOMAIN r.o.contexts = 1 .. Len(r.o.contexts) /\ Len(r.o.contexts) \in Nat
      /\ \A k \in DOMAIN r.o.contexts : r.o.contexts[k] \in [enabled : BOOLEAN, waits : Nat]
  BY <1>1, LenProperties, ElementOfSeq
<1>3. /\ DOMAIN cs = DOMAIN r.o.contexts
      /\ \A k \in DOMAIN r.o.contexts :
           cs[k] \in [enabled : BOOLEAN, waits : Nat] /\ cs[k].enabled = r.o.contexts[k].enabled
  BY <1>2
<1>4. cs \in SocketLists
  <2>1. cs \in [1 .. Len(r.o.contexts) -> [enabled : BOOLEAN, waits : Nat]] BY <1>2, <1>3
  <2> HIDE DEF cs
  <2> QED BY <2>1, <1>2, TableSeq DEF SocketLists
<1>5. x = AresPut(r, cs, n, due, d, c)
  <2>1. x = [r EXCEPT !.o = [r.o EXCEPT !.contexts = cs]] BY <1>1 DEF Resolvers, Object
  <2> HIDE DEF cs, x
  <2>2. [r.o EXCEPT !.contexts = cs] = [r.o EXCEPT !.contexts = cs, !.timer = n] BY <1>1 DEF Object
  <2>3. AresPut(r, cs, n, due, d, c) = [r EXCEPT !.o = [r.o EXCEPT !.contexts = cs, !.timer = n]]
    BY <1>1 DEF AresPut, Resolvers
  <2> QED BY <2>1, <2>2, <2>3
<1>6. n = r.o.timer /\ due \subseteq r.due OBVIOUS
<1> HIDE DEF cs, n, due, d, c, x
<1>7. r.o.done_ => \A k \in DOMAIN cs : ~cs[k].enabled BY <1>3 DEF Sound, BackEnd
<1>8. LET y == AresPut(r, cs, n, due, d, c) IN
      Sound(y) /\ NothingLeft(y) /\ y.backend # "doh" /\ y.o.contexts = cs
  BY <1>1, <1>4, <1>6, <1>7, AresPutSound
<1> QED BY <1>3, <1>5, <1>8 DEF x

\* A socket of c-ares is ready.
LEMMA OnSocketReadyInv ==
  ASSUME ResolverInv, NEW i \in DOMAIN rs.o.contexts, OnSocketReady(i) PROVE ResolverInv'
<1> DEFINE r == rs
           w == r.o.contexts[i].waits - 1
           t == [r EXCEPT !.o.contexts[i].waits = w]
           Again(x) == IF x.o.contexts[i].enabled THEN [x EXCEPT !.o.contexts[i].waits = @ + 1] ELSE x
           k == CloseSockets(t)
           off == FALSE
<1>1. Sound(r) /\ NothingLeft(r) /\ r \in Resolvers /\ r.o \in Object BY DEF ResolverInv, Sound, Resolvers
<1>2. r.backend # "doh"
  <2>1. DOMAIN r.o.contexts # {} OBVIOUS
  <2>2. r.o.contexts # << >> BY <2>1
  <2> QED BY <2>2, <1>1 DEF Sound, BackEnd
<1>3. w \in Nat
  <2>1. r.o.contexts[i].waits \in Nat
    <3>1. r.o.contexts \in Seq([enabled : BOOLEAN, waits : Nat]) BY <1>1 DEF Object
    <3>2. r.o.contexts[i] \in [enabled : BOOLEAN, waits : Nat] BY <3>1, ElementOfSeq, LenProperties
    <3> QED BY <3>2
  <2>2. r.o.contexts[i].waits > 0 BY DEF OnSocketReady
  <2> QED BY <2>1, <2>2
<1>4. \/ rs' = t
      \/ /\ t.o.contexts[i].enabled
         /\ \/ \E status \in {"ok", "error"} : rs' = Again(OnAsyncResolve(k, status))
            \/ rs' \in {Again(x) : x \in OpenSocket(k)}
  BY DEF OnSocketReady
<1>5. off = FALSE /\ off \in BOOLEAN OBVIOUS
<1>6. \A x : Sound(x) /\ NothingLeft(x) /\ x.backend # "doh" /\ i \in DOMAIN x.o.contexts
             => Sound(Again(x)) /\ NothingLeft(Again(x))
  <2> SUFFICES ASSUME NEW x, Sound(x), NothingLeft(x), x.backend # "doh", i \in DOMAIN x.o.contexts,
                      x.o.contexts[i].enabled
               PROVE  Sound(Again(x)) /\ NothingLeft(Again(x))
    OBVIOUS
  <2> DEFINE v == x.o.contexts[i].waits + 1
  <2>1. v \in Nat
    <3>1. x.o.contexts \in Seq([enabled : BOOLEAN, waits : Nat]) BY DEF Sound, Resolvers, Object
    <3>2. x.o.contexts[i] \in [enabled : BOOLEAN, waits : Nat] BY <3>1, ElementOfSeq, LenProperties
    <3> QED BY <3>2
  <2>2. Again(x) = [x EXCEPT !.o.contexts[i].waits = v] OBVIOUS
  <2> HIDE DEF v, Again
  <2>3. Sound([x EXCEPT !.o.contexts[i].waits = v]) /\ NothingLeft([x EXCEPT !.o.contexts[i].waits = v])
    BY <2>1, WaitsSound
  <2> QED BY <2>2, <2>3
<1> HIDE DEF w, Again, off, r
<1>7. i \in DOMAIN r.o.contexts BY DEF r
<1>8. Sound(t) /\ NothingLeft(t) /\ t.backend # "doh" /\ DOMAIN t.o.contexts = DOMAIN r.o.contexts
  BY <1>1, <1>2, <1>3, <1>7, WaitsSound
<1> HIDE DEF t
<1>9. CASE rs' = t BY <1>8, <1>9 DEF ResolverInv
<1>10. CASE t.o.contexts[i].enabled /\ rs' # t
  <2> DEFINE cs == k.o.contexts
             n == t.o.timer
             due == t.due
             d == t.dup_failed
             c == t.closed
  <2>1. /\ t \in Resolvers /\ t.o \in Object /\ d \in BOOLEAN /\ c \in BOOLEAN
    BY <1>8 DEF Sound, Resolvers
  <2>2. ~t.o.done_ /\ ~t.o.expired_ /\ t.o.cb_ # NoLookup
    BY <1>7, <1>8, <1>10 DEF Sound, BackEnd
  <2>3. /\ cs \in SocketLists /\ DOMAIN cs = DOMAIN t.o.contexts /\ (\A j \in DOMAIN cs : ~cs[j].enabled)
        /\ k = [t EXCEPT !.o.contexts = cs]
    BY <2>1, SocketsClosed
  <2> HIDE DEF cs, k
  <2>4. k = AresPut(t, cs, n, due, d, c)
    <3>1. k = [t EXCEPT !.o = [t.o EXCEPT !.contexts = cs]] BY <2>1, <2>3 DEF Resolvers
    <3>2. [t.o EXCEPT !.contexts = cs] = [t.o EXCEPT !.contexts = cs, !.timer = n] BY <2>1 DEF Object
    <3>3. AresPut(t, cs, n, due, d, c) = [t EXCEPT !.o = [t.o EXCEPT !.contexts = cs, !.timer = n]]
      BY <2>1 DEF AresPut, Resolvers
    <3> QED BY <3>1, <3>2, <3>3
  <2>5. n = t.o.timer /\ due \subseteq t.due OBVIOUS
  <2> HIDE DEF n, due, d, c
  <2>6. LET y == AresPut(t, cs, n, due, d, c) IN
        /\ Sound(y) /\ NothingLeft(y) /\ y.backend # "doh" /\ y.o.contexts = cs /\ y.o.done_ = t.o.done_
        /\ y.o.cb_ = t.o.cb_ /\ y.o.expired_ = t.o.expired_
    BY <1>8, <2>1, <2>3, <2>5, AresPutSound
  <2>7. /\ Sound(k) /\ NothingLeft(k) /\ k.backend # "doh" /\ k.o.contexts = cs /\ ~k.o.done_
        /\ k.o.cb_ # NoLookup /\ ~k.o.expired_ /\ k \in Resolvers /\ i \in DOMAIN cs
    BY <1>7, <1>8, <2>2, <2>3, <2>4, <2>6 DEF Sound
  <2>8. CASE \E status \in {"ok", "error"} : rs' = Again(OnAsyncResolve(k, status))
    <3>1. PICK status \in {"ok", "error"} : rs' = Again(OnAsyncResolve(k, status)) BY <2>8
    <3> DEFINE x == OnAsyncResolve([k EXCEPT !.o.expired_ = off], status)
    <3>2. [k EXCEPT !.o.expired_ = off] = k BY <1>5, <2>7, NotExpired
    <3>3. Sound(x) /\ NothingLeft(x) /\ x.backend # "doh" /\ x.o.contexts = k.o.contexts
      BY <1>5, <2>3, <2>7, AresEnded
    <3>4. rs' = Again(x) BY <3>1, <3>2
    <3> HIDE DEF x
    <3> QED BY <1>6, <2>7, <3>3, <3>4 DEF ResolverInv
  <2>9. CASE rs' \in {Again(x) : x \in OpenSocket(k)}
    <3>1. PICK x \in OpenSocket(k) : rs' = Again(x) BY <2>9
    <3>2. Sound(x) /\ NothingLeft(x) /\ x.backend # "doh" /\ DOMAIN k.o.contexts \subseteq DOMAIN x.o.contexts
      BY <2>7, OpenSocketSound
    <3> QED BY <1>6, <2>7, <3>1, <3>2 DEF ResolverInv
  <2> QED BY <1>4, <1>10, <2>8, <2>9
<1> QED BY <1>4, <1>9, <1>10

\* Every step keeps the invariant.
LEMMA ResolverStep == ResolverInv /\ [ResolverNext]_rs => ResolverInv'
<1> SUFFICES ASSUME ResolverInv, [ResolverNext]_rs PROVE ResolverInv' OBVIOUS
<1>1. CASE Lookup BY <1>1, LookupInv
<1>2. CASE close BY <1>2, CloseInv
<1>3. CASE Server BY <1>3, RequestGoesOnInv, RequestEndsInv DEF Server
<1>4. CASE Handlers
  BY <1>4, BootstrapInv, AnswerInv, TimerExpiresInv, OnTimerInv, RequestEndsInv DEF Handlers
<1>5. CASE Sockets BY <1>5, OnSocketReadyInv DEF Sockets
<1>6. CASE rs' = rs BY <1>6 DEF ResolverInv
<1> QED BY <1>1, <1>2, <1>3, <1>4, <1>5, <1>6 DEF ResolverNext

\* A lookup is answered once, with the addresses of its own name, those of IPv4 first, and as
\* timed out only if its own timer expired; a stream that has cancelled a lookup over HTTPS or
\* TLS is not answered any more; a request is taken out of reqs_ where it was put (resolver.cpp).
THEOREM AnswersCorrect == ResolverSpec => []AnswersRight
<1>1. ResolverInv => AnswersRight
  <2> SUFFICES ASSUME ResolverInv PROVE AnswersRight OBVIOUS
  <2>1. ~rs.misplaced /\ Answers(rs) BY DEF ResolverInv, Sound
  <2>2. \A i \in DOMAIN rs.answers : GoodResults(rs.answers[i].results, rs.answers[i].n)
                                     /\ (rs.answers[i].ec = "timed_out" => rs.answers[i].n \in rs.expired)
    BY <2>1 DEF Answers, GoodAnswer
  <2> QED BY <2>1, <2>2 DEF AnswersRight, Answers, GoodResults
<1> QED BY <1>1, ResolverStart, ResolverStep, PTL DEF ResolverSpec

-----------------------------------------------------------------------------
(* The parser of HTTP heads. *)

\* hp is a record of the fields it starts with.
HeadFields ==
  {"kind", "first", "lines", "at", "broken", "status", "headers_done", "method", "url", "version", "host", "port",
   "headers", "is_connect", "content_type", "connection", "proxy_authorization", "status_code", "added", "forwarded"}
HeadShape(p) == p = [f \in HeadFields |-> p[f]]

\* What the loop over the header lines leaves alone.
LoopKeeps(p, q) ==
  /\ HeadShape(q)
  /\ q.kind = p.kind /\ q.first = p.first /\ q.lines = p.lines /\ q.at = p.at /\ q.broken = p.broken
  /\ q.method = p.method /\ q.url = p.url /\ q.version = p.version /\ q.is_connect = p.is_connect
  /\ q.added = p.added /\ q.forwarded = p.forwarded

\* What the first i lines say: whether the loop has ended at one of them, and
\* which of them is the last about something.
Fails(p, i) == \E j \in 1 .. i : BadHost(p, p.lines[j])
NoneOf(p, words, i) == \A j \in 1 .. i : Word(p.lines[j]) \notin words
LastOf(p, words, i, k) ==
  k \in 1 .. i /\ Word(p.lines[k]) \in words /\ \A j \in 1 .. i : Word(p.lines[j]) \in words => j <= k

\* What has been read of the first i lines: what the last line says wins.
HostRead(p, q, i) ==
  /\ p.is_connect \/ NoneOf(p, {"Host"}, i) => q.host = p.host /\ q.port = p.port
  /\ ~p.is_connect => \A k \in 1 .. i : LastOf(p, {"Host"}, i, k) =>
       q.host = HostOf(p.lines[k].value) /\ q.port = PortOf(p.lines[k].value)
ConnectionRead(p, q, i) ==
  LET words == {"Connection", "Proxy-Connection"} IN
  /\ NoneOf(p, words, i) => q.connection = p.connection
  /\ \A k \in 1 .. i : LastOf(p, words, i, k) => q.connection = p.lines[k].value
TokenRead(p, q, i) ==
  LET words == {"Proxy-Authorization"} IN
  /\ NoneOf(p, words, i) => q.proxy_authorization = p.proxy_authorization
  /\ \A k \in 1 .. i : LastOf(p, words, i, k) => q.proxy_authorization = p.lines[k].value
LinesRead(p, q, i) ==
  /\ DOMAIN q.headers = {p.lines[k].name : k \in 1 .. i}
  /\ \A k \in 1 .. i : (\A j \in 1 .. i : p.lines[j].name = p.lines[k].name => j <= k) =>
       q.headers[p.lines[k].name] = p.lines[k].value

\* The parser after i turns of the loop.
Turned(p, q, i) ==
  /\ LoopKeeps(p, q)
  /\ Fails(p, i) => q.status = "Error"
  /\ ~Fails(p, i) => q.status = p.status /\ HostRead(p, q, i) /\ ConnectionRead(p, q, i)
                     /\ TokenRead(p, q, i) /\ LinesRead(p, q, i)

\* Induction: a set with 0 and with every number's successor has all numbers.
LEMMA NatInduct ==
  ASSUME NEW S, 0 \in S, \A n \in Nat : n \in S => n + 1 \in S
  PROVE  Nat \subseteq S
<1> DEFINE R == {p \in Nat \X Nat : p[1] < p[2]}
           X == Nat \ S
<1>1. SUFFICES ASSUME X # {} PROVE FALSE
  OBVIOUS
<1>2. IsWellFoundedOn(R, Nat)
  BY NatLessThanWellFounded DEF OpToRel
<1>3. X \subseteq Nat
  OBVIOUS
<1> HIDE DEF X, R
<1>4. PICK x \in X : \A y \in X : ~(<<y, x>> \in R)
  BY WFMin, <1>1, <1>2, <1>3
<1>5. x \in Nat /\ x \notin S
  BY <1>4 DEF X
<1>6. x - 1 \in Nat
  BY <1>5
<1>7. x - 1 \in S
  <2>1. <<x - 1, x>> \in R
    BY <1>5, <1>6 DEF R
  <2> QED BY <1>4, <1>6, <2>1 DEF X
<1>8. (x - 1) + 1 \in S
  BY <1>6, <1>7
<1> QED BY <1>5, <1>8

\* The function of the turns exists.
LEMMA TurnExists ==
  ASSUME NEW p, NEW m \in Nat
  PROVE  \E f : f = [i \in 0 .. m |-> IF i = 0 THEN p
                                      ELSE IF \E j \in 1 .. i - 1 : BadHost(p, p.lines[j]) THEN f[i - 1]
                                      ELSE OnLine(f[i - 1], p.lines[i])]
<1> DEFINE G(i, q) == IF \E j \in 1 .. i - 1 : BadHost(p, p.lines[j]) THEN q ELSE OnLine(q, p.lines[i])
           S == {n \in Nat : \E f : f = [i \in 0 .. n |-> IF i = 0 THEN p ELSE G(i, f[i - 1])]}
<1> HIDE DEF G
<1>1. 0 \in S
  <2> DEFINE f == [i \in 0 .. 0 |-> p]
  <2>1. f = [i \in 0 .. 0 |-> IF i = 0 THEN p ELSE G(i, f[i - 1])]
    OBVIOUS
  <2> QED BY <2>1
<1>2. ASSUME NEW n \in Nat, n \in S PROVE n + 1 \in S
  <2>1. PICK f : f = [i \in 0 .. n |-> IF i = 0 THEN p ELSE G(i, f[i - 1])]
    BY <1>2
  <2> DEFINE g == [i \in 0 .. n + 1 |-> IF i = n + 1 THEN G(i, f[n]) ELSE f[i]]
  <2>2. \A i \in 0 .. n + 1 : g[i] = IF i = 0 THEN p ELSE G(i, g[i - 1])
    <3>1. SUFFICES ASSUME NEW i \in 0 .. n + 1 PROVE g[i] = IF i = 0 THEN p ELSE G(i, g[i - 1])
      OBVIOUS
    <3>2. CASE i = 0
      <4>1. g[i] = f[0]
        BY <3>2
      <4>2. f[0] = p
        BY <2>1
      <4> QED BY <3>2, <4>1, <4>2
    <3>3. CASE i = n + 1
      <4>1. n \in 0 .. n + 1 /\ n # n + 1 /\ i - 1 = n /\ i # 0
        BY <3>3
      <4>2. g[n] = f[n]
        BY <4>1
      <4>3. g[i] = G(i, f[n])
        BY <3>3
      <4> QED BY <4>1, <4>2, <4>3
    <3>4. CASE i # 0 /\ i # n + 1
      <4>1. i \in 0 .. n /\ i - 1 \in 0 .. n + 1 /\ i - 1 # n + 1
        BY <3>4
      <4>2. g[i] = f[i] /\ g[i - 1] = f[i - 1]
        BY <3>4, <4>1
      <4>3. f[i] = G(i, f[i - 1])
        BY <2>1, <3>4, <4>1
      <4> QED BY <3>4, <4>2, <4>3
    <3> QED BY <3>2, <3>3, <3>4
  <2> HIDE DEF g
  <2>3. g = [i \in 0 .. n + 1 |-> g[i]]
    BY DEF g
  <2>4. g = [i \in 0 .. n + 1 |-> IF i = 0 THEN p ELSE G(i, g[i - 1])]
    BY <2>2, <2>3
  <2> QED BY <2>4
<1> HIDE DEF S
<1>3. m \in S
  BY <1>1, <1>2, NatInduct
<1>4. PICK f : f = [i \in 0 .. m |-> IF i = 0 THEN p ELSE G(i, f[i - 1])]
  BY <1>3 DEF S
<1> QED BY <1>4 DEF G

\* One turn: what the line sets.
LEMMA OneLineSets ==
  ASSUME NEW q, NEW line, HeadShape(q), q.is_connect \in BOOLEAN
  PROVE  LET r == OnLine(q, line)
             host == Is(line, "Host") /\ ~q.is_connect
             bad == BadHost(q, line)
         IN /\ LoopKeeps(q, r)
            /\ r.status = IF bad THEN "Error" ELSE q.status
            /\ r.headers = SetHeader(q.headers, line)
            /\ ~bad => r.host = (IF host THEN HostOf(line.value) ELSE q.host)
                       /\ r.port = (IF host THEN PortOf(line.value) ELSE q.port)
            /\ ~bad => r.connection = IF Is(line, "Connection") \/ Is(line, "Proxy-Connection") THEN line.value ELSE q.connection
            /\ ~bad => r.proxy_authorization = IF Is(line, "Proxy-Authorization") THEN line.value ELSE q.proxy_authorization
<1> DEFINE h == [q EXCEPT !.headers = SetHeader(@, line)]
           H == SetHeader(q.headers, line)
<1> HIDE DEF H
<1>0. /\ HeadShape(h) /\ LoopKeeps(q, h) /\ h.headers = H
      /\ h.status = q.status /\ h.host = q.host /\ h.port = q.port /\ h.connection = q.connection
      /\ h.proxy_authorization = q.proxy_authorization
  <2>1. h = [q EXCEPT !.headers = H]
    BY DEF H
  <2> HIDE DEF h
  <2> QED BY <2>1 DEF HeadShape, HeadFields, LoopKeeps
<1>1. CASE BadHost(q, line)
  <2>1. OnLine(q, line) = Failed(h)
    BY <1>1 DEF OnLine, BadHost, Is
  <2> HIDE DEF h
  <2> QED BY <1>0, <1>1, <2>1 DEF Failed, HeadShape, HeadFields, LoopKeeps, H
<1>2. CASE ~BadHost(q, line) /\ Is(line, "Host") /\ ~q.is_connect
  <2>1. OnLine(q, line) = [h EXCEPT !.host = HostOf(line.value), !.port = PortOf(line.value)]
    BY <1>2 DEF OnLine, Is
  <2>2. ~Is(line, "Connection") /\ ~Is(line, "Proxy-Connection") /\ ~Is(line, "Proxy-Authorization")
    BY <1>2 DEF Is
  <2> HIDE DEF h
  <2> QED BY <1>0, <1>2, <2>1, <2>2 DEF HeadShape, HeadFields, LoopKeeps, H
<1>3. CASE ~BadHost(q, line) /\ ~(Is(line, "Host") /\ ~q.is_connect)
  <2>1. CASE Is(line, "Content-Type")
    <3>1. OnLine(q, line) = [h EXCEPT !.content_type = line.value]
      BY <1>3, <2>1 DEF OnLine, Is
    <3>2. ~Is(line, "Connection") /\ ~Is(line, "Proxy-Connection") /\ ~Is(line, "Proxy-Authorization")
      BY <2>1 DEF Is
    <3> HIDE DEF h
    <3> QED BY <1>0, <1>3, <3>1, <3>2 DEF HeadShape, HeadFields, LoopKeeps, H
  <2>2. CASE Is(line, "Connection") \/ Is(line, "Proxy-Connection")
    <3>1. OnLine(q, line) = [h EXCEPT !.connection = line.value]
      BY <1>3, <2>2 DEF OnLine, Is
    <3>2. ~Is(line, "Proxy-Authorization")
      BY <2>2 DEF Is
    <3> HIDE DEF h
    <3> QED BY <1>0, <1>3, <2>2, <3>1, <3>2 DEF HeadShape, HeadFields, LoopKeeps, H
  <2>3. CASE Is(line, "Proxy-Authorization")
    <3>1. OnLine(q, line) = [h EXCEPT !.proxy_authorization = line.value]
      BY <1>3, <2>3 DEF OnLine, Is
    <3>2. ~Is(line, "Connection") /\ ~Is(line, "Proxy-Connection")
      BY <2>3 DEF Is
    <3> HIDE DEF h
    <3> QED BY <1>0, <1>3, <2>3, <3>1, <3>2 DEF HeadShape, HeadFields, LoopKeeps, H
  <2>4. CASE ~Is(line, "Content-Type") /\ ~Is(line, "Connection") /\ ~Is(line, "Proxy-Connection")
             /\ ~Is(line, "Proxy-Authorization")
    <3>1. OnLine(q, line) = h
      BY <1>3, <2>4 DEF OnLine
    <3> HIDE DEF h
    <3> QED BY <1>0, <1>3, <2>4, <3>1 DEF H
  <2> QED BY <2>1, <2>2, <2>3, <2>4
<1> QED BY <1>1, <1>2, <1>3

\* What a turn does to what the lines before it said.
LEMMA OneMore ==
  ASSUME NEW p, NEW i \in Nat, NEW words
  PROVE  LET n == i + 1 IN
         /\ NoneOf(p, words, n) <=> NoneOf(p, words, i) /\ Word(p.lines[n]) \notin words
         /\ Word(p.lines[n]) \notin words => \A k \in 1 .. n : LastOf(p, words, n, k) => k \in 1 .. i /\ LastOf(p, words, i, k)
         /\ Word(p.lines[n]) \in words => \A k \in 1 .. n : LastOf(p, words, n, k) => k = n
<1> DEFINE n == i + 1
<1>1. 1 .. n = 1 .. i \cup {n} /\ n \in 1 .. n /\ \A k \in 1 .. n : n <= k => k = n
  OBVIOUS
<1> HIDE DEF n
<1>2. NoneOf(p, words, n) <=> NoneOf(p, words, i) /\ Word(p.lines[n]) \notin words
  BY <1>1 DEF NoneOf
<1>3. ASSUME Word(p.lines[n]) \notin words, NEW k \in 1 .. n, LastOf(p, words, n, k)
      PROVE  k \in 1 .. i /\ LastOf(p, words, i, k)
  BY <1>1, <1>3 DEF LastOf
<1>4. ASSUME Word(p.lines[n]) \in words, NEW k \in 1 .. n, LastOf(p, words, n, k) PROVE k = n
  BY <1>1, <1>4 DEF LastOf
<1>5. QED BY <1>2, <1>3, <1>4 DEF n

\* The lines by name, after one more.
LEMMA OneMoreLine ==
  ASSUME NEW p, NEW q, NEW r, NEW i \in Nat, LinesRead(p, q, i),
         r.headers = SetHeader(q.headers, p.lines[i + 1])
  PROVE  LinesRead(p, r, i + 1)
<1> DEFINE n == i + 1
           name == p.lines[n].name
           h == q.headers
           g == r.headers
<1>1. 1 .. n = 1 .. i \cup {n} /\ n \in 1 .. n /\ n \notin 1 .. i /\ \A k \in 1 .. n : n <= k => k = n
  OBVIOUS
<1>2. g = [x \in {name} \cup DOMAIN h |-> IF x = name THEN p.lines[n].value ELSE h[x]]
  BY DEF SetHeader
<1>3. /\ DOMAIN h = {p.lines[k].name : k \in 1 .. i}
      /\ \A k \in 1 .. i : (\A j \in 1 .. i : p.lines[j].name = p.lines[k].name => j <= k) =>
           h[p.lines[k].name] = p.lines[k].value
  BY DEF LinesRead
<1> HIDE DEF n, h, g
<1>4. DOMAIN g = {p.lines[k].name : k \in 1 .. n}
  BY <1>1, <1>2, <1>3
<1>5. ASSUME NEW k \in 1 .. n, \A j \in 1 .. n : p.lines[j].name = p.lines[k].name => j <= k
      PROVE  g[p.lines[k].name] = p.lines[k].value
  <2>1. CASE k = n
    BY <1>2, <2>1
  <2>2. CASE k # n
    <3>1. k \in 1 .. i
      BY <1>1, <2>2
    <3>2. p.lines[k].name # name
      BY <1>1, <1>5, <2>2
    <3>3. h[p.lines[k].name] = p.lines[k].value
      BY <1>1, <1>3, <1>5, <3>1
    <3>4. p.lines[k].name \in DOMAIN h
      BY <1>3, <3>1
    <3> QED BY <1>2, <3>2, <3>3, <3>4
  <2> QED BY <2>1, <2>2
<1> QED BY <1>4, <1>5 DEF LinesRead, n, g

LEMMA LoopKeepsOn ==
  ASSUME NEW p, NEW q, NEW r, LoopKeeps(p, q), LoopKeeps(q, r)
  PROVE  LoopKeeps(p, r)
BY DEF LoopKeeps

\* A turn of the loop.
LEMMA OneTurn ==
  ASSUME NEW p, p.is_connect \in BOOLEAN, NEW q, NEW i \in Nat, Turned(p, q, i), ~Fails(p, i)
  PROVE  Turned(p, OnLine(q, p.lines[i + 1]), i + 1)
<1> DEFINE n == i + 1
           line == p.lines[n]
           r == OnLine(q, line)
<1>1. LoopKeeps(p, q) /\ HeadShape(q) /\ q.is_connect = p.is_connect /\ q.is_connect \in BOOLEAN
  BY DEF Turned, LoopKeeps
<1>2. /\ q.status = p.status /\ HostRead(p, q, i) /\ ConnectionRead(p, q, i)
      /\ TokenRead(p, q, i) /\ LinesRead(p, q, i)
  BY DEF Turned
<1>3. BadHost(q, line) <=> BadHost(p, line)
  BY <1>1 DEF BadHost
<1>4. Fails(p, n) <=> BadHost(p, line)
  <2>1. 1 .. n = 1 .. i \cup {n}
    OBVIOUS
  <2> HIDE DEF n
  <2> QED BY <2>1 DEF Fails
<1>5. /\ LoopKeeps(q, r)
      /\ r.status = IF BadHost(q, line) THEN "Error" ELSE q.status
      /\ r.headers = SetHeader(q.headers, line)
      /\ ~BadHost(q, line) =>
           /\ r.host = (IF Is(line, "Host") /\ ~q.is_connect THEN HostOf(line.value) ELSE q.host)
           /\ r.port = (IF Is(line, "Host") /\ ~q.is_connect THEN PortOf(line.value) ELSE q.port)
           /\ r.connection = IF Is(line, "Connection") \/ Is(line, "Proxy-Connection") THEN line.value ELSE q.connection
           /\ r.proxy_authorization = IF Is(line, "Proxy-Authorization") THEN line.value ELSE q.proxy_authorization
  <2> HIDE DEF line
  <2> QED BY <1>1, OneLineSets
<1>6. LoopKeeps(p, r)
  <2> HIDE DEF r
  <2> QED BY <1>1, <1>5, LoopKeepsOn
<1>7. CASE Fails(p, n)
  <2>1. r.status = "Error"
    BY <1>3, <1>4, <1>5, <1>7
  <2> HIDE DEF r, n
  <2>2. Turned(p, r, n)
    BY <1>6, <1>7, <2>1 DEF Turned
  <2> QED BY <2>2 DEF r, n
<1>8. CASE ~Fails(p, n)
  <2>0. LinesRead(p, r, n)
    <3> HIDE DEF r
    <3> QED BY <1>2, <1>5, OneMoreLine
  <2> HIDE DEF r
  <2>1. HostRead(p, r, n)
    <3>1. /\ NoneOf(p, {"Host"}, n) <=> NoneOf(p, {"Host"}, i) /\ Word(line) # "Host"
          /\ Word(line) # "Host" =>
               \A k \in 1 .. n : LastOf(p, {"Host"}, n, k) => k \in 1 .. i /\ LastOf(p, {"Host"}, i, k)
          /\ Word(line) = "Host" => \A k \in 1 .. n : LastOf(p, {"Host"}, n, k) => k = n
      BY OneMore
    <3> HIDE DEF n
    <3> QED BY <1>1, <1>2, <1>3, <1>4, <1>5, <1>8, <3>1 DEF HostRead, Is
  <2>2. ConnectionRead(p, r, n)
    <3> DEFINE words == {"Connection", "Proxy-Connection"}
    <3>1. /\ NoneOf(p, words, n) <=> NoneOf(p, words, i) /\ Word(line) \notin words
          /\ Word(line) \notin words =>
               \A k \in 1 .. n : LastOf(p, words, n, k) => k \in 1 .. i /\ LastOf(p, words, i, k)
          /\ Word(line) \in words => \A k \in 1 .. n : LastOf(p, words, n, k) => k = n
      <4> HIDE DEF words
      <4> QED BY OneMore
    <3> HIDE DEF n
    <3> QED BY <1>1, <1>2, <1>3, <1>4, <1>5, <1>8, <3>1 DEF ConnectionRead, Is
  <2>3. TokenRead(p, r, n)
    <3> DEFINE words == {"Proxy-Authorization"}
    <3>1. /\ NoneOf(p, words, n) <=> NoneOf(p, words, i) /\ Word(line) \notin words
          /\ Word(line) \notin words =>
               \A k \in 1 .. n : LastOf(p, words, n, k) => k \in 1 .. i /\ LastOf(p, words, i, k)
          /\ Word(line) \in words => \A k \in 1 .. n : LastOf(p, words, n, k) => k = n
      <4> HIDE DEF words
      <4> QED BY OneMore
    <3> HIDE DEF n
    <3> QED BY <1>1, <1>2, <1>3, <1>4, <1>5, <1>8, <3>1 DEF TokenRead, Is
  <2>4. r.status = p.status
    BY <1>2, <1>3, <1>4, <1>5, <1>8
  <2> HIDE DEF n
  <2>5. Turned(p, r, n)
    BY <1>6, <1>8, <2>0, <2>1, <2>2, <2>3, <2>4 DEF Turned
  <2> QED BY <2>5 DEF r, n
<1> QED BY <1>7, <1>8

\* The whole loop.
LEMMA LoopReads ==
  ASSUME NEW p, HeadShape(p), p.is_connect \in BOOLEAN, p.headers = << >>, Len(p.lines) \in Nat
  PROVE  Turned(p, ProcessHeaders(p), Len(p.lines))
<1> DEFINE m == Len(p.lines)
           Is0(f) == f = [i \in 0 .. m |-> IF i = 0 THEN p
                                       ELSE IF \E j \in 1 .. i - 1 : BadHost(p, p.lines[j]) THEN f[i - 1]
                                       ELSE OnLine(f[i - 1], p.lines[i])]
           turn == CHOOSE f : Is0(f)
<1>1. ProcessHeaders(p) = turn[m]
  BY DEF ProcessHeaders
<1>2. \E f : Is0(f)
  BY TurnExists
<1>3. Is0(turn)
  <2> HIDE DEF Is0
  <2> QED BY <1>2
<1> HIDE DEF turn
<1>4. turn[0] = p
  BY <1>3
<1>5. ASSUME NEW i \in Nat, i + 1 <= m
      PROVE  turn[i + 1] = IF Fails(p, i) THEN turn[i] ELSE OnLine(turn[i], p.lines[i + 1])
  <2>1. i + 1 \in 0 .. m /\ i + 1 # 0 /\ (i + 1) - 1 = i
    BY <1>5
  <2> QED BY <1>3, <2>1 DEF Fails
<1> HIDE DEF m, Is0
<1> DEFINE S == {i \in Nat : i <= m => Turned(p, turn[i], i)}
<1>6. 0 \in S
  <2>1. 1 .. 0 = {}
    OBVIOUS
  <2>2. ~Fails(p, 0) /\ HostRead(p, p, 0) /\ ConnectionRead(p, p, 0) /\ TokenRead(p, p, 0)
    BY <2>1 DEF Fails, HostRead, ConnectionRead, TokenRead, NoneOf
  <2>3. LinesRead(p, p, 0)
    <3>1. DOMAIN p.headers = {}
      OBVIOUS
    <3> QED BY <2>1, <3>1 DEF LinesRead
  <2>4. LoopKeeps(p, p)
    BY DEF LoopKeeps
  <2> QED BY <1>4, <2>2, <2>3, <2>4 DEF Turned
<1>7. ASSUME NEW i \in Nat, i \in S PROVE i + 1 \in S
  <2>1. SUFFICES ASSUME i + 1 <= m PROVE Turned(p, turn[i + 1], i + 1)
    OBVIOUS
  <2>2. Turned(p, turn[i], i)
    BY <1>7, <2>1 DEF m
  <2>3. CASE ~Fails(p, i)
    <3>1. Turned(p, OnLine(turn[i], p.lines[i + 1]), i + 1)
      BY <2>2, <2>3, OneTurn
    <3> QED BY <1>5, <2>1, <2>3, <3>1
  <2>4. CASE Fails(p, i)
    <3>1. turn[i + 1] = turn[i]
      BY <1>5, <2>1, <2>4
    <3>2. Fails(p, i + 1)
      BY <2>4 DEF Fails
    <3> QED BY <2>2, <2>4, <3>1, <3>2 DEF Turned
  <2> QED BY <2>3, <2>4
<1> HIDE DEF S
<1>8. m \in S
  BY <1>6, <1>7, NatInduct DEF m
<1>9. Turned(p, turn[m], m)
  BY <1>8 DEF S, m
<1> QED BY <1>1, <1>9 DEF m

\* There is a last line about something, unless there is none.
LEMMA LastExists ==
  ASSUME NEW p, NEW words, NEW n \in Nat
  PROVE  NoneOf(p, words, n) \/ \E k \in 1 .. n : LastOf(p, words, n, k)
<1> DEFINE S == {i \in Nat : NoneOf(p, words, i) \/ \E k \in 1 .. i : LastOf(p, words, i, k)}
<1>1. 0 \in S
  BY DEF NoneOf
<1>2. ASSUME NEW i \in Nat, i \in S PROVE i + 1 \in S
  <2> DEFINE m == i + 1
  <2>0. m \in Nat /\ 1 .. m = 1 .. i \cup {m} /\ m \in 1 .. m /\ \A j \in 1 .. m : j <= m
    OBVIOUS
  <2> HIDE DEF m
  <2>1. CASE Word(p.lines[m]) \in words
    <3>1. LastOf(p, words, m, m)
      BY <2>0, <2>1 DEF LastOf
    <3> QED BY <2>0, <3>1 DEF m
  <2>2. CASE Word(p.lines[m]) \notin words
    <3>1. NoneOf(p, words, i) => NoneOf(p, words, m)
      BY <2>0, <2>2 DEF NoneOf
    <3>2. \A k \in 1 .. i : LastOf(p, words, i, k) => k \in 1 .. m /\ LastOf(p, words, m, k)
      BY <2>0, <2>2 DEF LastOf
    <3> QED BY <1>2, <2>0, <3>1, <3>2 DEF m
  <2> QED BY <2>1, <2>2
<1> HIDE DEF S
<1>3. n \in S
  BY <1>1, <1>2, NatInduct
<1> QED BY <1>3 DEF S

\* Last is that line.
LEMMA LastIs ==
  ASSUME NEW p, NEW words, p.lines \in Seq(Lines)
  PROVE  LET n == Len(p.lines) IN
         /\ Last(p, words) = 0 => NoneOf(p, words, n)
         /\ Last(p, words) # 0 => Last(p, words) \in 1 .. n /\ LastOf(p, words, n, Last(p, words))
<1> DEFINE n == Len(p.lines)
           some == {i \in 1 .. n : Word(p.lines[i]) \in words}
<1>1. n \in Nat /\ DOMAIN p.lines = 1 .. n
  OBVIOUS
<1>2. Last(p, words) = IF some = {} THEN 0 ELSE CHOOSE i \in some : \A j \in some : j <= i
  BY <1>1 DEF Last
<1>3. NoneOf(p, words, n) <=> some = {}
  BY DEF NoneOf
<1>4. \A k : LastOf(p, words, n, k) <=> k \in some /\ \A j \in some : j <= k
  BY DEF LastOf
<1>5. NoneOf(p, words, n) \/ \E k \in 1 .. n : LastOf(p, words, n, k)
  BY <1>1, LastExists
<1>6. some \subseteq 1 .. n /\ 0 \notin 1 .. n
  BY <1>1
<1> HIDE DEF n, some
<1>7. CASE some = {}
  BY <1>2, <1>3, <1>7 DEF n
<1>8. CASE some # {}
  <2>1. PICK k \in some : \A j \in some : j <= k
    BY <1>3, <1>4, <1>5, <1>8
  <2>2. Last(p, words) \in some /\ \A j \in some : j <= Last(p, words)
    BY <1>2, <1>8, <2>1
  <2> QED BY <1>4, <1>6, <2>2 DEF n
<1> QED BY <1>7, <1>8

-----------------------------------------------------------------------------
(* The invariant of the parser. *)

Connects(p) == p.kind = "request" /\ p.first.method = "CONNECT"
FirstGood(p) ==
  /\ p.first.version # "HTTP/x"
  /\ p.kind = "response" => p.first.status > 0
  /\ p.kind = "request" =>
       /\ p.first.method \in {"GET", "CONNECT"} /\ p.first.url.good
       /\ p.first.url.form \in {"path", "absolute"} \cup (IF Connects(p) THEN {"authority"} ELSE {})
  /\ Connects(p) => Splits(p.first.url.authority)
\* Until a request is passed on, its URL is the client's, or not read yet.
UrlKept(p) == p.url.form = "empty" \/ p.url = p.first.url
HostsGood(p) ==
  ~Connects(p) => \A i \in DOMAIN p.lines : Word(p.lines[i]) = "Host" => Splits(p.lines[i].value)

\* Between two callbacks: nothing is read yet, the first line is, the whole
\* head is.
HeadOf(p) == \E head \in Heads : p.kind = head.kind /\ p.first = head.first /\ p.lines = head.lines
Fresh(p) ==
  /\ ~p.broken /\ p.status = "Paused" /\ p.headers = << >> /\ ~p.is_connect
  /\ p.host = "" /\ p.port = 0 /\ p.connection = NoAuthority /\ p.proxy_authorization = NoAuthority
Keeps(p) ==
  IF p.kind = "response" THEN NoAuthority ELSE Text(IF p.first.version = "HTTP/1.1" THEN "Keep-Alive" ELSE "Close")
FirstRead(p) ==
  /\ ~p.broken /\ p.headers = << >> /\ p.status \in {"Paused", "Error"}
  /\ p.status = "Paused" <=> FirstGood(p)
  /\ p.status = "Paused" =>
       /\ p.is_connect <=> Connects(p)
       /\ p.is_connect => p.host = HostOf(p.first.url.authority) /\ p.port = PortOf(p.first.url.authority)
       /\ ~p.is_connect => p.host = "" /\ p.port = 0
       /\ p.connection = Keeps(p) /\ p.proxy_authorization = NoAuthority
FieldsSay(p) ==
  LET host == Last(p, {"Host"})
      connection == Last(p, {"Connection", "Proxy-Connection"})
      token == Last(p, {"Proxy-Authorization"})
      from == IF p.is_connect THEN p.first.url.authority
              ELSE IF host = 0 THEN NoAuthority ELSE p.lines[host].value
  IN /\ p.is_connect <=> Connects(p)
     /\ IF from = NoAuthority THEN p.host = "" /\ p.port = 0
        ELSE p.host \notin DOMAIN Brackets /\ p.host = HostOf(from) /\ p.port = PortOf(from)
     /\ p.port \in 0 .. HighestPort
     /\ p.connection = IF connection # 0 THEN p.lines[connection].value ELSE Keeps(p)
     /\ p.proxy_authorization = IF token # 0 THEN p.lines[token].value ELSE NoAuthority
HeadRead(p) ==
  /\ p.status = "Ok" <=> ~p.broken /\ WellFormed(p)
  /\ p.status = "Ok" => FieldsSay(p) /\ LinesRead(p, p, Len(p.lines))

ParserInv ==
  /\ HeadShape(hp) /\ HeadOf(hp) /\ hp.is_connect \in BOOLEAN /\ hp.broken \in BOOLEAN
  /\ hp.at # "forwarded" => UrlKept(hp)
  /\ hp.at = "first line" => Fresh(hp)
  /\ hp.at = "headers" => FirstRead(hp)
  /\ hp.at = "body" => ~hp.broken /\ hp.status \in {"Ok", "Error"}
  /\ hp.at \in {"body", "returned", "forwarded"} => HeadRead(hp)
  /\ ForwardRight

LEMMA WellFormedIs ==
  ASSUME NEW p
  PROVE  WellFormed(p) <=> FirstGood(p) /\ HostsGood(p)
BY DEF WellFormed, FirstGood, HostsGood, Connects

LEMMA HeadTyped ==
  ASSUME NEW p, HeadOf(p)
  PROVE  /\ p.lines \in Seq(Lines)
         /\ \/ p.kind = "request" /\ p.first \in RequestLines
            \/ p.kind = "response" /\ p.first \in StatusLines
BY HeadsAssumption DEF HeadOf

\* An authority that can be split has a host without brackets and a port.
LEMMA SplitGives ==
  ASSUME NEW a \in Authorities, Splits(a)
  PROVE  a # NoAuthority /\ HostOf(a) \notin DOMAIN Brackets /\ PortOf(a) \in 0 .. HighestPort
<1>1. a # NoAuthority
  <2>1. NoAuthority.host = ""
    BY DEF NoAuthority, Text, Authority
  <2>2. a.host # ""
    BY DEF Splits
  <2> QED BY <2>1, <2>2
<1>2. HostOf(a) \notin DOMAIN Brackets
  BY HeadsAssumption DEF HostOf
<1>3. PortOf(a) \in 0 .. HighestPort
  <2>1. a.port \in Int /\ (a.port = -1 \/ a.port \in 1 .. HighestPort)
    BY DEF Splits, NoPort, Authorities
  <2>2. HighestPort \in Int /\ HighestPort >= 80
    BY DEF HighestPort
  <2> QED BY <2>1, <2>2 DEF PortOf, DefaultPort, NoPort
<1> QED BY <1>1, <1>2, <1>3, Zenon

LEMMA SameFields ==
  ASSUME NEW p, NEW q, FieldsSay(p),
         q.kind = p.kind, q.first = p.first, q.lines = p.lines, q.is_connect = p.is_connect, q.host = p.host,
         q.port = p.port, q.connection = p.connection, q.proxy_authorization = p.proxy_authorization
  PROVE  FieldsSay(q)
<1>1. \A words : Last(q, words) = Last(p, words)
  BY DEF Last
<1>2. (Connects(q) <=> Connects(p)) /\ Keeps(q) = Keeps(p)
  BY DEF Connects, Keeps
<1> DEFINE From(r) == IF r.is_connect THEN r.first.url.authority
                      ELSE IF Last(r, {"Host"}) = 0 THEN NoAuthority ELSE r.lines[Last(r, {"Host"})].value
<1>3. From(q) = From(p)
  BY <1>1
<1>4. ASSUME NEW r
      PROVE  FieldsSay(r) <=>
               /\ r.is_connect <=> Connects(r)
               /\ IF From(r) = NoAuthority THEN r.host = "" /\ r.port = 0
                  ELSE r.host \notin DOMAIN Brackets /\ r.host = HostOf(From(r)) /\ r.port = PortOf(From(r))
               /\ r.port \in 0 .. HighestPort
               /\ r.connection = IF Last(r, {"Connection", "Proxy-Connection"}) # 0
                                 THEN r.lines[Last(r, {"Connection", "Proxy-Connection"})].value ELSE Keeps(r)
               /\ r.proxy_authorization = IF Last(r, {"Proxy-Authorization"}) # 0
                                          THEN r.lines[Last(r, {"Proxy-Authorization"})].value ELSE NoAuthority
  BY DEF FieldsSay
<1> HIDE DEF From
<1> QED BY <1>1, <1>2, <1>3, <1>4

LEMMA SameHead ==
  ASSUME NEW p, NEW q, q.kind = p.kind, q.first = p.first, q.lines = p.lines
  PROVE  /\ HeadOf(p) => HeadOf(q)
         /\ WellFormed(q) <=> WellFormed(p)
         /\ FirstGood(q) <=> FirstGood(p)
         /\ HostsGood(q) <=> HostsGood(p)
         /\ Connects(q) <=> Connects(p)
BY DEF HeadOf, WellFormed, FirstGood, HostsGood, Connects

LEMMA SameLines ==
  ASSUME NEW p, NEW q, NEW r, NEW n, q.lines = p.lines, LinesRead(p, r, n), q.headers = r.headers
  PROVE  LinesRead(q, q, n)
BY DEF LinesRead
-----------------------------------------------------------------------------
(* The callbacks keep the invariant. *)

LEMMA ParserStart == ParserInit => ParserInv
<1> SUFFICES ASSUME NEW head \in Heads, hp = Initial(head.kind, head.first, head.lines) PROVE ParserInv
  BY DEF ParserInit
<1>1. HeadShape(hp)
  BY DEF Initial, HeadShape, HeadFields
<1>2. HeadOf(hp)
  BY DEF Initial, HeadOf
<1>3. hp.at = "first line" /\ hp.is_connect = FALSE /\ hp.broken = FALSE
  BY DEF Initial
<1>4. Fresh(hp)
  BY DEF Initial, Fresh
<1>5. UrlKept(hp)
  BY DEF Initial, Url, UrlKept
<1> QED BY <1>1, <1>2, <1>3, <1>4, <1>5 DEF ParserInv, ForwardRight

\* What a callback of the first line leaves alone.
FirstKeeps(p, q) ==
  /\ HeadShape(q) /\ q.is_connect \in BOOLEAN
  /\ q.kind = p.kind /\ q.first = p.first /\ q.lines = p.lines /\ q.broken = p.broken /\ q.headers = p.headers
  /\ q.proxy_authorization = p.proxy_authorization
  /\ q.url = p.url \/ q.url = p.first.url

\* The first line of a request.
LEMMA RequestLineRead ==
  ASSUME NEW p, HeadShape(p), HeadOf(p), Fresh(p), p.is_connect \in BOOLEAN, p.kind = "request"
  PROVE  FirstKeeps(p, OnRequestFirstLineInput(p)) /\ FirstRead(OnRequestFirstLineInput(p))
<1> DEFINE f == p.first
           c == f.method = "CONNECT"
           q == [p EXCEPT !.is_connect = c, !.method = f.method]
           r == [q EXCEPT !.url = f.url, !.version = f.version]
           s == IF c THEN [r EXCEPT !.host = HostOf(f.url.authority), !.port = PortOf(f.url.authority)] ELSE r
           t == [s EXCEPT !.connection = Text(IF f.version = "HTTP/1.1" THEN "Keep-Alive" ELSE "Close")]
           o == OnRequestFirstLineInput(p)
<1>0. p.status = "Paused" /\ ~p.broken /\ p.headers = << >> /\ p.proxy_authorization = NoAuthority
      /\ p.host = "" /\ p.port = 0
  BY DEF Fresh
<1>1. FirstKeeps(p, Failed(p)) /\ Failed(p).status = "Error"
  BY DEF Failed, FirstKeeps, HeadShape, HeadFields
<1>2. FirstKeeps(p, q) /\ q.is_connect = c /\ q.host = p.host /\ q.port = p.port /\ q.status = p.status
  BY DEF FirstKeeps, HeadShape, HeadFields
<1>3. FirstKeeps(p, r) /\ r.is_connect = c /\ r.host = p.host /\ r.port = p.port /\ r.status = p.status
  <2> HIDE DEF q
  <2> QED BY <1>2 DEF FirstKeeps, HeadShape, HeadFields
<1>4. /\ FirstKeeps(p, s) /\ s.is_connect = c /\ s.status = p.status
      /\ c => s.host = HostOf(f.url.authority) /\ s.port = PortOf(f.url.authority)
      /\ ~c => s.host = p.host /\ s.port = p.port
  <2> HIDE DEF r
  <2> QED BY <1>3 DEF FirstKeeps, HeadShape, HeadFields
<1>5. /\ FirstKeeps(p, t) /\ t.is_connect = c /\ t.status = p.status
      /\ c => t.host = HostOf(f.url.authority) /\ t.port = PortOf(f.url.authority)
      /\ ~c => t.host = p.host /\ t.port = p.port
      /\ t.connection = Text(IF f.version = "HTTP/1.1" THEN "Keep-Alive" ELSE "Close")
  <2> HIDE DEF s
  <2> QED BY <1>4 DEF FirstKeeps, HeadShape, HeadFields
<1>6. ASSUME NEW x, FirstKeeps(p, x)
      PROVE  FirstKeeps(p, Failed(x)) /\ Failed(x).status = "Error"
  BY <1>6 DEF Failed, FirstKeeps, HeadShape, HeadFields
<1>7. o = IF ~isMethodValid(f.method) THEN Failed(p)
          ELSE IF ~isUrlValid(f.url, c) THEN Failed(q)
          ELSE IF c /\ ~Splits(f.url.authority) THEN Failed(r)
          ELSE IF ~isVersionValid(f.version) THEN Failed(s)
          ELSE t
  <2>1. p.status # "Error"
    BY <1>0
  <2> QED BY <2>1 DEF OnRequestFirstLineInput
<1>8. FirstGood(p) <=> /\ isMethodValid(f.method) /\ isUrlValid(f.url, c)
                       /\ ~(c /\ ~Splits(f.url.authority)) /\ isVersionValid(f.version)
  <2>1. p.first \in RequestLines
    BY HeadTyped
  <2>2. f.url.form \in {"empty", "path", "absolute", "authority"}
    BY <2>1 DEF RequestLines, Urls
  <2> QED BY <2>1, <2>2 DEF FirstGood, Connects, isMethodValid, isUrlValid, isVersionValid
<1> HIDE DEF q, r, s, t, o, c
<1>9. FirstKeeps(p, o) /\ o.status = IF FirstGood(p) THEN "Paused" ELSE "Error"
  BY <1>0, <1>1, <1>2, <1>3, <1>4, <1>5, <1>6, <1>7, <1>8
<1>10. FirstGood(p) => o = t
  BY <1>7, <1>8
<1>11. (FirstGood(o) <=> FirstGood(p)) /\ (Connects(o) <=> c)
  BY <1>9 DEF FirstKeeps, FirstGood, Connects, c
<1>12. Keeps(o) = Text(IF f.version = "HTTP/1.1" THEN "Keep-Alive" ELSE "Close")
  BY <1>9 DEF FirstKeeps, Keeps
<1>13. ~o.broken /\ o.headers = << >> /\ o.proxy_authorization = NoAuthority /\ o.first = f
  BY <1>0, <1>9 DEF FirstKeeps
<1>14. FirstRead(o)
  BY <1>0, <1>5, <1>9, <1>10, <1>11, <1>12, <1>13 DEF FirstRead
<1> QED BY <1>9, <1>14 DEF o

\* The first line of a response.
LEMMA StatusLineRead ==
  ASSUME NEW p, HeadShape(p), HeadOf(p), Fresh(p), p.is_connect \in BOOLEAN, p.kind = "response"
  PROVE  FirstKeeps(p, OnResponseFirstLineInput(p)) /\ FirstRead(OnResponseFirstLineInput(p))
<1> DEFINE o == OnResponseFirstLineInput(p)
<1>0. p.status = "Paused" /\ ~p.broken /\ p.headers = << >> /\ p.proxy_authorization = NoAuthority
      /\ p.host = "" /\ p.port = 0 /\ p.connection = NoAuthority /\ p.is_connect = FALSE
  BY DEF Fresh
<1>1. p.first \in StatusLines /\ p.first.status \in Int
  BY HeadTyped DEF StatusLines
<1>2. FirstGood(p) <=> ~(~isVersionValid(p.first.version) \/ p.first.status <= 0)
  BY <1>1 DEF FirstGood, Connects, isVersionValid
<1>3. o = IF FirstGood(p) THEN [p EXCEPT !.status_code = p.first.status] ELSE Failed(p)
  <2>1. p.status # "Error"
    BY <1>0
  <2> QED BY <1>2, <2>1 DEF OnResponseFirstLineInput
<1> HIDE DEF o
<1>4. /\ FirstKeeps(p, o) /\ o.status = (IF FirstGood(p) THEN "Paused" ELSE "Error")
      /\ o.is_connect = FALSE /\ o.host = "" /\ o.port = 0 /\ o.connection = NoAuthority
  BY <1>0, <1>3 DEF Failed, FirstKeeps, HeadShape, HeadFields
<1>5. (FirstGood(o) <=> FirstGood(p)) /\ ~Connects(o) /\ Keeps(o) = NoAuthority
  BY <1>4 DEF FirstKeeps, FirstGood, Connects, Keeps
<1>6. FirstRead(o)
  BY <1>0, <1>4, <1>5 DEF FirstRead, FirstKeeps
<1> QED BY <1>4, <1>6 DEF o

LEMMA FirstLineStep == ParserInv /\ FirstLine => ParserInv'
<1> SUFFICES ASSUME ParserInv, FirstLine PROVE ParserInv'
  OBVIOUS
<1> DEFINE o == IF hp.kind = "request" THEN OnRequestFirstLineInput(hp) ELSE OnResponseFirstLineInput(hp)
<1>1. hp.at = "first line" /\ hp' = [o EXCEPT !.at = "headers"]
  BY DEF FirstLine
<1>2. HeadShape(hp) /\ HeadOf(hp) /\ hp.is_connect \in BOOLEAN /\ Fresh(hp) /\ UrlKept(hp)
  BY <1>1 DEF ParserInv
<1>3. FirstKeeps(hp, o) /\ FirstRead(o)
  <2>1. hp.kind = "request" \/ hp.kind = "response"
    BY <1>2, HeadTyped
  <2> QED BY <1>2, <2>1, RequestLineRead, StatusLineRead
<1> HIDE DEF o
<1>4. /\ HeadShape(hp') /\ hp'.at = "headers" /\ hp'.is_connect = o.is_connect /\ hp'.broken = o.broken
      /\ hp'.kind = o.kind /\ hp'.first = o.first /\ hp'.lines = o.lines /\ hp'.headers = o.headers
      /\ hp'.status = o.status /\ hp'.host = o.host /\ hp'.port = o.port /\ hp'.connection = o.connection
      /\ hp'.proxy_authorization = o.proxy_authorization /\ hp'.url = o.url
  <2>1. HeadShape(o)
    BY <1>3 DEF FirstKeeps
  <2> QED BY <1>1, <2>1 DEF HeadShape, HeadFields
<1>5. HeadOf(hp')
  <2>1. hp'.kind = hp.kind /\ hp'.first = hp.first /\ hp'.lines = hp.lines
    BY <1>3, <1>4 DEF FirstKeeps
  <2> QED BY <1>2, <2>1, SameHead
<1>6. FirstRead(hp')
  <2>1. (FirstGood(hp') <=> FirstGood(o)) /\ (Connects(hp') <=> Connects(o))
    BY <1>4, SameHead
  <2>2. Keeps(hp') = Keeps(o)
    BY <1>4 DEF Keeps
  <2> QED BY <1>3, <1>4, <2>1, <2>2 DEF FirstRead
<1>7. hp'.is_connect \in BOOLEAN /\ hp'.broken = hp.broken
  BY <1>3, <1>4 DEF FirstKeeps
<1>8. hp'.broken \in BOOLEAN
  BY <1>7 DEF ParserInv
<1>9. UrlKept(hp')
  BY <1>2, <1>3, <1>4 DEF FirstKeeps, UrlKept
<1> QED BY <1>4, <1>5, <1>6, <1>7, <1>8, <1>9 DEF ParserInv, ForwardRight

\* The header lines: what is read of a head that is right.
LEMMA HeadersSay ==
  ASSUME NEW p, NEW q, HeadOf(p), FirstRead(p), p.is_connect \in BOOLEAN, FirstGood(p), HostsGood(p),
         Turned(p, q, Len(p.lines)), ~Fails(p, Len(p.lines))
  PROVE  FieldsSay(q)
<1> DEFINE n == Len(p.lines)
           host == Last(p, {"Host"})
           connection == Last(p, {"Connection", "Proxy-Connection"})
           token == Last(p, {"Proxy-Authorization"})
           from == IF p.is_connect THEN p.first.url.authority
                   ELSE IF host = 0 THEN NoAuthority ELSE p.lines[host].value
<1>1. /\ LoopKeeps(p, q) /\ HostRead(p, q, n) /\ ConnectionRead(p, q, n) /\ TokenRead(p, q, n)
  BY DEF Turned
<1>2. p.lines \in Seq(Lines) /\ (p.kind = "request" => p.first \in RequestLines)
  BY HeadTyped
<1>3. /\ p.is_connect <=> Connects(p)
      /\ p.is_connect => p.host = HostOf(p.first.url.authority) /\ p.port = PortOf(p.first.url.authority)
      /\ ~p.is_connect => p.host = "" /\ p.port = 0
      /\ p.connection = Keeps(p) /\ p.proxy_authorization = NoAuthority
  BY DEF FirstRead
<1>4. host = 0 => NoneOf(p, {"Host"}, n)
  BY <1>2, LastIs
<1>5. host # 0 => host \in 1 .. n /\ LastOf(p, {"Host"}, n, host)
  BY <1>2, LastIs
<1>6. /\ connection = 0 => NoneOf(p, {"Connection", "Proxy-Connection"}, n)
      /\ connection # 0 => connection \in 1 .. n /\ LastOf(p, {"Connection", "Proxy-Connection"}, n, connection)
  BY <1>2, LastIs
<1>7. /\ token = 0 => NoneOf(p, {"Proxy-Authorization"}, n)
      /\ token # 0 => token \in 1 .. n /\ LastOf(p, {"Proxy-Authorization"}, n, token)
  BY <1>2, LastIs
<1> HIDE DEF host, connection, token
<1>8. q.connection = IF connection # 0 THEN p.lines[connection].value ELSE Keeps(p)
  BY <1>1, <1>3, <1>6 DEF ConnectionRead
<1>9. q.proxy_authorization = IF token # 0 THEN p.lines[token].value ELSE NoAuthority
  BY <1>1, <1>3, <1>7 DEF TokenRead
<1>10. /\ IF from = NoAuthority THEN q.host = "" /\ q.port = 0
          ELSE q.host \notin DOMAIN Brackets /\ q.host = HostOf(from) /\ q.port = PortOf(from)
       /\ q.port \in 0 .. HighestPort
  <2>0. HighestPort \in Int /\ HighestPort >= 0
    BY DEF HighestPort
  <2>1. ASSUME Splits(from), from \in Authorities, q.host = HostOf(from), q.port = PortOf(from)
        PROVE  <1>10!:
    <3> HIDE DEF from
    <3> QED BY <2>1, SplitGives
  <2>2. CASE p.is_connect
    <3>1. from = p.first.url.authority /\ q.host = p.host /\ q.port = p.port
      BY <1>1, <2>2 DEF HostRead
    <3>2. Connects(p) /\ p.kind = "request"
      BY <1>3, <2>2 DEF Connects
    <3>3. Splits(from)
      BY <3>1, <3>2 DEF FirstGood
    <3>4. from \in Authorities
      BY <1>2, <3>1, <3>2 DEF RequestLines, Urls
    <3> QED BY <1>3, <2>1, <2>2, <3>1, <3>3, <3>4
  <2>3. CASE ~p.is_connect /\ host = 0
    <3>1. from = NoAuthority /\ q.host = "" /\ q.port = 0
      BY <1>1, <1>3, <1>4, <2>3 DEF HostRead
    <3>2. 0 \in 0 .. HighestPort
      BY <2>0
    <3>3. q.port \in 0 .. HighestPort
      BY ONLY <3>1, <3>2
    <3> HIDE DEF from
    <3> QED BY <3>1, <3>3
  <2>4. CASE ~p.is_connect /\ host # 0
    <3>1. from = p.lines[host].value /\ q.host = HostOf(from) /\ q.port = PortOf(from)
      BY <1>1, <1>5, <2>4 DEF HostRead
    <3>2. host \in DOMAIN p.lines /\ Word(p.lines[host]) = "Host" /\ p.lines[host] \in Lines
      BY <1>2, <1>5, <2>4 DEF LastOf
    <3>3. Splits(from)
      BY <1>3, <2>4, <3>1, <3>2 DEF HostsGood
    <3>4. from \in Authorities
      BY <3>1, <3>2 DEF Lines
    <3> QED BY <2>1, <3>1, <3>3, <3>4
  <2> QED BY <2>2, <2>3, <2>4
<1>11. q.lines = p.lines /\ q.kind = p.kind /\ q.first = p.first /\ q.is_connect = p.is_connect
  BY <1>1 DEF LoopKeeps
<1>12. /\ host = Last(q, {"Host"}) /\ connection = Last(q, {"Connection", "Proxy-Connection"})
       /\ token = Last(q, {"Proxy-Authorization"})
  BY <1>11 DEF Last, host, connection, token
<1>13. (Connects(q) <=> Connects(p)) /\ Keeps(q) = Keeps(p)
  BY <1>11 DEF Connects, Keeps
<1>14. from = IF q.is_connect THEN q.first.url.authority
              ELSE IF Last(q, {"Host"}) = 0 THEN NoAuthority ELSE q.lines[Last(q, {"Host"})].value
  BY <1>11, <1>12
<1> HIDE DEF from
<1> QED BY <1>3, <1>8, <1>9, <1>10, <1>11, <1>12, <1>13, <1>14 DEF FieldsSay

\* The error of a line that names no host is one of the head.
LEMMA FailsIs ==
  ASSUME NEW p, p.lines \in Seq(Lines), p.is_connect <=> Connects(p)
  PROVE  Fails(p, Len(p.lines)) <=> ~HostsGood(p)
<1>1. DOMAIN p.lines = 1 .. Len(p.lines)
  OBVIOUS
<1> QED BY <1>1 DEF Fails, HostsGood, BadHost, Is

\* What is known of a head goes with it where what was read stays.
LEMMA HeadReadKept ==
  ASSUME NEW p, NEW q, HeadRead(p),
         q.kind = p.kind, q.first = p.first, q.lines = p.lines, q.is_connect = p.is_connect, q.host = p.host,
         q.port = p.port, q.connection = p.connection, q.proxy_authorization = p.proxy_authorization,
         q.headers = p.headers, q.status = p.status, q.broken = p.broken
  PROVE  HeadRead(q)
<1>1. WellFormed(q) <=> WellFormed(p)
  BY SameHead
<1>2. FieldsSay(p) => FieldsSay(q)
  BY SameFields
<1>3. LinesRead(p, p, Len(p.lines)) => LinesRead(q, q, Len(q.lines))
  BY DEF LinesRead
<1> QED BY <1>1, <1>2, <1>3 DEF HeadRead

LEMMA HeadersStep == ParserInv /\ Headers => ParserInv'
<1> SUFFICES ASSUME ParserInv, Headers PROVE ParserInv'
  OBVIOUS
<1> DEFINE n == Len(hp.lines)
           q == ProcessHeaders(hp)
           d == HeaderDone(q)
<1>1. hp.at = "headers" /\ hp' = [d EXCEPT !.at = "body"]
  BY DEF Headers
<1>2. HeadShape(hp) /\ HeadOf(hp) /\ hp.is_connect \in BOOLEAN /\ FirstRead(hp) /\ UrlKept(hp)
  BY <1>1 DEF ParserInv
<1>3. hp.lines \in Seq(Lines) /\ n \in Nat
  BY <1>2, HeadTyped
<1>4. Turned(hp, q, n)
  <2>1. hp.headers = << >>
    BY <1>2 DEF FirstRead
  <2> QED BY <1>2, <1>3, <2>1, LoopReads
<1>5. d = IF q.status = "Error" THEN q ELSE [q EXCEPT !.status = "Ok", !.headers_done = TRUE]
  BY DEF HeaderDone
<1> HIDE DEF q, d
<1>6. LoopKeeps(hp, q)
  BY <1>4 DEF Turned
<1>7. /\ HeadShape(hp') /\ hp'.at = "body" /\ hp'.is_connect = q.is_connect /\ hp'.broken = q.broken
      /\ hp'.kind = q.kind /\ hp'.first = q.first /\ hp'.lines = q.lines /\ hp'.headers = q.headers
      /\ hp'.host = q.host /\ hp'.port = q.port /\ hp'.connection = q.connection
      /\ hp'.proxy_authorization = q.proxy_authorization /\ hp'.url = q.url
      /\ hp'.status = IF q.status = "Error" THEN "Error" ELSE "Ok"
  <2>1. HeadShape(q)
    BY <1>6 DEF LoopKeeps
  <2>2. /\ HeadShape(d) /\ d.is_connect = q.is_connect /\ d.broken = q.broken
        /\ d.kind = q.kind /\ d.first = q.first /\ d.lines = q.lines /\ d.headers = q.headers
        /\ d.host = q.host /\ d.port = q.port /\ d.connection = q.connection
        /\ d.proxy_authorization = q.proxy_authorization /\ d.url = q.url
        /\ d.status = IF q.status = "Error" THEN "Error" ELSE "Ok"
    BY <1>5, <2>1 DEF HeadShape, HeadFields
  <2> QED BY <1>1, <2>2 DEF HeadShape, HeadFields
<1>8. hp'.kind = hp.kind /\ hp'.first = hp.first /\ hp'.lines = hp.lines /\ hp'.broken = hp.broken
      /\ hp'.is_connect = hp.is_connect /\ UrlKept(hp')
  BY <1>2, <1>6, <1>7 DEF LoopKeeps, UrlKept
<1>9. HeadOf(hp') /\ (WellFormed(hp') <=> WellFormed(hp))
  BY <1>2, <1>8, SameHead
<1>10. hp'.broken = FALSE
  BY <1>2, <1>8 DEF FirstRead, ParserInv
<1>11. CASE FirstGood(hp) /\ HostsGood(hp)
  <2>1. hp.status = "Paused" /\ (hp.is_connect <=> Connects(hp))
    BY <1>2, <1>11 DEF FirstRead
  <2>2. ~Fails(hp, n)
    BY <1>3, <1>11, <2>1, FailsIs
  <2>3. q.status = "Paused" /\ LinesRead(hp, q, n)
    BY <1>4, <2>1, <2>2 DEF Turned
  <2>4. FieldsSay(q)
    BY <1>2, <1>4, <1>11, <2>2, HeadersSay
  <2>5. FieldsSay(hp')
    BY <1>7, <2>4, SameFields
  <2>6. LinesRead(hp', hp', n)
    BY <1>7, <1>8, <2>3, SameLines
  <2>7. WellFormed(hp') /\ hp'.status = "Ok"
    BY <1>7, <1>9, <1>11, <2>3, WellFormedIs
  <2>8. HeadRead(hp')
    BY <1>8, <1>10, <2>5, <2>6, <2>7 DEF HeadRead
  <2> QED BY <1>2, <1>7, <1>8, <1>9, <1>10, <2>7, <2>8 DEF ParserInv, ForwardRight
<1>12. CASE ~(FirstGood(hp) /\ HostsGood(hp))
  <2>1. q.status = "Error"
    <3>1. CASE ~FirstGood(hp)
      <4>1. hp.status = "Error"
        BY <1>2, <3>1 DEF FirstRead
      <4> QED BY <1>4, <4>1 DEF Turned
    <3>2. CASE FirstGood(hp)
      <4>1. hp.is_connect <=> Connects(hp)
        BY <1>2, <3>2 DEF FirstRead
      <4>2. Fails(hp, n)
        BY <1>3, <1>12, <3>2, <4>1, FailsIs
      <4> QED BY <1>4, <4>2 DEF Turned
    <3> QED BY <3>1, <3>2
  <2>2. ~WellFormed(hp')
    BY <1>9, <1>12, WellFormedIs
  <2>3. HeadRead(hp')
    BY <1>7, <2>1, <2>2 DEF HeadRead
  <2> QED BY <1>2, <1>7, <1>8, <1>9, <1>10, <2>1, <2>3 DEF ParserInv, ForwardRight
<1> QED BY <1>11, <1>12

LEMMA MessageStep == ParserInv /\ Message => ParserInv'
<1> SUFFICES ASSUME ParserInv, Message PROVE ParserInv'
  OBVIOUS
<1> DEFINE d == MessageDone(hp)
<1>1. hp.at = "body" /\ hp' = [d EXCEPT !.at = "returned"]
  BY DEF Message
<1>2. HeadShape(hp) /\ HeadOf(hp) /\ hp.is_connect \in BOOLEAN /\ hp.broken \in BOOLEAN
      /\ hp.status \in {"Ok", "Error"} /\ HeadRead(hp) /\ UrlKept(hp)
  BY <1>1 DEF ParserInv
<1>3. d = IF hp.status = "Error" THEN hp ELSE [hp EXCEPT !.status = "Ok", !.headers_done = FALSE]
  BY DEF MessageDone
<1> HIDE DEF d
<1>4. /\ HeadShape(hp') /\ hp'.at = "returned" /\ hp'.is_connect = hp.is_connect /\ hp'.broken = hp.broken
      /\ hp'.kind = hp.kind /\ hp'.first = hp.first /\ hp'.lines = hp.lines /\ hp'.headers = hp.headers
      /\ hp'.host = hp.host /\ hp'.port = hp.port /\ hp'.connection = hp.connection
      /\ hp'.proxy_authorization = hp.proxy_authorization /\ hp'.status = hp.status /\ hp'.url = hp.url
  BY <1>1, <1>2, <1>3 DEF HeadShape, HeadFields
<1>5. HeadRead(hp')
  BY <1>2, <1>4, HeadReadKept
<1>6. HeadOf(hp')
  BY <1>2, <1>4, SameHead
<1>7. UrlKept(hp')
  BY <1>2, <1>4 DEF UrlKept
<1> QED BY <1>2, <1>4, <1>5, <1>6, <1>7 DEF ParserInv, ForwardRight

LEMMA ErrorStep == ParserInv /\ HandleError => ParserInv'
<1> SUFFICES ASSUME ParserInv, HandleError PROVE ParserInv'
  OBVIOUS
<1>1. hp' = [Failed(hp) EXCEPT !.broken = TRUE, !.at = "returned"]
  BY DEF HandleError
<1>2. HeadShape(hp) /\ HeadOf(hp) /\ hp.is_connect \in BOOLEAN /\ UrlKept(hp)
  BY DEF ParserInv, HandleError
<1>3. /\ HeadShape(hp') /\ hp'.at = "returned" /\ hp'.is_connect = hp.is_connect /\ hp'.broken = TRUE
      /\ hp'.kind = hp.kind /\ hp'.first = hp.first /\ hp'.lines = hp.lines /\ hp'.status = "Error"
      /\ hp'.url = hp.url
  BY <1>1, <1>2 DEF HeadShape, HeadFields, Failed
<1>4. HeadRead(hp')
  BY <1>3 DEF HeadRead
<1>5. HeadOf(hp')
  BY <1>2, <1>3, SameHead
<1>6. UrlKept(hp')
  BY <1>2, <1>3 DEF UrlKept
<1> QED BY <1>2, <1>3, <1>4, <1>5, <1>6 DEF ParserInv, ForwardRight

LEMMA EndStep == ParserInv /\ EndOfInput => ParserInv'
<1> SUFFICES ASSUME ParserInv, EndOfInput PROVE ParserInv'
  OBVIOUS
<1>1. hp.at \in {"first line", "headers", "body"}
      /\ hp' = [hp EXCEPT !.at = "returned", !.broken = hp.broken \/ hp.at # "body"]
  BY DEF EndOfInput
<1>2. HeadShape(hp) /\ HeadOf(hp) /\ hp.is_connect \in BOOLEAN /\ hp.broken \in BOOLEAN /\ UrlKept(hp)
  BY <1>1 DEF ParserInv
<1>3. /\ HeadShape(hp') /\ hp'.at = "returned" /\ hp'.is_connect = hp.is_connect
      /\ hp'.kind = hp.kind /\ hp'.first = hp.first /\ hp'.lines = hp.lines /\ hp'.headers = hp.headers
      /\ hp'.host = hp.host /\ hp'.port = hp.port /\ hp'.connection = hp.connection
      /\ hp'.proxy_authorization = hp.proxy_authorization /\ hp'.status = hp.status
      /\ hp'.broken = (hp.broken \/ hp.at # "body") /\ hp'.url = hp.url
  BY <1>1, <1>2 DEF HeadShape, HeadFields
<1>4. HeadRead(hp')
  <2>1. CASE hp.at = "body"
    <3>1. HeadRead(hp) /\ hp'.broken = hp.broken
      BY <1>2, <1>3, <2>1 DEF ParserInv
    <3> QED BY <1>3, <3>1, HeadReadKept
  <2>2. CASE hp.at # "body"
    <3>1. hp.status # "Ok"
      BY <1>1, <2>2 DEF ParserInv, Fresh, FirstRead
    <3> QED BY <1>3, <2>2, <3>1 DEF HeadRead
  <2> QED BY <2>1, <2>2
<1>5. HeadOf(hp')
  BY <1>2, <1>3, SameHead
<1>6. hp'.broken \in BOOLEAN /\ UrlKept(hp')
  BY <1>2, <1>3 DEF UrlKept
<1> QED BY <1>2, <1>3, <1>4, <1>5, <1>6 DEF ParserInv, ForwardRight

\* The names a server adds are none of the lines for the proxy.
LEMMA AddedNames ==
  ASSUME NEW additional \in {<< >>} \cup ViaHeaders
  PROVE  \A n \in DOMAIN additional : ~ForProxy(n)
<1>1. CASE additional = << >>
  <2>1. DOMAIN additional = {}
    BY <1>1
  <2> QED BY <2>1
<1>2. CASE additional \in ViaHeaders
  <2>1. PICK some \in SUBSET {"Forwarded", "Via"} :
          additional = [n \in {<<w, "cap">> : w \in {"Connection"} \cup some} |->
                          Text(IF n[1] = "Connection" THEN "Close" ELSE "server")]
    BY <1>2 DEF ViaHeaders
  <2>2. DOMAIN additional = {<<w, "cap">> : w \in {"Connection"} \cup some}
    BY <2>1
  <2> QED BY <2>2 DEF ForProxy
<1> QED BY <1>1, <1>2

\* What goes to the next hop.
LEMMA Reforged ==
  ASSUME NEW p, HeadShape(p), p.lines \in Seq(Lines), LinesRead(p, p, Len(p.lines)),
         NEW additional, \A n \in DOMAIN additional : ~ForProxy(n)
  PROVE  LET q == ReforgeHttpRequest(p, additional) IN
         /\ \A l \in q.forwarded : l[1][1] \notin {"Proxy-Connection", "Proxy-Authorization"}
         /\ \A k, l \in q.forwarded : k[1] = l[1] => k = l
         /\ \A n \in DOMAIN additional : <<n, additional[n]>> \in q.forwarded
         /\ \A i \in DOMAIN p.lines :
              \/ Word(p.lines[i]) \in {"Proxy-Connection", "Proxy-Authorization"}
              \/ p.lines[i].name \in DOMAIN additional
              \/ \E j \in DOMAIN p.lines : j > i /\ p.lines[j].name = p.lines[i].name
              \/ <<p.lines[i].name, p.lines[i].value>> \in q.forwarded
<1> DEFINE q == ReforgeHttpRequest(p, additional)
           own == {n \in DOMAIN p.headers : ~ForProxy(n) /\ n \notin DOMAIN additional}
           A == {<<name, p.headers[name]>> : name \in own}
           B == {<<name, additional[name]>> : name \in DOMAIN additional}
<1>1. q.forwarded = A \cup B
  BY DEF ReforgeHttpRequest, HeadShape, HeadFields
<1> HIDE DEF q
<1>2. \A l \in q.forwarded : ~ForProxy(l[1])
  BY <1>1
<1>3. \A k, l \in q.forwarded : k[1] = l[1] => k = l
  BY <1>1
<1>4. \A n \in DOMAIN additional : <<n, additional[n]>> \in q.forwarded
  BY <1>1
<1>5. ASSUME NEW i \in DOMAIN p.lines, ~ForProxy(p.lines[i].name), p.lines[i].name \notin DOMAIN additional,
             ~\E j \in DOMAIN p.lines : j > i /\ p.lines[j].name = p.lines[i].name
      PROVE  <<p.lines[i].name, p.lines[i].value>> \in q.forwarded
  <2>1. DOMAIN p.lines = 1 .. Len(p.lines) /\ Len(p.lines) \in Nat
    OBVIOUS
  <2>2. \A j \in 1 .. Len(p.lines) : p.lines[j].name = p.lines[i].name => j <= i
    BY <1>5, <2>1
  <2>3. p.lines[i].name \in DOMAIN p.headers /\ p.headers[p.lines[i].name] = p.lines[i].value
    BY <2>1, <2>2 DEF LinesRead
  <2>4. p.lines[i].name \in own
    BY <1>5, <2>3
  <2>5. <<p.lines[i].name, p.headers[p.lines[i].name]>> \in A
    BY <2>4
  <2> QED BY <1>1, <2>3, <2>5
<1>6. \A i \in DOMAIN p.lines : ForProxy(p.lines[i].name) <=> Word(p.lines[i]) \in {"Proxy-Connection", "Proxy-Authorization"}
  BY DEF ForProxy, Word
<1>7. \A l \in q.forwarded : l[1][1] \notin {"Proxy-Connection", "Proxy-Authorization"}
  BY <1>2 DEF ForProxy
<1> QED BY <1>3, <1>4, <1>5, <1>6, <1>7 DEF q

LEMMA ForwardStep == ParserInv /\ Forward => ParserInv'
<1> SUFFICES ASSUME ParserInv, Forward PROVE ParserInv'
  OBVIOUS
<1>1. PICK additional \in {<< >>} \cup ViaHeaders : hp' = ReforgeHttpRequest(hp, additional)
  BY DEF Forward
<1>2. HeadShape(hp) /\ HeadOf(hp) /\ hp.is_connect \in BOOLEAN /\ hp.broken \in BOOLEAN /\ HeadRead(hp)
      /\ hp.status = "Ok" /\ UrlKept(hp)
  BY DEF ParserInv, Forward
<1>3. hp.lines \in Seq(Lines)
  BY <1>2, HeadTyped
<1>4. LinesRead(hp, hp, Len(hp.lines))
  BY <1>2 DEF HeadRead
<1>5. /\ HeadShape(hp') /\ hp'.at = "forwarded" /\ hp'.is_connect = hp.is_connect /\ hp'.broken = hp.broken
      /\ hp'.kind = hp.kind /\ hp'.first = hp.first /\ hp'.lines = hp.lines /\ hp'.headers = hp.headers
      /\ hp'.host = hp.host /\ hp'.port = hp.port /\ hp'.connection = hp.connection
      /\ hp'.proxy_authorization = hp.proxy_authorization /\ hp'.status = hp.status
      /\ hp'.url = RelativeUrl(hp.url) /\ hp'.added = additional
  BY <1>1, <1>2 DEF HeadShape, HeadFields, ReforgeHttpRequest
<1>6. hp'.url.form = "absolute" => ~hp'.first.url.has_host /\ hp'.url = hp'.first.url
  BY <1>2, <1>5 DEF RelativeUrl, Url, UrlKept
<1>7. \A n \in DOMAIN additional : ~ForProxy(n)
  BY AddedNames
<1>8. /\ \A l \in hp'.forwarded : l[1][1] \notin {"Proxy-Connection", "Proxy-Authorization"}
      /\ \A k, l \in hp'.forwarded : k[1] = l[1] => k = l
      /\ \A n \in DOMAIN additional : <<n, additional[n]>> \in hp'.forwarded
      /\ \A i \in DOMAIN hp.lines :
           \/ Word(hp.lines[i]) \in {"Proxy-Connection", "Proxy-Authorization"}
           \/ hp.lines[i].name \in DOMAIN additional
           \/ \E j \in DOMAIN hp.lines : j > i /\ hp.lines[j].name = hp.lines[i].name
           \/ <<hp.lines[i].name, hp.lines[i].value>> \in hp'.forwarded
  BY <1>1, <1>2, <1>3, <1>4, <1>7, Reforged
<1>9. ForwardRight'
  BY <1>5, <1>6, <1>8 DEF ForwardRight
<1>10. HeadRead(hp')
  BY <1>2, <1>5, HeadReadKept
<1>11. HeadOf(hp')
  BY <1>2, <1>5, SameHead
<1> QED BY <1>2, <1>5, <1>9, <1>10, <1>11 DEF ParserInv

\* The invariant says what HeadsRight asks for.
LEMMA ParserInvRight == ParserInv => HeadsRight
<1> SUFFICES ASSUME ParserInv PROVE HeadsRight
  OBVIOUS
<1>1. OkRight
  BY DEF ParserInv, HeadRead, OkRight
<1>2. ASSUME hp.at \in {"returned", "forwarded"}, hp.status = "Ok"
      PROVE  FieldsSay(hp)
  BY <1>2 DEF ParserInv, HeadRead
<1>3. FieldsSay(hp) => FieldsRight
  <2> DEFINE connection == Last(hp, {"Connection", "Proxy-Connection"})
  <2>1. (IF connection # 0 THEN hp.lines[connection].value ELSE Keeps(hp))
          = IF connection # 0 THEN hp.lines[connection].value
            ELSE IF hp.kind = "response" THEN NoAuthority
            ELSE Text(IF hp.first.version = "HTTP/1.1" THEN "Keep-Alive" ELSE "Close")
    BY DEF Keeps
  <2> QED BY <2>1 DEF FieldsSay, FieldsRight, Connects
<1>4. FieldsRight
  <2>1. CASE hp.at \in {"returned", "forwarded"} /\ hp.status = "Ok"
    BY <1>2, <1>3, <2>1
  <2>2. CASE ~(hp.at \in {"returned", "forwarded"} /\ hp.status = "Ok")
    BY <2>2 DEF FieldsRight
  <2> QED BY <2>1, <2>2
<1>5. ForwardRight
  BY DEF ParserInv
<1> QED BY <1>1, <1>4, <1>5 DEF HeadsRight

\* HttpParser, HeadsRight: whatever head a peer sends, and wherever the framer
\* finds an error or the end of what was read, Parse says ok exactly for a
\* whole and well-formed head; what a caller then reads is what the last line
\* about it says, in whatever spelling; and what is passed on has no line for
\* the proxy, no host in its URL that GURL finds, and one line of every
\* other name.
THEOREM HeadsCorrect == ParserSpec => []HeadsRight
<1>1. ParserInv /\ [ParserNext]_hp => ParserInv'
  <2> SUFFICES ASSUME ParserInv, [ParserNext]_hp PROVE ParserInv'
    OBVIOUS
  <2>1. CASE UNCHANGED hp
    BY <2>1 DEF ParserInv, ForwardRight
  <2> QED
    BY <2>1, FirstLineStep, HeadersStep, MessageStep, ErrorStep, EndStep, ForwardStep DEF ParserNext
<1> QED BY <1>1, ParserStart, ParserInvRight, PTL DEF ParserSpec

=============================================================================
