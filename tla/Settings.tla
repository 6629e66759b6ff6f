------------------------------ MODULE Settings ------------------------------
(***************************************************************************)
(* The settings of the programs (src/config): the flags, where they are    *)
(* kept (a JSON file, the registry of Windows, the defaults database of    *)
(* Apple's systems), the fields of a front end's window and its dialog of  *)
(* options.  One key stands for every key of its kind.                     *)
(*                                                                         *)
(* A text is what parsing makes of it: a number, NotANumber, a number with *)
(* a unit for a rate.  What is stored is a pair of its type and its value. *)
(* A program may be killed at any point of a save.                         *)
(***************************************************************************)
EXTENDS Naturals, Integers, Sequences

CONSTANTS
  Kinds,   \* a subset of {"gui", "cli", "server"}
  Places,   \* a subset of {"local", "windows", "apple"}
  IntMax,     \* INT32_MAX, scaled down
  RateMax,    \* INT64_MAX, scaled down
  MaxEdits,   \* bound: edits of the window's fields
  MaxSaves,   \* bound: saves
  MaxRuns     \* bound: times a program is started

ASSUME SettingsAssumption ==
  /\ Kinds \subseteq {"gui", "cli", "server"}
  /\ Places \subseteq {"local", "windows", "apple"}
  /\ IntMax \in Nat /\ RateMax \in Nat /\ RateMax >= 1536  \* the rate of Arguments
  /\ MaxEdits \in Nat /\ MaxSaves \in Nat /\ MaxRuns \in Nat

VARIABLE cf

NotANumber == -(IntMax + 10)
KiB == 1024
MiB == 1048576
Empty == "empty"  \* the text without a character
Methods == {"cipher", "https", "socks4", "socks5"}

\* The keys in the order of SaveConfig, which writes those of the flags and
\* deletes the one that earlier versions had; the kinds of the flags.
Keys == << "server", "server_port", "method", "username", "password", "doh_url", "dot_host", "timeout",
           "connect_timeout", "limit_rate", "tcp_keep_alive", "tcp_keep_alive_interval" >>
Deprecated == [connect_timeout |-> "timeout"]
Flags == {Keys[i] : i \in DOMAIN Keys} \ {Deprecated[k] : k \in DOMAIN Deprecated}
KindOf == [ server |-> "string", server_port |-> "port", method |-> "method", username |-> "string",
            password |-> "string", doh_url |-> "string", dot_host |-> "string",
            connect_timeout |-> "int", limit_rate |-> "rate", tcp_keep_alive |-> "bool",
            tcp_keep_alive_interval |-> "int" ]
Required == {"server", "server_port", "username", "password", "method"}
Defaults == [ server |-> "http2.github.io", server_port |-> 443, method |-> "cipher",
              username |-> "username", password |-> "password", doh_url |-> Empty, dot_host |-> Empty,
              connect_timeout |-> 0, limit_rate |-> 0, tcp_keep_alive |-> TRUE,
              tcp_keep_alive_interval |-> 75 ]

-----------------------------------------------------------------------------
(* Conversions. *)

\* Mutant: the unit is looked for the other way round.
RateText_k(rate) ==
  IF rate % KiB = 0 THEN <<rate \div KiB, "m">>
  ELSE IF rate % MiB = 0 THEN <<rate \div MiB, "k">> ELSE <<rate, "bytes">>

RateText(rate) ==
  IF rate % MiB = 0 THEN <<rate \div MiB, "m">>
  ELSE IF rate % KiB = 0 THEN <<rate \div KiB, "k">> ELSE <<rate, "bytes">>

ngx_parse_size(text) ==
  LET scale == IF text[2] = "m" THEN MiB ELSE IF text[2] = "k" THEN KiB ELSE 1
  IN IF text[1] < 0 \/ text[1] > RateMax \div scale THEN -1 ELSE text[1] * scale

MaxPort == 65535
IsPort(n) == n \in 0 .. MaxPort
StringToInt(n) == n # NotANumber /\ n <= IntMax

\* An unsigned number put into an int32_t.
Wrapped(n) == IF n > IntMax THEN n - 2 * (IntMax + 1) ELSE n

-----------------------------------------------------------------------------
(* ConfigImpl and the places. *)

TypeOf(backend, kind) ==
  CASE kind \in {"string", "method", "rate"} -> "string"
    [] kind \in {"port", "int"} -> "number"
    [] kind = "bool" -> IF backend = "windows" THEN "number" ELSE "bool"

Write(backend, kind, value) ==
  << TypeOf(backend, kind),
     CASE kind = "rate" -> RateText(value)
       [] kind = "bool" /\ backend = "windows" -> (IF value THEN 1 ELSE 0)
       [] OTHER -> value >>

\* Whether Read sets the flag, and what to.
Reads(backend, kind, stored) ==
  /\ stored[1] = TypeOf(backend, kind)
  /\ CASE kind = "port" -> IsPort(stored[2])
       [] kind = "method" -> stored[2] \in Methods
       [] kind = "rate" -> ngx_parse_size(stored[2]) >= 0
       [] OTHER -> TRUE
Read(backend, kind, stored) ==
  CASE kind = "rate" -> ngx_parse_size(stored[2])
    [] kind = "bool" /\ backend = "windows" -> stored[2] # 0
    [] OTHER -> stored[2]

\* Only a file can fail to open: it is missing, or not an object of JSON.
Opens(c) == c.backend # "local" \/ c.readable

Loads(backend, store, key) == key \in DOMAIN store /\ Reads(backend, KindOf[key], store[key])
LoadsDeprecated(store, key) ==
  /\ key \in DOMAIN Deprecated /\ Deprecated[key] \in DOMAIN store
  /\ store[Deprecated[key]][1] = "number"

\* What the flags become when everything that is stored is read into them.
ReadFlags(backend, store, flags) ==
  [k \in Flags |-> IF Loads(backend, store, k) THEN Read(backend, KindOf[k], store[k])
                   ELSE IF LoadsDeprecated(store, k) THEN store[Deprecated[k]][2] ELSE flags[k]]

\* "correct options"
Corrected(flags) ==
  [flags EXCEPT !.connect_timeout = IF @ < 0 THEN 0 ELSE @,
                !.tcp_keep_alive_interval = IF @ < 0 THEN 0 ELSE @]

\* ReadConfig, into the flags as they are.  It fails, and ends a program that
\* was given a file, when the file or one of the required fields is not there.
ReadConfig(c) ==
  IF ~Opens(c) THEN [c EXCEPT !.phase = IF c.enforce THEN "ended" ELSE @]
  ELSE IF c.enforce /\ \E k \in Required : ~Loads(c.backend, c.store, k) THEN [c EXCEPT !.phase = "ended"]
  ELSE [c EXCEPT !.flags = Corrected(ReadFlags(c.backend, c.store, c.flags))]

-----------------------------------------------------------------------------
(* The checks, one for the flags and one for the fields of the window. *)

HostFits(host) == host # "too long"
CredentialsFit(method, username, password) ==
  CASE method = "socks4" -> username = Empty /\ password = Empty
    [] method \in {"socks5", "https"} -> (username = Empty) = (password = Empty)
    [] OTHER -> TRUE
DoHFits(doh_url, dot_host) == doh_url # Empty => doh_url = "https://dns" /\ dot_host = Empty

ValidateConfig(f) ==
  /\ f.server # Empty /\ HostFits(f.server) /\ f.server_port # 0
  /\ CredentialsFit(f.method, f.username, f.password)
  /\ DoHFits(f.doh_url, f.dot_host) /\ HostFits(f.dot_host)
  /\ f.connect_timeout >= 0

\* Mutant: that two resolvers are configured goes unnoticed.
ReadConfigFromArgument_both(f) ==
  /\ f.server # Empty /\ HostFits(f.server) /\ IsPort(f.server_port) /\ f.server_port # 0
  /\ f.method \in Methods /\ CredentialsFit(f.method, f.username, f.password)
  /\ f.doh_url \in {Empty, "https://dns"} /\ HostFits(f.dot_host)
  /\ ngx_parse_size(f.limit_rate) >= 0
  /\ StringToInt(f.connect_timeout) /\ f.connect_timeout >= 0

ReadConfigFromArgument(f) ==
  /\ f.server # Empty /\ HostFits(f.server) /\ IsPort(f.server_port) /\ f.server_port # 0
  /\ f.method \in Methods /\ CredentialsFit(f.method, f.username, f.password)
  /\ DoHFits(f.doh_url, f.dot_host) /\ HostFits(f.dot_host)
  /\ ngx_parse_size(f.limit_rate) >= 0
  /\ StringToInt(f.connect_timeout) /\ f.connect_timeout >= 0

\* The fields of the window, as they are filled from the flags.
Fields == Flags \ {"tcp_keep_alive", "tcp_keep_alive_interval"}
LoadChanges(flags) ==
  [k \in Fields |-> IF k = "limit_rate" THEN RateText(flags[k]) ELSE flags[k]]

-----------------------------------------------------------------------------
(* A program starts. *)

Arguments == { << >>, [connect_timeout |-> -1], [doh_url |-> "https://dns", dot_host |-> "dns"],
               [server_port |-> 0], [limit_rate |-> 1536] }

\* With TLS the server must have its key and certificate, and a certificate
\* file that is named must be readable.
ReadTLSConfigFile(c) ==
  IF c.certificate = "none" THEN c.program # "server" ELSE c.certificate = "readable"

\* ReadConfigFileAndArguments: then what the command line says, and with TLS
\* the files of the certificate.
ReadConfigFileAndArguments(c, args) ==
  LET r == ReadConfig(c)
      flags == [k \in Flags |-> IF k \in DOMAIN args THEN args[k] ELSE r.flags[k]]
  IN IF r.phase = "ended" THEN r
     ELSE IF flags.method = "https" /\ ~ReadTLSConfigFile(c)
     THEN [r EXCEPT !.phase = "ended"]
     ELSE [r EXCEPT !.flags = flags, !.fresh = args = << >>]

\* main of the programs without a window validates the flags and goes on.
Launch == \E args \in Arguments :
  /\ cf.phase = "off" /\ cf.runs < MaxRuns
  /\ LET c == ReadConfigFileAndArguments(
                [cf EXCEPT !.phase = "running", !.runs = @ + 1, !.flags = Defaults, !.started = FALSE], args)
     IN cf' = IF c.phase = "ended" THEN c
              ELSE IF cf.program = "gui" THEN [c EXCEPT !.form = LoadChanges(c.flags)]
              ELSE IF ValidateConfig(c.flags) THEN [c EXCEPT !.started = TRUE]
              ELSE [c EXCEPT !.phase = "ended"]

-----------------------------------------------------------------------------
(* The window, its options, and saves. *)

Texts(key) ==
  CASE key = "server" -> {Empty, "host", "too long"}
    [] key = "server_port" -> {NotANumber, 0, 8443, 65536}
    [] key = "method" -> {"https", "socks4", "socks5", "unknown"}
    [] key \in {"username", "password"} -> {Empty, "secret"}
    [] key = "doh_url" -> {"https://dns", "http://dns"}
    [] key = "dot_host" -> {"dns", "too long"}
    [] key = "connect_timeout" -> {NotANumber, -1, 10, IntMax + 1}
    [] key = "limit_rate" -> {<<NotANumber, "bytes">>, <<3, "k">>, <<4, "m">>, <<RateMax, "k">>, <<2048, "k">>, <<7, "bytes">>}

Edit(key) ==
  /\ cf.program = "gui" /\ cf.phase = "running" /\ cf.edits < MaxEdits
  /\ \E text \in Texts(key) : cf' = [cf EXCEPT !.form[key] = text, !.edits = @ + 1, !.fresh = FALSE]

\* What a save has still to do: the registry is written key by key, a file is
\* cut and then written, the database is replaced.
Steps(backend) ==
  CASE backend = "windows" -> Keys
    [] backend = "local" -> <<"truncate", "write">>
    [] backend = "apple" -> <<"write">>

\* SaveConfig opens what is there, and adds to it.
SaveConfig(c) ==
  LET kept == IF Opens(c) THEN c.store ELSE << >>
      keys == (DOMAIN kept \ {Deprecated[k] : k \in DOMAIN Deprecated}) \cup Flags
  IN [c EXCEPT !.phase = "saving", !.todo = Steps(c.backend), !.saves = @ + 1,
               !.old = ReadConfig([c EXCEPT !.flags = Defaults, !.enforce = FALSE]).flags,
               !.new = c.flags, !.saved = "no", !.fresh = FALSE,
               !.root = [k \in keys |-> IF k \in Flags THEN Write(c.backend, KindOf[k], c.flags[k]) ELSE kept[k]]]

\* OnStart takes the fields over if all of them are right; the settings are
\* saved when the worker has started.
OnStart ==
  /\ cf.program = "gui" /\ cf.phase = "running" /\ cf.saves < MaxSaves
  /\ ReadConfigFromArgument(cf.form)
  /\ LET flags == [k \in Flags |-> IF k \notin Fields THEN cf.flags[k]
                                   ELSE IF k = "limit_rate" THEN ngx_parse_size(cf.form[k]) ELSE cf.form[k]]
         c == [cf EXCEPT !.flags = flags, !.started = TRUE, !.fresh = FALSE]
     IN cf' = SaveConfig(c) \/ cf' = [c EXCEPT !.started = FALSE]

\* The dialog: a number that is not accepted keeps it open.  Windows reads an
\* unsigned number into an int32_t, the Mac takes any.
OptionNumbers(backend) ==
  CASE backend = "local" -> {n \in {NotANumber, -1, 5, IntMax + 1} : StringToInt(n) /\ n >= 0}
    [] backend = "windows" -> {Wrapped(n) : n \in {5, IntMax + 1}}
    [] backend = "apple" -> {-1, 0, 5, IntMax}
OnOkayButtonClicked ==
  /\ cf.program = "gui" /\ cf.phase = "running" /\ cf.saves < MaxSaves
  /\ \E keep_alive \in BOOLEAN, interval \in OptionNumbers(cf.backend) :
       cf' = SaveConfig([cf EXCEPT !.flags.tcp_keep_alive = keep_alive,
                                   !.flags.tcp_keep_alive_interval = interval])

\* One key of the registry is written or deleted.
PutKey(store, key, value) == [k \in DOMAIN store \cup {key} |-> IF k = key THEN value ELSE store[k]]
DeleteKey(store, key) == [k \in DOMAIN store \ {key} |-> store[k]]

SaveStep ==
  /\ cf.phase = "saving"
  /\ LET step == Head(cf.todo)
         last == Tail(cf.todo) = << >>
         c == [cf EXCEPT !.todo = Tail(@), !.phase = IF last THEN "running" ELSE @,
                         !.saved = IF last THEN "yes" ELSE "partly"]
     IN cf' = CASE step = "truncate" -> [c EXCEPT !.readable = FALSE]
                [] step = "write" -> [c EXCEPT !.readable = TRUE, !.store = cf.root]
                [] step \in Flags -> [c EXCEPT !.store = PutKey(@, step, cf.root[step])]
                [] OTHER -> [c EXCEPT !.store = DeleteKey(@, step)]

\* The program ends, or is killed in the middle of a save.
Killed ==
  /\ cf.phase \in {"running", "saving", "ended"}
  /\ cf' = [cf EXCEPT !.phase = "off", !.started = FALSE, !.fresh = FALSE, !.todo = << >>,
                      !.flags = Defaults, !.form = LoadChanges(Defaults), !.root = << >>]

-----------------------------------------------------------------------------
\* What is stored at first: nothing, what an earlier version wrote, or a file
\* that was edited by hand.
Stores(backend) ==
  { << >>,
    [server |-> <<"string", "host">>, server_port |-> <<"number", 8443>>, method |-> <<"string", "https">>,
     username |-> <<"string", Empty>>, password |-> <<"string", Empty>>, timeout |-> <<"number", 10>>],
    [server |-> <<"string", "host">>, server_port |-> <<"number", 65536>>, method |-> <<"string", "unknown">>,
     connect_timeout |-> <<"number", -1>>, tcp_keep_alive |-> <<"string", "yes">>,
     tcp_keep_alive_interval |-> <<"number", -1>>, doh_url |-> <<"string", "http://dns">>] }

InitialSettings(program, backend, store, readable, enforce, certificate) ==
  [ program |-> program, backend |-> backend, enforce |-> enforce, certificate |-> certificate,
    phase |-> "off", store |-> store, readable |-> readable, root |-> << >>, todo |-> << >>,
    flags |-> Defaults, form |-> LoadChanges(Defaults), started |-> FALSE, fresh |-> FALSE,
    old |-> Defaults, new |-> Defaults, saved |-> "none", edits |-> 0, saves |-> 0, runs |-> 0 ]

SettingsInit == \E program \in Kinds, backend \in Places, readable, enforce \in BOOLEAN :
  \E store \in Stores(backend), certificate \in {"none", "readable", "unreadable"} :
    /\ enforce => backend = "local" /\ program # "gui"
    /\ program = "gui" => certificate = "none"
    /\ readable \/ backend = "local"
    /\ cf = InitialSettings(program, backend, store, readable, enforce, certificate)

SettingsNext ==
  \/ Launch \/ OnStart \/ OnOkayButtonClicked \/ SaveStep \/ Killed
  \/ \E key \in Fields : Edit(key)

SettingsSpec == SettingsInit /\ [][SettingsNext]_cf

-----------------------------------------------------------------------------
(* Properties. *)

\* A setting is there under neither of its keys: the earlier one was deleted and
\* the one that replaces it had never been written, or not as it should be.
Lost(backend, store, k) ==
  k \in DOMAIN Deprecated /\ Deprecated[k] \notin DOMAIN store /\ ~Loads(backend, store, k)

\* What was saved is there the next time a program starts without arguments,
\* with negative numbers made zero, in every place and for every kind of
\* setting.  After a save that was cut short, a file or a database gives the
\* old settings, the new ones or the defaults and no mixture; in the registry
\* every setting is the old or the new one, but one that had been there under
\* its earlier key alone may be lost, and is the default one then.
SettingsKept == cf.phase = "running" /\ cf.fresh =>
  LET new == Corrected(cf.new) IN
  CASE cf.saved = "none" -> TRUE
    [] cf.saved = "yes" -> cf.flags = new
    [] OTHER -> IF cf.backend = "windows"
                THEN \A k \in Flags : \/ cf.flags[k] \in {cf.old[k], new[k]}
                                      \/ Lost(cf.backend, cf.store, k) /\ cf.flags[k] = Defaults[k]
                ELSE cf.flags \in {cf.old, new, Defaults}

CanWork(f) ==
  /\ f.server \notin {Empty, "too long"} /\ f.server_port \in 1 .. MaxPort /\ f.method \in Methods
  /\ f.method = "socks4" => f.username = Empty /\ f.password = Empty
  /\ f.method \in {"socks5", "https"} => (f.username = Empty) = (f.password = Empty)
  /\ f.doh_url # Empty => f.dot_host = Empty
  /\ f.connect_timeout >= 0 /\ f.limit_rate >= 0

\* Whatever is stored, given as an argument or typed in, a worker or a server
\* starts only with a server it can name, credentials its method can carry,
\* and no more than one of the two encrypted resolvers.
StartsValid == cf.started => CanWork(cf.flags)
=============================================================================
