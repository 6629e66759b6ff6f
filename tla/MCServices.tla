----------------------------- MODULE MCServices -----------------------------
(***************************************************************************)
(* The services the proxies rest on, which share no state: the resolvers,  *)
(* the trusted certificates, the settings, the programs' mains and the     *)
(* parser of HTTP heads.  A behaviour is one of them at work.              *)
(***************************************************************************)
EXTENDS Resolver, Settings, Programs, CaStore, HttpParser

CONSTANT Parts   \* the services to explore

VARIABLE part

\* Certificates a system, a file or a directory may hold.
Root == Certificate("root")
AnyRequired == CHOOSE cn \in RequiredRoots : TRUE
Expired(cn) == [Certificate(cn) EXCEPT !.active = FALSE]
Denied == [Certificate("denied") EXCEPT !.added = TRUE, !.user = Deny]
Allowed == [Certificate("allowed") EXCEPT !.added = TRUE, !.user = Settings(<< Dict(TRUE, "ssl", "deny") >>),
                                       !.admin = Settings(<< >>)]
Refused(cn) == [Certificate(cn) EXCEPT !.adds = FALSE]
Leaf == [Certificate("leaf") EXCEPT !.is_ca = FALSE, !.eku = "other"]
Signing == [Certificate("signing") EXCEPT !.added = TRUE, !.eku = "other"]

MCSystemStores ==
  { << >>, << Root, Denied, Allowed, Overruled >>,
    << Leaf, Signing, Certificate("emSign"), Certificate(AnyRequired) >> }

\* The bundles in the program: all in their time, or one required root that is
\* not any more, or that the store refuses.
Own(required) ==
  [builtin |-> Bundle(<< Root, Certificate("emSign"), required >>, TRUE),
   supplementary |-> Bundle(<< required, Certificate(CHOOSE cn \in RequiredRoots : cn # AnyRequired) >>, TRUE)]
MCEmbedded == {Own(Certificate(AnyRequired)), Own(Expired(AnyRequired)), Own(Refused(AnyRequired))}
MCBundles ==
  { Bundle(<< >>, TRUE), Bundle(<< Expired(AnyRequired), Certificate("emSign") >>, TRUE),
    Bundle(<< Certificate(AnyRequired), Root >>, FALSE), Bundle(<< Refused(AnyRequired) >>, TRUE) }

\* Heads a peer may send: three lines behind a plain request, one behind each
\* other first line.
MCBrackets == [h \in {"[v6]"} |-> "v6"]
MCAuthorities ==
  { Text("a"), Authority(FALSE, "[v6]", 443), Authority(TRUE, "a", 443),
    Authority(FALSE, "a", 0), Authority(FALSE, "a", 65536), Authority(FALSE, "a", 65535),
    NoAuthority }
\* http://a/, http://a:80 and http://a:99999/: the last is no URL for GURL, and
\* only the second can be split at its last colon.
Absolute == Url("absolute", TRUE, TRUE, Authority(FALSE, "http", 65536))
AbsolutePort == Url("absolute", TRUE, TRUE, Authority(FALSE, "http://a", 80))
AbsoluteInvalid == Url("absolute", TRUE, FALSE, Authority(FALSE, "http://a", 65536))
MCUrls ==
  { Url("empty", TRUE, FALSE, NoAuthority), Url("path", TRUE, FALSE, Text("/")),
    Url("path", FALSE, FALSE, Text("/")),
    Absolute, AbsolutePort, AbsoluteInvalid }
  \cup { Url("authority", TRUE, FALSE, a) : a \in MCAuthorities }
MCVersions == {"", "HTTP/1.1", "HTTP/1.0", "HTTP/x"}
MCRequestLines == [method : {"GET", "CONNECT", "connect"}, url : MCUrls, version : MCVersions]
MCStatusLines == [version : MCVersions, status : {200, 0, -1}]
Line(word, spelled, value) == [name |-> <<word, spelled>>, value |-> value]
MCLines ==
  { Line("Host", "cap", Text("b")), Line("Host", "low", Authority(FALSE, "[v6]", 443)),
    Line("Host", "cap", Authority(FALSE, "b", 0)),
    Line("Connection", "cap", Text("Close")), Line("Connection", "low", Text("Keep-Alive")),
    Line("Proxy-Connection", "cap", Text("Keep-Alive")), Line("Proxy-Connection", "low", Text("Close")),
    Line("Proxy-Authorization", "low", Text("token")), Line("Via", "cap", Text("other")),
    Line("Content-Type", "low", Text("text")) }
MCHeads ==
  [kind : {"request"}, first : [method : {"GET"}, url : {Absolute}, version : {"HTTP/1.1", "HTTP/1.0"}],
   lines : MCLines \X MCLines \X MCLines]
  \cup [kind : {"request"}, first : MCRequestLines, lines : {<<line>> : line \in MCLines}]
  \cup [kind : {"response"}, first : MCStatusLines, lines : {<<line>> : line \in MCLines}]

all == <<part, rs, ca, cf, pg, hp>>

\* The services that are not at work rest.
MCInit ==
  /\ part \in Parts
  /\ IF part = "resolver" THEN ResolverInit ELSE rs = InitialResolver("client", "libc", FALSE)
  /\ IF part = "certificates" THEN CaInit ELSE ca = [phase |-> "resting", store |-> {}]
  /\ IF part = "settings" THEN SettingsInit ELSE cf = [phase |-> "resting", started |-> FALSE]
  /\ IF part = "programs" THEN ProgramInit ELSE pg = Ended(InitialProgram("server"))
  /\ IF part = "parser" THEN ParserInit ELSE hp = Resting

MCNext ==
  \/ part = "resolver" /\ ResolverNext /\ UNCHANGED <<part, ca, cf, pg, hp>>
  \/ part = "certificates" /\ CaNext /\ UNCHANGED <<part, rs, cf, pg, hp>>
  \/ part = "settings" /\ SettingsNext /\ UNCHANGED <<part, rs, ca, pg, hp>>
  \/ part = "programs" /\ ProgramNext /\ UNCHANGED <<part, rs, ca, cf, hp>>
  \/ part = "parser" /\ ParserNext /\ UNCHANGED <<part, rs, ca, cf, pg>>

MCSpec == MCInit /\ [][MCNext]_all /\ ResolverFairness /\ ProgramFairness

\* Resolver, Programs: every lookup somebody waits for is answered, and a
\* signal that asks for it ends the program.
ServicesEnd == LookupsEnd /\ SignalsEnd
=============================================================================
