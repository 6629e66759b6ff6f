----------------------------- MODULE HttpParser -----------------------------
(***************************************************************************)
(* The parser of HTTP heads (src/net/http_parser.cpp, in the build with    *)
(* the Balsa framer) and the rewriting of a request for the next hop.      *)
(*                                                                         *)
(* A parser is made for one call of Parse, in which the framer calls it    *)
(* back: the first line, all header lines at once, the end of the head,    *)
(* the end of the message, or an error at any point.  The visitor cannot   *)
(* stop the framer, so the later callbacks come after an error of its own  *)
(* as well.  The framer is not of this repository; it may return anywhere, *)
(* as it does at the end of an incomplete head.                            *)
(*                                                                         *)
(* A name of a header is a word and its spelling, since some comparisons   *)
(* ignore the case and others do not; its value is what it is if read as   *)
(* an authority.  A URL is its form and what it names; a request that goes *)
(* out has a set of lines, the order of a hash map being any.              *)
(***************************************************************************)
EXTENDS Integers, Sequences

CONSTANTS
  Heads,      \* the heads a peer may send: a kind, a first line and header lines
  Brackets    \* the IPv6 literals in brackets, and the addresses in them

VARIABLE hp

NoPort == -1
DefaultPort == 80
HighestPort == 65535
Authority(user, host, port) == [user |-> user, host |-> host, port |-> port]
Text(word) == Authority(FALSE, word, NoPort)
NoAuthority == Text("")

\* What a Host line, or the URL of a CONNECT, may name.
Authorities == [user : BOOLEAN, host : STRING, port : Int]

\* has_host: it is a valid GURL with a host, which a path is not.
Url(form, good, has_host, authority) ==
  [form |-> form, good |-> good, has_host |-> has_host, authority |-> authority]
Urls ==
  [form : {"empty", "path", "absolute", "authority"}, good : BOOLEAN, has_host : BOOLEAN, authority : Authorities]

RequestLines == [method : STRING, url : Urls, version : STRING]
StatusLines == [version : STRING, status : Int]   \* -1: not a number

Word(line) == line.name[1]
Lines == [name : STRING \X STRING, value : Authorities]

\* SplitHostPortWithDefaultPort, which takes the last colon for the one ahead of
\* the port, and the brackets of an IPv6 literal.
Splits(a) == ~a.user /\ a.host # "" /\ (a.port = NoPort \/ a.port \in 1 .. HighestPort)
HostOf(a) == IF a.host \in DOMAIN Brackets THEN Brackets[a.host] ELSE a.host
PortOf(a) == IF a.port = NoPort THEN DefaultPort ELSE a.port

\* What is between brackets has no brackets itself.
ASSUME HeadsAssumption ==
  /\ \A h \in DOMAIN Brackets : Brackets[h] \notin DOMAIN Brackets
  /\ \A head \in Heads :
       /\ \/ head.kind = "request" /\ head.first \in RequestLines
          \/ head.kind = "response" /\ head.first \in StatusLines
       /\ head.lines \in Seq(Lines)

Initial(kind, first, lines) ==
  [ kind |-> kind, first |-> first, lines |-> lines, at |-> "first line", broken |-> FALSE,
    status |-> "Paused", headers_done |-> FALSE, method |-> "", url |-> Url("empty", TRUE, FALSE, NoAuthority),
    version |-> "", host |-> "", port |-> 0, headers |-> << >>, is_connect |-> FALSE,
    content_type |-> NoAuthority, connection |-> NoAuthority, proxy_authorization |-> NoAuthority,
    status_code |-> 0,
    added |-> << >>, forwarded |-> {} ]

\* A parser nobody uses.
Resting == [Initial("response", [version |-> "", status |-> 0], << >>) EXCEPT !.at = "forwarded", !.broken = TRUE]

ParserInit == \E head \in Heads : hp = Initial(head.kind, head.first, head.lines)

-----------------------------------------------------------------------------
(* Validation and conversions. *)

isMethodValid(method) == method \in {"GET", "CONNECT"}

\* Only a CONNECT may name an authority alone; the method of an absolute URL or
\* a path may be any.
isUrlValid(url, is_connect) ==
  /\ url.form # "empty" /\ url.good
  /\ url.form = "authority" => is_connect

isVersionValid(version) == version # "HTTP/x"

\* Mutant: the names of headers are compared as they are spelled.
Is_spelled(line, word) == line.name = <<word, "cap">>

\* CompareCaseInsensitiveASCII
Is(line, word) == Word(line) = word

Failed(p) == [p EXCEPT !.status = "Error"]

-----------------------------------------------------------------------------
(* The callbacks of the framer. *)

OnRequestFirstLineInput(p) ==
  LET f == p.first
      is_connect == f.method = "CONNECT"
      q == [p EXCEPT !.is_connect = is_connect, !.method = f.method]
      r == [q EXCEPT !.url = f.url, !.version = f.version]
      s == IF is_connect
           THEN [r EXCEPT !.host = HostOf(f.url.authority), !.port = PortOf(f.url.authority)] ELSE r
  IN IF p.status = "Error" THEN p
     ELSE IF ~isMethodValid(f.method) THEN Failed(p)
     ELSE IF ~isUrlValid(f.url, is_connect) THEN Failed(q)
     ELSE IF is_connect /\ ~Splits(f.url.authority) THEN Failed(r)
     ELSE IF ~isVersionValid(f.version) THEN Failed(s)
     ELSE [s EXCEPT !.connection = Text(IF f.version = "HTTP/1.1" THEN "Keep-Alive" ELSE "Close")]

OnResponseFirstLineInput(p) ==
  IF p.status = "Error" THEN p
  ELSE IF ~isVersionValid(p.first.version) \/ p.first.status <= 0 THEN Failed(p)
  ELSE [p EXCEPT !.status_code = p.first.status]

\* The map of the header lines: the last line of a name replaces the others.
SetHeader(headers, line) ==
  [n \in {line.name} \cup DOMAIN headers |-> IF n = line.name THEN line.value ELSE headers[n]]

\* One turn of the loop; a Host line that cannot be split ends it.
BadHost(p, line) == Is(line, "Host") /\ ~p.is_connect /\ ~Splits(line.value)
OnLine(p, line) ==
  LET q == [p EXCEPT !.headers = SetHeader(@, line)] IN
  CASE BadHost(p, line) -> Failed(q)
    [] Is(line, "Host") /\ ~p.is_connect /\ ~BadHost(p, line) ->
         [q EXCEPT !.host = HostOf(line.value), !.port = PortOf(line.value)]
    [] Is(line, "Content-Type") -> [q EXCEPT !.content_type = line.value]
    [] Is(line, "Connection") \/ Is(line, "Proxy-Connection") -> [q EXCEPT !.connection = line.value]
    [] Is(line, "Proxy-Authorization") -> [q EXCEPT !.proxy_authorization = line.value]
    [] OTHER -> q

ProcessHeaders(p) ==
  LET turn[i \in 0 .. Len(p.lines)] ==
        IF i = 0 THEN p
        ELSE IF \E j \in 1 .. i - 1 : BadHost(p, p.lines[j]) THEN turn[i - 1]
        ELSE OnLine(turn[i - 1], p.lines[i])
  IN turn[Len(p.lines)]

HeaderDone(p) ==
  IF p.status = "Error" THEN p ELSE [p EXCEPT !.status = "Ok", !.headers_done = TRUE]

MessageDone(p) ==
  IF p.status = "Error" THEN p ELSE [p EXCEPT !.status = "Ok", !.headers_done = FALSE]

-----------------------------------------------------------------------------
(* A call of Parse, and what its caller does with a request. *)

FirstLine ==
  /\ hp.at = "first line"
  /\ hp' = [(IF hp.kind = "request" THEN OnRequestFirstLineInput(hp) ELSE OnResponseFirstLineInput(hp))
              EXCEPT !.at = "headers"]

Headers ==
  /\ hp.at = "headers"
  /\ hp' = [HeaderDone(ProcessHeaders(hp)) EXCEPT !.at = "body"]

\* A message without a body ends with its head.
Message ==
  /\ hp.at = "body"
  /\ hp' = [MessageDone(hp) EXCEPT !.at = "returned"]

\* HandleError, and a warning that counts as an error; the framer goes no further.
HandleError ==
  /\ hp.at \in {"first line", "headers", "body"}
  /\ hp' = [Failed(hp) EXCEPT !.broken = TRUE, !.at = "returned"]

\* Parse: the end of what was read.
EndOfInput ==
  /\ hp.at \in {"first line", "headers", "body"}
  /\ hp' = [hp EXCEPT !.at = "returned", !.broken = @ \/ hp.at # "body"]

\* The URL for the next hop: a host in it is left out, if GURL finds one; what
\* is no valid GURL, such as one whose port is too high, stays as it is.
RelativeUrl(url) == IF url.has_host THEN Url("path", TRUE, FALSE, Text("/")) ELSE url

ForProxy(name) == name[1] \in {"Proxy-Connection", "Proxy-Authorization"}

\* ReforgeHttpRequestImpl
ReforgeHttpRequest(p, additional) ==
  [ p EXCEPT !.at = "forwarded", !.url = RelativeUrl(@), !.added = additional,
             !.forwarded = {<<name, p.headers[name]>> : name \in
                              {n \in DOMAIN p.headers : ~ForProxy(n) /\ n \notin DOMAIN additional}}
                           \cup {<<name, additional[name]>> : name \in DOMAIN additional} ]

\* A proxy passes the request on as it is; a server adds its own lines, of
\* which two can be switched off.
ViaHeaders ==
  {LET lines == {"Connection"} \cup some IN
   [n \in {<<w, "cap">> : w \in lines} |-> Text(IF n[1] = "Connection" THEN "Close" ELSE "server")] :
   some \in SUBSET {"Forwarded", "Via"}}

Forward ==
  /\ hp.at = "returned" /\ hp.status = "Ok" /\ hp.kind = "request" /\ ~hp.is_connect
  /\ \E additional \in {<< >>} \cup ViaHeaders : hp' = ReforgeHttpRequest(hp, additional)

ParserNext == FirstLine \/ Headers \/ Message \/ HandleError \/ EndOfInput \/ Forward

ParserSpec == ParserInit /\ [][ParserNext]_hp

-----------------------------------------------------------------------------
(* Properties. *)

Last(p, words) ==
  LET some == {i \in DOMAIN p.lines : Word(p.lines[i]) \in words} IN
  IF some = {} THEN 0 ELSE CHOOSE i \in some : \A j \in some : j <= i

\* The messages the parser accepts.  The URL of a CONNECT has any form, as long
\* as it can be split: a path is a host, and so is what an absolute URL has
\* ahead of its last colon.
WellFormed(p) ==
  LET connects == p.kind = "request" /\ p.first.method = "CONNECT" IN
  /\ p.first.version # "HTTP/x"
  /\ p.kind = "response" => p.first.status > 0
  /\ p.kind = "request" =>
       /\ p.first.method \in {"GET", "CONNECT"} /\ p.first.url.good
       /\ p.first.url.form \in {"path", "absolute"} \cup (IF connects THEN {"authority"} ELSE {})
  /\ connects => Splits(p.first.url.authority)
  /\ ~connects => \A i \in DOMAIN p.lines : Word(p.lines[i]) = "Host" => Splits(p.lines[i].value)

\* Parse says ok exactly for a whole, well-formed head in which the framer
\* found no error, however the callbacks of the visitor and the errors came.
OkRight == hp.at \in {"returned", "forwarded"} =>
  (hp.status = "Ok" <=> ~hp.broken /\ WellFormed(hp))

\* What a caller then reads is what the head says: the destination of a
\* CONNECT from its URL and of any other request from the last Host line, in
\* whatever spelling; whether to keep the connection from the last of the two
\* lines about it, or else from the version.
FieldsRight == hp.at \in {"returned", "forwarded"} /\ hp.status = "Ok" =>
  LET host == Last(hp, {"Host"})
      connection == Last(hp, {"Connection", "Proxy-Connection"})
      token == Last(hp, {"Proxy-Authorization"})
      from == IF hp.is_connect THEN hp.first.url.authority
              ELSE IF host = 0 THEN NoAuthority ELSE hp.lines[host].value
  IN /\ hp.is_connect <=> hp.kind = "request" /\ hp.first.method = "CONNECT"
     /\ IF from = NoAuthority THEN hp.host = "" /\ hp.port = 0
        ELSE hp.host \notin DOMAIN Brackets /\ hp.host = HostOf(from) /\ hp.port = PortOf(from)
     /\ hp.port \in 0 .. HighestPort
     /\ hp.connection = IF connection # 0 THEN hp.lines[connection].value
                        ELSE IF hp.kind = "response" THEN NoAuthority
                        ELSE Text(IF hp.first.version = "HTTP/1.1" THEN "Keep-Alive" ELSE "Close")
     /\ hp.proxy_authorization = IF token # 0 THEN hp.lines[token].value ELSE NoAuthority

\* The request for the next hop names a host in its URL only where GURL finds
\* none in it, and then the URL is the client's; it has no line that was meant
\* for the proxy, in any spelling, and has of every other name one line: the
\* caller's own, or else the last one of the client.
ForwardRight == hp.at = "forwarded" =>
  /\ hp.url.form = "absolute" => ~hp.first.url.has_host /\ hp.url = hp.first.url
  /\ \A l \in hp.forwarded : l[1][1] \notin {"Proxy-Connection", "Proxy-Authorization"}
  /\ \A k, l \in hp.forwarded : k[1] = l[1] => k = l
  /\ \A n \in DOMAIN hp.added : <<n, hp.added[n]>> \in hp.forwarded
  /\ \A i \in DOMAIN hp.lines :
       \/ Word(hp.lines[i]) \in {"Proxy-Connection", "Proxy-Authorization"}
       \/ hp.lines[i].name \in DOMAIN hp.added
       \/ \E j \in DOMAIN hp.lines : j > i /\ hp.lines[j].name = hp.lines[i].name
       \/ <<hp.lines[i].name, hp.lines[i].value>> \in hp.forwarded

\* A head is accepted only if it is right, is read as it says, and is passed
\* on with what is for the next hop (OkRight, FieldsRight, ForwardRight).
HeadsRight == OkRight /\ FieldsRight /\ ForwardRight
=============================================================================
