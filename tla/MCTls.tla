-------------------------------- MODULE MCTls --------------------------------
(***************************************************************************)
(* The TLS parts for TLC, side by side: a connection between two sockets,  *)
(* the client's session cache, the ALPN callback of a listener.  They      *)
(* share no state here, so a behaviour exercises one of them.              *)
(***************************************************************************)
EXTENDS TlsSockets, SessionCache, AlpnSelect

VARIABLE part   \* the one exercised

Protocols == {"h2", "http/1.1", "other"}
MCOffers == {<<p>> : p \in Protocols} \union {<<p, q>> : p \in Protocols, q \in Protocols}

allVars == <<vars, part, cacheVars, alpnVars>>

MCInit ==
  /\ part \in {"sockets", "cache", "alpn"}
  /\ Init /\ CacheInit /\ AlpnInit
  /\ part # "sockets" => policy = "accept" /\ early_enabled /\ w.cached = 0
  /\ part # "cache" => now = 0

MCNext ==
  \/ part = "sockets" /\ Next /\ UNCHANGED <<part, cacheVars, alpnVars>>
  \/ part = "cache" /\ CacheNext /\ UNCHANGED <<part, vars, alpnVars>>
  \/ part = "alpn" /\ AlpnNext /\ UNCHANGED <<part, vars, cacheVars>>

MCSpec == MCInit /\ [][MCNext]_allVars /\ (part = "sockets" => Fairness)

\* TlsSockets: every connection is answered or closed, with the exceptions
\* that Settles names.
MCSettles == part = "sockets" => Settles
=============================================================================
