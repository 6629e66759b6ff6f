----------------------------- MODULE AlpnSelect -----------------------------
(***************************************************************************)
(* ALPN on a TLS listener of net::ContentServer                            *)
(* (src/net/content_server.hpp, src/net/connection.hpp).  The listener has *)
(* one SSL_CTX.  Each accept sets the argument of its ALPN callback to the *)
(* context of the connection just accepted; the callback runs later, when  *)
(* some connection's ClientHello has come, and selects a protocol on the   *)
(* connection its argument names.  Every connection checks in the end that *)
(* the protocol selected on it is the one its handshake negotiated.        *)
(***************************************************************************)
EXTENDS Naturals, Sequences

CONSTANTS
  MaxConnections,                   \* bound: connections accepted
  Offers,                           \* what clients offer: sequences of protocols
  cipher,                           \* of the listener: "http2" or "https"
  renego_allowed_for_http11_proto   \* of the listener

ASSUME ConnectionsAssumption == MaxConnections \in Nat
ASSUME CipherAssumption == cipher \in {"http2", "https"}

VARIABLES
  next_connection_id_,
  alpn_arg,         \* the callback's argument: the id in the tlsext_ctx_t it points to
  stage,            \* stage[c]: "none", "accepted", "negotiated", "refused", "gone"
  selected_proto_,  \* per connection, as recorded by on_alpn_select
  local_cipher_,    \* per connection
  negotiated        \* per connection, as its TLS handshake has it

alpnVars == <<next_connection_id_, alpn_arg, stage, selected_proto_, local_cipher_, negotiated>>

Connections == 1 .. MaxConnections
InMap(c) == stage[c] \notin {"none", "gone"}

AlpnInit ==
  /\ next_connection_id_ = 1
  /\ alpn_arg = 0
  /\ stage = [c \in Connections |-> "none"]
  /\ selected_proto_ = [c \in Connections |-> "unknown"]
  /\ local_cipher_ = [c \in Connections |-> cipher]
  /\ negotiated = [c \in Connections |-> "unknown"]

\* on_async_accept: the connection enters the map, and its context becomes the
\* argument for the whole listener.
on_async_accept ==
  /\ next_connection_id_ <= MaxConnections
  /\ next_connection_id_' = next_connection_id_ + 1
  /\ alpn_arg' = next_connection_id_
  /\ stage' = [stage EXCEPT ![next_connection_id_] = "accepted"]
  /\ UNCHANGED <<selected_proto_, local_cipher_, negotiated>>

\* Mutant: HTTP/1.1 on an HTTP/2 connection whether or not it is allowed.
Selects_http11(c, proto) ==
  InMap(c) /\ \/ proto = "h2" /\ local_cipher_[c] = "http2"
              \/ proto = "http/1.1"

\* SSLDownlink::on_alpn_select for a connection that is in the map.
Selects(c, proto) ==
  /\ InMap(c)
  /\ \/ proto = "h2" /\ local_cipher_[c] = "http2"
     \/ proto = "http/1.1" /\ local_cipher_[c] = "http2" /\ renego_allowed_for_http11_proto
     \/ proto = "http/1.1" /\ local_cipher_[c] = "https"

\* The connection the callback finds.  The context lives as long as its
\* connection; read after that it may name any connection, or none (0).
Found == IF InMap(alpn_arg) THEN {alpn_arg} ELSE {0} \union {c \in Connections : InMap(c)}

\* The ClientHello of c: the first protocol of the offer that the connection
\* found selects.
client_hello(c) ==
  /\ stage[c] = "accepted"
  /\ \E offer \in Offers, found \in Found :
       LET good == {i \in DOMAIN offer : found # 0 /\ Selects(found, offer[i])} IN
       \/ /\ good = {}
          /\ stage' = [stage EXCEPT ![c] = "refused"]
          /\ UNCHANGED <<selected_proto_, local_cipher_, negotiated>>
       \/ \E i \in good :
            /\ \A j \in good : i <= j
            /\ stage' = [stage EXCEPT ![c] = "negotiated"]
            /\ negotiated' = [negotiated EXCEPT ![c] = offer[i]]
            /\ selected_proto_' = [selected_proto_ EXCEPT ![found] = offer[i]]
            /\ local_cipher_' = [local_cipher_ EXCEPT
                 ![found] = IF offer[i] = "http/1.1" THEN "https" ELSE @]
  /\ UNCHANGED <<next_connection_id_, alpn_arg>>

\* A ClientHello without the ALPN extension: the callback is not called.
client_hello_without_alpn(c) ==
  /\ stage[c] = "accepted"
  /\ stage' = [stage EXCEPT ![c] = "negotiated"]
  /\ UNCHANGED <<next_connection_id_, alpn_arg, selected_proto_, local_cipher_, negotiated>>

\* on_tlsext: the server name is not the listener's (all contexts of a listener
\* name the same one), and the handshake fails before ALPN.
on_tlsext_mismatch(c) ==
  /\ stage[c] = "accepted"
  /\ stage' = [stage EXCEPT ![c] = "refused"]
  /\ UNCHANGED <<next_connection_id_, alpn_arg, selected_proto_, local_cipher_, negotiated>>

\* The connection closes: it leaves the map, and its context is freed with it.
on_disconnect(c) ==
  /\ InMap(c)
  /\ stage' = [stage EXCEPT ![c] = "gone"]
  /\ UNCHANGED <<next_connection_id_, alpn_arg, selected_proto_, local_cipher_, negotiated>>

AlpnNext ==
  \/ on_async_accept
  \/ \E c \in Connections :
       \/ client_hello(c) \/ client_hello_without_alpn(c) \/ on_tlsext_mismatch(c)
       \/ on_disconnect(c)

AlpnSpec == AlpnInit /\ [][AlpnNext]_alpnVars

-----------------------------------------------------------------------------
(* Properties. *)

\* Whatever connection the callback finds, no handshake of the listener comes
\* out with a protocol the listener does not support: HTTP/2 only on an http2
\* listener, HTTP/1.1 on an https listener or where it is allowed as fallback.
NegotiatedSupported ==
  \A c \in Connections :
    /\ negotiated[c] = "h2" => cipher = "http2"
    /\ negotiated[c] = "http/1.1" => cipher = "https" \/ renego_allowed_for_http11_proto
=============================================================================
