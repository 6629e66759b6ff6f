------------------------------ MODULE MCChannel ------------------------------
(***************************************************************************)
(* Http2Tunnel and CipherStream for TLC: the two encodings of the channel  *)
(* between client and server.  A behaviour exercises one of them; the      *)
(* other rests.                                                            *)
(***************************************************************************)
EXTENDS Http2Tunnel

CONSTANTS Parts, Ciphers, FrameSize, ChunkSizeMask, MaxRead, MaxSent

VARIABLES part, cs

S == INSTANCE CipherStream

MCInit ==
  /\ part \in Parts
  /\ IF part = "http2" THEN TunnelInit ELSE h2 = [Initial("none", TRUE) EXCEPT !.refused = TRUE]
  /\ IF part = "cipher" THEN S!Init ELSE cs = S!Initial("aead")

MCNext ==
  /\ UNCHANGED part
  /\ \/ part = "http2" /\ TunnelNext /\ UNCHANGED cs
     \/ part = "cipher" /\ S!Next /\ UNCHANGED h2

MCSpec == MCInit /\ [][MCNext]_<<part, h2, cs>> /\ TunnelFairness

\* CipherStream: both ends use the same nonce for the same frame, and what is
\* deciphered is what was enciphered, however the bytes are cut.
CipherInStep == S!CipherInStep
=============================================================================
