---------------------------- MODULE CipherStream ----------------------------
(***************************************************************************)
(* The encoder of one end and the decoder of the other                     *)
(* (src/net/cipher.cpp, EncryptData of both connections): a salt or nonce  *)
(* once, then, for the AEAD ciphers, frames of an encrypted length and an  *)
(* encrypted payload, each sealed with a counter that both ends keep; for  *)
(* the stream ciphers, the bytes as they come.  The decoder is given the   *)
(* bytes in whatever parts the network delivers.                           *)
(*                                                                         *)
(* Cryptography is ideal: what was sealed opens with the same counter, or  *)
(* at the same position of the stream, and with no other.                  *)
(***************************************************************************)
EXTENDS Naturals, SequencesExt

CONSTANTS
  Ciphers,       \* a subset of {"aead", "stream", "stream_short_iv"}
  FrameSize,     \* SS_FRAME_SIZE
  ChunkSizeMask, \* CHUNK_SIZE_MASK: a length is stored modulo one more than this
  MaxRead,       \* bound: bytes of a buffer to encrypt (SOCKET_BUF_SIZE)
  MaxSent        \* bound: bytes sent in all

VARIABLE cs

key_len_ == 2
IVSize(cipher) == IF cipher = "stream_short_iv" THEN 1 ELSE 2
IsAead(cipher) == cipher = "aead"

\* The constructor: nothing is known of the peer's salt.
Cipher == [init_ |-> FALSE, counter_ |-> 0, position |-> 0, chunk_ |-> << >>]

Initial(cipher) ==
  [ cipher |-> cipher, enc |-> Cipher, dec |-> Cipher, wire |-> << >>,
    sent |-> 0, out |-> << >>, error |-> FALSE ]

Init == cs \in {Initial(cipher) : cipher \in Ciphers}

-----------------------------------------------------------------------------
(* The encoder. *)

Byte(nonce, value) == [nonce |-> nonce, value |-> value]
Tag(nonce, size) == Byte(nonce, <<"tag", size>>)
Salt(n) == [i \in 1 .. n |-> Byte(0, <<"salt", i>>)]

\* EncryptPacket of the AEAD ciphers: the bytes under the nonce, then the tag.
Seal(nonce, bytes) ==
  [i \in 1 .. Len(bytes) |-> Byte(nonce, bytes[i])] \o << Tag(nonce, Len(bytes)) >>

\* EncryptPacket of the stream ciphers: the context goes on where it was.
Encipher(position, bytes) == [i \in 1 .. Len(bytes) |-> Byte(position + i, bytes[i])]

encrypt_salt(e) ==
  IF e.init_ THEN << >> ELSE Salt(IF IsAead(cs.cipher) THEN key_len_ ELSE IVSize(cs.cipher))

chunk_encrypt_frame_aead(counter, bytes) ==
  Seal(counter, << <<"len", Len(bytes) % (ChunkSizeMask + 1)>> >>) \o Seal(counter + 1, bytes)

\* A buffer in pieces of at most FrameSize.
Pieces(buf) ==
  [ i \in 1 .. (Len(buf) + FrameSize - 1) \div FrameSize |->
      SubSeq(buf, (i - 1) * FrameSize + 1,
             IF i * FrameSize < Len(buf) THEN i * FrameSize ELSE Len(buf)) ]

\* EncryptData, and encrypt for each piece.
EncryptData ==
  /\ \E n \in 1 .. MaxRead :
       LET e == cs.enc
           pieces == Pieces([i \in 1 .. n |-> <<"data", cs.sent + i>>])
           frames == [ i \in DOMAIN pieces |->
                         IF IsAead(cs.cipher)
                           THEN chunk_encrypt_frame_aead(e.counter_ + 2 * (i - 1), pieces[i])
                           ELSE Encipher(e.position + (i - 1) * FrameSize, pieces[i]) ]
       IN /\ cs.sent + n <= MaxSent
          /\ cs' = [cs EXCEPT !.sent = @ + n,
                      !.wire = @ \o encrypt_salt(e) \o FlattenSeq(frames),
                      !.enc = [e EXCEPT !.init_ = TRUE, !.position = @ + n,
                                 !.counter_ = @ + (IF IsAead(cs.cipher) THEN 2 ELSE 1) * Len(pieces)]]

-----------------------------------------------------------------------------
(* The decoder. *)

Opens(bytes, nonce) ==
  /\ \A i \in DOMAIN bytes : bytes[i].nonce = nonce
  /\ bytes[Len(bytes)] = Tag(nonce, Len(bytes) - 1)

Again(d) == [ret |-> "EAGAIN", dec |-> d, plain |-> << >>]
BadMessage(d) == [ret |-> "EBADMSG", dec |-> d, plain |-> << >>]

\* Mutant: the counter counts the length although the payload is not there.
chunk_decrypt_frame_aead_counts(d) ==
  LET mlen == d.chunk_[1].value[2] % (ChunkSizeMask + 1)
      body == SubSeq(d.chunk_, 3, 3 + mlen)
  IN IF Len(d.chunk_) < 3 THEN Again(d)
     ELSE IF ~Opens(SubSeq(d.chunk_, 1, 2), d.counter_) \/ mlen = 0 THEN BadMessage(d)
     ELSE IF Len(d.chunk_) < 3 + mlen THEN Again([d EXCEPT !.counter_ = @ + 1])
     ELSE IF ~Opens(body, d.counter_ + 1) THEN BadMessage(d)
     ELSE [ ret |-> "OK", plain |-> [i \in 1 .. mlen |-> body[i].value],
            dec |-> [d EXCEPT !.counter_ = @ + 2, !.chunk_ = SubSeq(@, 4 + mlen, Len(@))] ]

\* The frame at the front of chunk_.  The length is opened before it is known
\* whether the payload is there; the counter counts only if both are.
chunk_decrypt_frame_aead(d) ==
  LET mlen == d.chunk_[1].value[2] % (ChunkSizeMask + 1)
      body == SubSeq(d.chunk_, 3, 3 + mlen)
  IN IF Len(d.chunk_) < 3 THEN Again(d)
     ELSE IF ~Opens(SubSeq(d.chunk_, 1, 2), d.counter_) \/ mlen = 0 THEN BadMessage(d)
     ELSE IF Len(d.chunk_) < 3 + mlen THEN Again(d)
     ELSE IF ~Opens(body, d.counter_ + 1) THEN BadMessage(d)
     ELSE [ ret |-> "OK", plain |-> [i \in 1 .. mlen |-> body[i].value],
            dec |-> [d EXCEPT !.counter_ = @ + 2, !.chunk_ = SubSeq(@, 4 + mlen, Len(@))] ]

\* Everything there is, at the position of the context.
chunk_decrypt_frame_stream(d) ==
  IF \E i \in DOMAIN d.chunk_ : d.chunk_[i].nonce # d.position + i THEN BadMessage(d)
  ELSE [ ret |-> "OK", plain |-> [i \in DOMAIN d.chunk_ |-> d.chunk_[i].value],
         dec |-> [d EXCEPT !.counter_ = @ + 1, !.position = @ + Len(d.chunk_), !.chunk_ = << >>] ]

chunk_decrypt_frame(d) ==
  IF IsAead(cs.cipher) THEN chunk_decrypt_frame_aead(d) ELSE chunk_decrypt_frame_stream(d)

decrypt_salt(d) ==
  LET n == IF IsAead(cs.cipher) THEN key_len_ ELSE IVSize(cs.cipher)
  IN [d EXCEPT !.init_ = TRUE, !.counter_ = 0, !.chunk_ = SubSeq(@, n + 1, Len(@))]

\* The loop of process_bytes over the frames of chunk_; a frame that does not
\* open is a protocol error, and ends the connection.
RECURSIVE Frames(_)
Frames(t) ==
  IF t.dec.chunk_ = << >> \/ t.error THEN t ELSE
  LET r == chunk_decrypt_frame(t.dec) IN
  CASE r.ret = "EAGAIN" -> [t EXCEPT !.dec = r.dec]
    [] r.ret = "EBADMSG" -> [t EXCEPT !.error = TRUE]
    [] r.ret = "OK" -> Frames([t EXCEPT !.dec = r.dec, !.out = @ \o r.plain])

\* A part of what is under way arrives.  Nothing is decrypted before as many
\* bytes as the key is long have come, also where the nonce is shorter.
process_bytes ==
  /\ ~cs.error
  /\ \E n \in 1 .. Len(cs.wire) :
       LET d == [cs.dec EXCEPT !.chunk_ = @ \o SubSeq(cs.wire, 1, n)]
           t == [cs EXCEPT !.wire = SubSeq(@, n + 1, Len(@)), !.dec = d]
       IN cs' = IF d.init_ THEN Frames(t)
                ELSE IF Len(d.chunk_) < key_len_ THEN t
                ELSE Frames([t EXCEPT !.dec = decrypt_salt(d)])

Next == EncryptData \/ process_bytes

-----------------------------------------------------------------------------
(* Properties. *)

\* Encoder and decoder stay in step wherever the network cuts the stream and
\* however large the buffers are: no frame fails to open, what comes out is
\* what went in, and once all has arrived all has come out (but for the first
\* byte or so of a cipher whose nonce is shorter than its key, which is held
\* back until more follows).
CipherInStep ==
  /\ ~cs.error
  /\ cs.out = [i \in 1 .. Len(cs.out) |-> <<"data", i>>]
  /\ cs.wire = << >> => \/ Len(cs.out) = cs.sent
                        \/ cs.cipher = "stream_short_iv" /\ ~cs.dec.init_
=============================================================================
