---------------------------- MODULE RelayLemmas ----------------------------
(***************************************************************************)
(* Facts about sequences of chunks that the proofs of both relays use: a   *)
(* read, a write or a pipe moves chunks from one queue to the next and     *)
(* leaves the concatenation of the queues as it is.                        *)
(***************************************************************************)
EXTENDS Relay, SequenceTheorems, TLAPS

\* A sequence is its first n elements and the rest.
LEMMA Split ==
  ASSUME NEW S, NEW s \in Seq(S), NEW n \in 0 .. Len(s)
  PROVE  /\ First(s, n) \in Seq(S) /\ Len(First(s, n)) = n
         /\ Rest(s, n) \in Seq(S) /\ Len(Rest(s, n)) = Len(s) - n
         /\ First(s, n) \o Rest(s, n) = s
  <1>0. Len(s) \in Nat BY LenProperties
  <1>1. First(s, n) \in Seq(S) /\ Len(First(s, n)) = n
    BY <1>0, SubSeqProperties DEF First
  <1>2. Rest(s, n) \in Seq(S) /\ Len(Rest(s, n)) = Len(s) - n
    BY <1>0, SubSeqProperties DEF Rest
  <1>4. SubSeq(s, 1, n) \o SubSeq(s, n + 1, Len(s)) = SubSeq(s, 1, Len(s))
    <2>1. 1 \in 1 .. Len(s) + 1 /\ n \in 1 - 1 .. Len(s) /\ Len(s) \in n .. Len(s) BY <1>0
    <2> QED BY ONLY <2>1, ConcatAdjacentSubSeq, s \in Seq(S)
  <1>5. SubSeq(s, 1, Len(s)) = s BY SubSeqFull
  <1> QED BY <1>1, <1>2, <1>4, <1>5 DEF First, Rest

\* Concatenation adds the lengths, and is empty if both parts are.
LEMMA Joined ==
  ASSUME NEW s \in Seq(Chunks), NEW t \in Seq(Chunks)
  PROVE  /\ s \o t \in Seq(Chunks) /\ Len(s \o t) = Len(s) + Len(t)
         /\ s \o t = << >> <=> s = << >> /\ t = << >>
  BY ConcatProperties, ConcatEqualIffEmpty

\* Concatenation is associative.
LEMMA Assoc ==
  ASSUME NEW s \in Seq(Chunks), NEW t \in Seq(Chunks), NEW u \in Seq(Chunks)
  PROVE  (s \o t) \o u = s \o (t \o u)
  BY ConcatAssociative

\* The empty sequence changes nothing, and is the one of length 0.
LEMMA Empty ==
  ASSUME NEW s \in Seq(Chunks)
  PROVE  /\ s \o << >> = s /\ << >> \o s = s /\ << >> \in Seq(Chunks)
         /\ Len(s) \in Nat /\ (s = << >> <=> Len(s) = 0)
  BY ConcatEmptySeq, EmptySeq, LenProperties

\* What is written moves from one sequence to the one before it: the order
\* of all chunks stays (Sent of both relays, GetNextDownstreamBuf).
LEMMA Moved ==
  ASSUME NEW o \in Seq(Chunks), NEW s \in Seq(Chunks), NEW n \in 0 .. Len(s)
  PROVE  /\ o \o First(s, n) \in Seq(Chunks) /\ Rest(s, n) \in Seq(Chunks)
         /\ (o \o First(s, n)) \o Rest(s, n) = o \o s
  <1>1. First(s, n) \in Seq(Chunks) /\ Rest(s, n) \in Seq(Chunks) /\ First(s, n) \o Rest(s, n) = s
    BY Split
  <1>2. (o \o First(s, n)) \o Rest(s, n) = o \o (First(s, n) \o Rest(s, n)) BY <1>1, Assoc
  <1> QED BY <1>1, <1>2, Joined

TakeKeeps(o, p, s, n) ==
  /\ p \o First(s, n) \in Seq(Chunks) /\ Rest(s, n) \in Seq(Chunks)
  /\ (o \o (p \o First(s, n))) \o Rest(s, n) = (o \o p) \o s

\* The same, with something in between (a read into pending_data_).
LEMMA Taken ==
  ASSUME NEW o \in Seq(Chunks), NEW p \in Seq(Chunks), NEW s \in Seq(Chunks), NEW n \in 0 .. Len(s)
  PROVE  TakeKeeps(o, p, s, n)
  <1>1. First(s, n) \in Seq(Chunks) /\ Rest(s, n) \in Seq(Chunks) BY Split
  <1>2. o \o (p \o First(s, n)) = (o \o p) \o First(s, n) BY <1>1, Assoc
  <1>3. o \o p \in Seq(Chunks) /\ p \o First(s, n) \in Seq(Chunks) BY <1>1, Joined
  <1>4. ((o \o p) \o First(s, n)) \o Rest(s, n) = (o \o p) \o s BY <1>3, Moved
  <1> QED BY <1>1, <1>2, <1>3, <1>4 DEF TakeKeeps

PipeKeeps(o, u, s, n, k) ==
  LET all == u \o First(s, n) IN
  /\ all \in Seq(Chunks) /\ Len(all) = Len(u) + n
  /\ o \o First(all, k) \in Seq(Chunks) /\ Rest(all, k) \in Seq(Chunks) /\ Rest(s, n) \in Seq(Chunks)
  /\ Len(Rest(all, k)) = Len(u) + n - k
  /\ ((o \o First(all, k)) \o Rest(all, k)) \o Rest(s, n) = (o \o u) \o s
  /\ o \o u # << >> => (o \o First(all, k)) \o Rest(all, k) # << >>

\* n chunks are read, and the first k of what is then there are written: the
\* pipes of both relays keep all chunks in order.
LEMMA PipedMoved ==
  ASSUME NEW o \in Seq(Chunks), NEW u \in Seq(Chunks), NEW s \in Seq(Chunks), NEW n \in 0 .. Len(s),
         NEW k \in 0 .. Len(u) + n
  PROVE  PipeKeeps(o, u, s, n, k)
  <1> DEFINE all == u \o First(s, n)
  <1>1. First(s, n) \in Seq(Chunks) /\ Rest(s, n) \in Seq(Chunks) /\ Len(First(s, n)) = n BY Split
  <1>2. all \in Seq(Chunks) /\ Len(all) = Len(u) + Len(First(s, n)) BY <1>1, Joined
  <1>3. k \in 0 .. Len(all) BY <1>1, <1>2
  <1>4. (o \o First(all, k)) \o Rest(all, k) = o \o all /\ o \o First(all, k) \in Seq(Chunks)
    BY <1>2, <1>3, Moved
  <1>5. Rest(all, k) \in Seq(Chunks) /\ Len(Rest(all, k)) = Len(all) - k
    BY <1>2, <1>3, Split
  <1>6. (o \o all) \o Rest(s, n) = (o \o u) \o s
    <2>1. o \o all = (o \o u) \o First(s, n) BY <1>1, Assoc
    <2>2. o \o u \in Seq(Chunks) BY Joined
    <2>3. ((o \o u) \o First(s, n)) \o Rest(s, n) = (o \o u) \o s BY <2>2, Moved
    <2> QED BY <2>1, <2>3
  <1>7. ASSUME o \o u # << >> PROVE o \o all # << >>
    BY <1>1, <1>2, <1>7, Joined
  <1> QED BY <1>1, <1>2, <1>4, <1>5, <1>6, <1>7 DEF PipeKeeps

\* What a peer has sent is a sequence of chunks.
LEMMA RunType ==
  ASSUME NEW n \in Nat, 1 .. n \subseteq Chunks
  PROVE  Run(n) \in Seq(Chunks) /\ Len(Run(n)) = n
  BY IsASeq DEF Run

\* A peer sends its next chunk: it goes behind all the others.
LEMMA SendMoved ==
  ASSUME NEW n \in Nat, 1 .. n + 1 \subseteq Chunks,
         NEW x \in Seq(Chunks), NEW i \in Seq(Chunks), NEW f \in Seq(Chunks),
         x \o i = f \o Run(n)
  PROVE  x \o Append(i, n + 1) = f \o Run(n + 1) /\ Append(i, n + 1) \in Seq(Chunks)
  <1>1. Run(n) \in Seq(Chunks) /\ Len(Run(n)) = n /\ n + 1 \in Chunks
    <2>1. 1 .. n \subseteq Chunks /\ n + 1 \in Chunks OBVIOUS
    <2> QED BY <2>1, RunType
  <1>2. Run(n + 1) = Append(Run(n), n + 1)
    <2>1. Run(n + 1) \in Seq(Chunks) /\ Len(Run(n + 1)) = n + 1 BY RunType
    <2>2. Append(Run(n), n + 1) \in Seq(Chunks) /\ Len(Append(Run(n), n + 1)) = n + 1
      BY <1>1, AppendProperties
    <2>3. ASSUME NEW j \in 1 .. n + 1 PROVE Run(n + 1)[j] = Append(Run(n), n + 1)[j]
      BY <1>1, AppendProperties DEF Run
    <2> QED BY <2>1, <2>2, <2>3, SeqEqual
  <1>3. <<n + 1>> \in Seq(Chunks) BY <1>1
  <1>4. Append(i, n + 1) = i \o <<n + 1>> /\ Append(Run(n), n + 1) = Run(n) \o <<n + 1>>
    BY <1>1, AppendIsConcat
  <1>5. x \o (i \o <<n + 1>>) = (x \o i) \o <<n + 1>> BY <1>3, Assoc
  <1>6. f \o (Run(n) \o <<n + 1>>) = (f \o Run(n)) \o <<n + 1>> BY <1>1, <1>3, Assoc
  <1>7. Append(i, n + 1) \in Seq(Chunks) BY <1>1, AppendProperties
  <1> QED BY <1>2, <1>4, <1>5, <1>6, <1>7

\* What the proxy puts in front is a chunk.
LEMMA ZeroChunk == <<0>> \in Seq(Chunks) /\ << >> \in Seq(Chunks)
  <1>1. 0 \in Chunks BY MaxClientAssumption, MaxRemoteAssumption DEF Chunks
  <1> QED BY <1>1

\* The chunks a peer may still send are chunks.
LEMMA RunBound ==
  ASSUME NEW n \in Nat, n < MaxClient \/ n < MaxRemote
  PROVE  1 .. n \subseteq Chunks /\ 1 .. n + 1 \subseteq Chunks /\ n + 1 \in Chunks
  BY MaxClientAssumption, MaxRemoteAssumption DEF Chunks
=============================================================================
