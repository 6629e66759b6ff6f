--------------------------- MODULE HandshakeProofs ---------------------------
(***************************************************************************)
(* Proofs about the handshakes: that a server goes where the application   *)
(* meant it to go and lets in whom it may (Agreement), that a connection   *)
(* ends early for a reason only (EndedForAReason), and that the payload    *)
(* arrives whole (PayloadIntact).  All three follow from one inductive     *)
(* invariant, HandshakeInv.  The last part is about the requests of a      *)
(* connection that is kept alive (RequestsKept), with an invariant of its  *)
(* own, KaInv.                                                             *)
(*                                                                         *)
(* HandshakeInv describes every state of the three parties by a few        *)
(* numbers.  The payload of the application is one stream, Payload, and    *)
(* what is in a buffer or on a wire is a piece of it, Seg(Payload, a, b),  *)
(* perhaps behind a message, Front, or behind half of one, HalfFront: the  *)
(* pieces join end to end, from what the destination got to what is still  *)
(* to be read of the application.  Before the client's channel is there    *)
(* (Early) the server is untouched; after that (Late) client and server    *)
(* are at corresponding places of the message that is being exchanged.     *)
(***************************************************************************)
EXTENDS ProxyHandshake, KeepAlive, SequenceTheorems, WellFoundedInduction, TLAPS

-----------------------------------------------------------------------------
(* Pieces of a stream of tokens. *)

\* The tokens of the stream e behind the first a, up to the b-th.
Seg(e, a, b) == [i \in 1 .. b - a |-> e[a + i]]

Elements(e) == {e[i] : i \in Nat}

\* What a piece consists of.
IsPiece(x, e, a, b) ==
  /\ x \in Seq(Elements(e)) /\ Len(x) = b - a
  /\ \A i \in 1 .. b - a : x[i] = e[a + i]

LEMMA SegType ==
  ASSUME NEW e, NEW a, NEW b, a \in Nat, b \in Nat, a <= b
  PROVE  IsPiece(Seg(e, a, b), e, a, b)
<1>1. b - a \in Nat OBVIOUS
<1>2. \A i \in 1 .. b - a : e[a + i] \in Elements(e) BY DEF Elements
<1>3. Seg(e, a, b) \in Seq(Elements(e)) BY <1>1, <1>2, IsASeq DEF Seg
<1>4. Len(Seg(e, a, b)) = b - a BY <1>1 DEF Seg
<1> QED BY <1>3, <1>4 DEF Seg, IsPiece

\* There is one piece only from here to there.
LEMMA SegIs ==
  ASSUME NEW e, NEW a, NEW b, a \in Nat, b \in Nat, a <= b, NEW x, IsPiece(x, e, a, b)
  PROVE  x = Seg(e, a, b)
<1> DEFINE y == Seg(e, a, b)  S == Elements(e)
<1>1. IsPiece(y, e, a, b) BY SegType
<1> HIDE DEF y, S
<1>2. x \in Seq(S) /\ y \in Seq(S) /\ Len(x) = Len(y) /\ \A i \in 1 .. Len(x) : x[i] = y[i]
  BY <1>1 DEF IsPiece, S
<1>3. x = y BY <1>2, SeqEqual
<1> QED BY <1>3 DEF y

LEMMA SegEmpty ==
  ASSUME NEW e, NEW a, NEW b, a \in Nat, b \in Nat, a <= b
  PROVE  Seg(e, a, b) = << >> <=> a = b
<1> DEFINE x == Seg(e, a, b)  S == Elements(e)
<1>1. IsPiece(x, e, a, b) BY SegType
<1> HIDE DEF x, S
<1>2. x \in Seq(S) /\ Len(x) = b - a BY <1>1 DEF IsPiece, S
<1>3. x = << >> <=> Len(x) = 0 BY <1>2, EmptySeq
<1> QED BY <1>2, <1>3 DEF x

\* Two pieces make a longer one.
LEMMA SegCat ==
  ASSUME NEW e, NEW a, NEW b, NEW d, a \in Nat, b \in Nat, d \in Nat, a <= b, b <= d
  PROVE  Seg(e, a, b) \o Seg(e, b, d) = Seg(e, a, d)
<1> DEFINE x == Seg(e, a, b)  y == Seg(e, b, d)  S == Elements(e)
<1>1. IsPiece(x, e, a, b) BY SegType
<1>2. IsPiece(y, e, b, d) BY SegType
<1> HIDE DEF x, y, S
<1>3. x \in Seq(S) /\ Len(x) = b - a /\ \A i \in 1 .. b - a : x[i] = e[a + i]
  BY <1>1 DEF IsPiece, S
<1>4. y \in Seq(S) /\ Len(y) = d - b /\ \A i \in 1 .. d - b : y[i] = e[b + i]
  BY <1>2 DEF IsPiece, S
<1>5. /\ x \o y \in Seq(S) /\ Len(x \o y) = Len(x) + Len(y)
      /\ \A i \in 1 .. Len(x) + Len(y) : (x \o y)[i] = IF i <= Len(x) THEN x[i] ELSE y[i - Len(x)]
  BY <1>3, <1>4, ConcatProperties
<1>6. ASSUME NEW i \in 1 .. d - a PROVE (x \o y)[i] = e[a + i]
  <2>0. i \in 1 .. Len(x) + Len(y) BY <1>3, <1>4
  <2>1. (x \o y)[i] = IF i <= b - a THEN x[i] ELSE y[i - (b - a)] BY <2>0, <1>3, <1>5
  <2>2. CASE i <= b - a BY <2>1, <2>2, <1>3
  <2>3. CASE ~(i <= b - a)
    <3>1. i - (b - a) \in 1 .. d - b /\ b + (i - (b - a)) = a + i BY <2>3
    <3> QED BY <2>1, <2>3, <3>1, <1>4
  <2> QED BY <2>2, <2>3
<1>7. Len(x \o y) = d - a BY <1>3, <1>4, <1>5
<1>8. IsPiece(x \o y, e, a, d) BY <1>5, <1>6, <1>7 DEF IsPiece, S
<1>9. a <= d OBVIOUS
<1>10. x \o y = Seg(e, a, d) BY <1>8, <1>9, SegIs
<1> QED BY <1>10 DEF x, y

\* What a read takes of a piece, and what it leaves.
Cuts(e, a, b, n) ==
  First(Seg(e, a, b), n) = Seg(e, a, a + n) /\ Rest(Seg(e, a, b), n) = Seg(e, a + n, b)

LEMMA SegRead ==
  ASSUME NEW e, NEW a, NEW b, a \in Nat, b \in Nat, a <= b, NEW n, n \in 0 .. b - a
  PROVE  Cuts(e, a, b, n)
<1> DEFINE x == Seg(e, a, b)  S == Elements(e)
<1>0. n \in Nat /\ a + n \in Nat /\ a + n <= b /\ a <= a + n /\ (a + n) - a = n OBVIOUS
<1>1. IsPiece(x, e, a, b) BY SegType
<1> HIDE DEF x, S
<1>2. x \in Seq(S) /\ Len(x) = b - a /\ \A i \in 1 .. b - a : x[i] = e[a + i]
  BY <1>1 DEF IsPiece, S
<1>4. /\ First(x, n) \in Seq(S) /\ Len(First(x, n)) = n
      /\ \A i \in 1 .. n : First(x, n)[i] = x[i]
  <2>1. 1 \in 1 .. Len(x) + 1 /\ n \in 1 - 1 .. Len(x) BY <1>0, <1>2
  <2>2. /\ SubSeq(x, 1, n) \in Seq(S)
        /\ Len(SubSeq(x, 1, n)) = IF 1 <= n THEN n - 1 + 1 ELSE 0
        /\ \A i \in 1 .. n - 1 + 1 : SubSeq(x, 1, n)[i] = x[1 + i - 1]
    BY <1>2, <2>1, SubSeqProperties
  <2> QED BY <1>0, <2>2 DEF First
<1>5. /\ Rest(x, n) \in Seq(S) /\ Len(Rest(x, n)) = b - (a + n)
      /\ \A i \in 1 .. b - (a + n) : Rest(x, n)[i] = x[n + i]
  <2>1. n + 1 \in 1 .. Len(x) + 1 /\ Len(x) \in (n + 1) - 1 .. Len(x) BY <1>0, <1>2
  <2> DEFINE m == Len(x)  k == n + 1
  <2>2. /\ SubSeq(x, k, m) \in Seq(S)
        /\ Len(SubSeq(x, k, m)) = IF k <= m THEN m - k + 1 ELSE 0
        /\ \A i \in 1 .. m - k + 1 : SubSeq(x, k, m)[i] = x[k + i - 1]
    <3> HIDE DEF k, m
    <3>1. k \in 1 .. Len(x) + 1 /\ m \in k - 1 .. Len(x) BY <2>1 DEF k, m
    <3> QED BY <1>2, <3>1, SubSeqProperties
  <2>3. m = b - a BY <1>2
  <2> DEFINE w == SubSeq(x, k, m)
  <2>4. Rest(x, n) = w BY DEF Rest
  <2> HIDE DEF m, w
  <2>5. /\ m - k + 1 = b - (a + n) /\ (IF k <= m THEN m - k + 1 ELSE 0) = b - (a + n)
        /\ \A i \in 1 .. b - (a + n) : k + i - 1 = n + i
    BY <1>0, <2>3
  <2>6. w \in Seq(S) /\ Len(w) = b - (a + n) /\ \A i \in 1 .. b - (a + n) : w[i] = x[k + i - 1]
    BY <2>2, <2>5 DEF w
  <2> QED BY <2>4, <2>5, <2>6
<1>6. IsPiece(First(x, n), e, a, a + n)
  <2>1. \A i \in 1 .. n : First(x, n)[i] = e[a + i] BY <1>0, <1>2, <1>4
  <2>2. \A i \in 1 .. (a + n) - a : First(x, n)[i] = e[a + i] BY <1>0, <2>1
  <2> QED BY <1>0, <1>4, <2>2 DEF IsPiece, S
<1>7. IsPiece(Rest(x, n), e, a + n, b)
  <2>1. ASSUME NEW i \in 1 .. b - (a + n) PROVE Rest(x, n)[i] = e[(a + n) + i]
    <3>1. n + i \in 1 .. b - a /\ a + (n + i) = (a + n) + i BY <1>0
    <3> QED BY <3>1, <1>2, <1>5
  <2> QED BY <2>1, <1>5 DEF IsPiece, S
<1>8. First(x, n) = Seg(e, a, a + n) BY <1>0, <1>6, SegIs
<1>9. Rest(x, n) = Seg(e, a + n, b) BY <1>0, <1>7, SegIs
<1> QED BY <1>8, <1>9 DEF x, Cuts

\* A piece of one token.
LEMMA SegOne ==
  ASSUME NEW e, NEW a \in Nat
  PROVE  Seg(e, a, a + 1) = << e[a + 1] >>
BY DEF Seg

-----------------------------------------------------------------------------
(* A message in front of a piece. *)

Front(k, w, e, a, b) == Msg(k, w) \o Seg(e, a, b)

\* The stream that begins with the message, and goes on behind the first a of e.
Led(k, w, e, a) ==
  [i \in Nat |-> IF i <= 1 THEN <<k, w, 1>> ELSE IF i = 2 THEN <<k, w, 2>> ELSE e[a + (i - 2)]]

Begins(k, w, e, a, b) ==
  /\ Front(k, w, e, a, b) = Seg(Led(k, w, e, a), 0, 2 + (b - a))
  /\ Seg(Led(k, w, e, a), 2, 2 + (b - a)) = Seg(e, a, b)
  /\ Seg(Led(k, w, e, a), 1, 2 + (b - a)) = << <<k, w, 2>> >> \o Seg(e, a, b)

LEMMA FrontIs ==
  ASSUME NEW k, NEW w, NEW e, NEW a, NEW b, a \in Nat, b \in Nat, a <= b
  PROVE  Begins(k, w, e, a, b)
<1> DEFINE l == Led(k, w, e, a)  m == b - a
<1>0. m \in Nat /\ 2 + m \in Nat /\ 0 <= 2 /\ 2 <= 2 + m /\ 0 <= 1 /\ 1 <= 2 /\ 1 \in Nat /\ 2 \in Nat /\ 0 \in Nat
  OBVIOUS
<1>1. l[1] = <<k, w, 1>> /\ l[2] = <<k, w, 2>> /\ \A i \in 1 .. m : l[2 + i] = e[a + i]
  <2>1. \A i \in 1 .. m : 2 + i \in Nat /\ ~(2 + i <= 1) /\ 2 + i # 2 /\ (2 + i) - 2 = i BY <1>0
  <2> QED BY <2>1 DEF Led
<1>2. Seg(l, 2, 2 + m) = Seg(e, a, b)
  <2>1. (2 + m) - 2 = b - a BY <1>0
  <2>2. \A i \in 1 .. b - a : l[2 + i] = e[a + i] BY <1>1
  <2> HIDE DEF l
  <2> QED BY <2>1, <2>2 DEF Seg
<1> HIDE DEF l
<1>3. Seg(l, 1, 2) = << <<k, w, 2>> >> /\ Seg(l, 0, 2) = Msg(k, w)
  <2>1. Seg(l, 1, 2) = << l[2] >> /\ Seg(l, 0, 2) = << l[1], l[2] >> BY DEF Seg
  <2> QED BY <2>1, <1>1 DEF Msg
<1> HIDE DEF m
<1>4. Seg(l, 0, 2) \o Seg(l, 2, 2 + m) = Seg(l, 0, 2 + m) BY <1>0, SegCat
<1>5. Seg(l, 1, 2) \o Seg(l, 2, 2 + m) = Seg(l, 1, 2 + m) BY <1>0, SegCat
<1> QED BY <1>2, <1>3, <1>4, <1>5 DEF Front, l, m, Begins

\* A message that is there, whole, is recognised.
Parsed(x, k, w, rest) ==
  /\ x # << >> /\ Len(x) >= 2
  /\ \A kind : Starts(x, kind) <=> kind = k
  /\ What(x) = w /\ Behind(x) = rest

LEMMA ParseFront ==
  ASSUME NEW k, NEW w, NEW e, NEW a, NEW b, a \in Nat, b \in Nat, a <= b
  PROVE  Parsed(Front(k, w, e, a, b), k, w, Seg(e, a, b))
<1> DEFINE l == Led(k, w, e, a)  m == b - a  x == Seg(l, 0, 2 + m)
<1>0. m \in Nat /\ 2 + m \in Nat /\ 0 <= 2 + m /\ 0 \in Nat /\ 2 \in 0 .. (2 + m) - 0 /\ 0 + 2 = 2
  OBVIOUS
<1>b. Begins(k, w, e, a, b) BY FrontIs
<1>1. Front(k, w, e, a, b) = x /\ Seg(l, 2, 2 + m) = Seg(e, a, b) BY <1>b DEF Begins
<1>2. l[1] = <<k, w, 1>> /\ l[2] = <<k, w, 2>> BY DEF Led
<1> HIDE DEF l, m
<1>3. First(x, 2) = Seg(l, 0, 2) /\ Rest(x, 2) = Seg(l, 2, 2 + m) BY <1>0, SegRead DEF Cuts
<1>4. IsPiece(x, l, 0, 2 + m) BY <1>0, SegType
<1> HIDE DEF x
<1>5. Len(x) = 2 + m /\ x[1] = l[1] BY <1>0, <1>4 DEF IsPiece
<1>6. Seg(l, 0, 2) = << l[1], l[2] >> BY DEF Seg
<1>7. x[1][1] = k /\ x[1][2] = w /\ First(x, 2) = Msg(k, w) BY <1>2, <1>3, <1>5, <1>6 DEF Msg
<1>8. \A kind : Starts(x, kind) <=> kind = k BY <1>0, <1>5, <1>7 DEF Starts
<1>9. x # << >> BY <1>0, <1>5
<1> QED BY <1>0, <1>1, <1>3, <1>5, <1>7, <1>8, <1>9 DEF Parsed, What, Behind

\* A read that returns its first half alone finds nothing.
LEMMA ParseHalf ==
  ASSUME NEW k, NEW w
  PROVE  LET x == << <<k, w, 1>> >> IN
         x # << >> /\ Cause(x) = "split" /\ \A kind : ~Starts(x, kind)
BY DEF Cause, Starts

\* What a read of n tokens takes of a message and a piece, and what it leaves.
Reads(x, n, k, w, e, a, b) ==
  \/ n = 1 /\ First(x, n) = << <<k, w, 1>> >> /\ Rest(x, n) = << <<k, w, 2>> >> \o Seg(e, a, b)
  \/ /\ n # 1 /\ n - 2 \in Nat /\ a + (n - 2) \in Nat /\ a <= a + (n - 2) /\ a + (n - 2) <= b
     /\ First(x, n) = Front(k, w, e, a, a + (n - 2)) /\ Rest(x, n) = Seg(e, a + (n - 2), b)

LEMMA ReadFront ==
  ASSUME NEW k, NEW w, NEW e, NEW a, NEW b, a \in Nat, b \in Nat, a <= b,
         NEW n, n \in 1 .. Len(Front(k, w, e, a, b))
  PROVE  Reads(Front(k, w, e, a, b), n, k, w, e, a, b)
<1> DEFINE l == Led(k, w, e, a)  m == b - a  x == Seg(l, 0, 2 + m)
<1>0. m \in Nat /\ 2 + m \in Nat /\ 0 <= 2 + m /\ 0 \in Nat
  OBVIOUS
<1>b. Begins(k, w, e, a, b) BY FrontIs
<1>1. /\ Front(k, w, e, a, b) = x /\ Seg(l, 1, 2 + m) = << <<k, w, 2>> >> \o Seg(e, a, b)
      /\ l[1] = <<k, w, 1>>
  <2>1. l[1] = <<k, w, 1>> BY DEF Led
  <2> QED BY <1>b, <2>1 DEF Begins
<1>2. IsPiece(x, l, 0, 2 + m)
  <2> HIDE DEF l, m
  <2> QED BY <1>0, SegType
<1>3. Len(x) = 2 + m
  <2> HIDE DEF x
  <2> QED BY <1>0, <1>2 DEF IsPiece
<1>4. n \in 1 .. 2 + m /\ n \in 0 .. (2 + m) - 0 /\ 0 + n = n BY <1>0, <1>1, <1>3
<1>5. First(x, n) = Seg(l, 0, n) /\ Rest(x, n) = Seg(l, n, 2 + m)
  <2> HIDE DEF l, m
  <2> QED BY <1>0, <1>4, SegRead DEF Cuts
<1>6. CASE n = 1
  <2>1. Seg(l, 0, 1) = << l[1] >>
    <3> HIDE DEF l
    <3> QED BY DEF Seg
  <2> HIDE DEF l, x, m
  <2> QED BY <1>1, <1>5, <1>6, <2>1 DEF Reads
<1>7. CASE n # 1
  <2> DEFINE j == n - 2
  <2>1. j \in Nat /\ a + j \in Nat /\ a <= a + j /\ a + j <= b /\ (a + j) - a = j /\ 2 + j = n
    BY <1>4, <1>7, <1>0
  <2>2. Front(k, w, e, a, a + j) = Seg(l, 0, 2 + ((a + j) - a))
    <3> HIDE DEF j
    <3>1. Begins(k, w, e, a, a + j) BY <2>1, FrontIs
    <3> QED BY <3>1 DEF Begins
  <2>3. Seg(l, n, 2 + m) = Seg(e, a + j, b)
    <3>0. 2 \in Nat /\ 2 <= 2 + m /\ j \in 0 .. (2 + m) - 2 /\ j \in 0 .. b - a BY <1>0, <2>1
    <3>1. Rest(Seg(l, 2, 2 + m), j) = Seg(l, 2 + j, 2 + m)
      <4> HIDE DEF l, m, j
      <4> QED BY <3>0, <1>0, SegRead DEF Cuts
    <3>2. Rest(Seg(e, a, b), j) = Seg(e, a + j, b)
      <4> HIDE DEF j
      <4>1. Cuts(e, a, b, j) BY <3>0, SegRead
      <4> QED BY <4>1 DEF Cuts
    <3>3. Seg(l, 2, 2 + m) = Seg(e, a, b) BY <1>b DEF Begins
    <3> HIDE DEF l, m, j
    <3> QED BY <3>1, <3>2, <3>3, <2>1
  <2>4. First(x, n) = Front(k, w, e, a, a + j) BY <1>5, <2>1, <2>2
  <2> HIDE DEF l, x, m
  <2> QED BY <1>1, <1>5, <1>7, <2>1, <2>3, <2>4 DEF Reads, j
<1> QED BY <1>6, <1>7

\* Two messages or pieces one behind the other.
LEMMA FrontCat ==
  ASSUME NEW k, NEW w, NEW e, NEW a, NEW b, NEW d, a \in Nat, b \in Nat, d \in Nat, a <= b, b <= d
  PROVE  Front(k, w, e, a, b) \o Seg(e, b, d) = Front(k, w, e, a, d)
<1> DEFINE l == Led(k, w, e, a)
<1>b. Begins(k, w, e, a, b) BY FrontIs
<1>d. a <= d OBVIOUS
<1>e. Begins(k, w, e, a, d) BY <1>d, FrontIs
<1>1. Front(k, w, e, a, b) = Seg(l, 0, 2 + (b - a)) BY <1>b DEF Begins
<1>2. Front(k, w, e, a, d) = Seg(l, 0, 2 + (d - a)) /\ a <= d BY <1>e DEF Begins
<1>3. Seg(e, b, d) = Seg(l, 2 + (b - a), 2 + (d - a))
  <2> DEFINE x == 2 + (b - a)  y == 2 + (d - a)
  <2>1. x \in Nat /\ y \in Nat /\ y - x = d - b /\ \A i \in 1 .. d - b : x + i \in Nat /\ ~(x + i <= 2) /\ a + ((x + i) - 2) = b + i
    OBVIOUS
  <2>2. \A i \in 1 .. d - b : l[x + i] = e[b + i]
    <3> HIDE DEF x, y
    <3> QED BY <2>1 DEF Led
  <2> HIDE DEF x, y, l
  <2>3. Seg(l, x, y) = Seg(e, b, d) BY <2>1, <2>2 DEF Seg
  <2> QED BY <2>3 DEF x, y
<1>4. /\ 0 \in Nat /\ 2 + (b - a) \in Nat /\ 2 + (d - a) \in Nat /\ 0 <= 2 + (b - a)
      /\ 2 + (b - a) <= 2 + (d - a)
  OBVIOUS
<1>5. Seg(l, 0, 2 + (b - a)) \o Seg(l, 2 + (b - a), 2 + (d - a)) = Seg(l, 0, 2 + (d - a))
  <2> HIDE DEF l
  <2> QED BY <1>4, SegCat
<1> HIDE DEF l
<1> QED BY <1>1, <1>2, <1>3, <1>5

\* Nothing behind a message, and a message behind nothing.
LEMMA FrontAlone ==
  ASSUME NEW k, NEW w, NEW e, NEW a \in Nat
  PROVE  Front(k, w, e, a, a) = Msg(k, w) /\ << >> \o Msg(k, w) = Msg(k, w)
<1>1. Seg(e, a, a) = << >> BY SegEmpty
<1> QED BY <1>1 DEF Front, Msg

-----------------------------------------------------------------------------
(* The invariant. *)

\* The payload of the application, as the server is to get it, and that of the
\* destination.  Ahead of the first comes a request that is forwarded, or what
\* the first read of a redirected connection returned, which goes twice with ss.
Base ==
  IF cfg.front = "plain" THEN 1
  ELSE IF cfg.front = "redir" /\ cfg.method = "ss" THEN cfg.first ELSE 0
Payload ==
  [i \in Nat |-> IF i > Base THEN <<"data", i - Base, 0>>
                 ELSE IF cfg.front = "plain" THEN <<"forward", cfg.dest, 0>> ELSE <<"data", i, 0>>]
Data == [i \in Nat |-> <<"data", i, 0>>]
All == app.sent + Base

ConfigOK ==
  /\ cfg.method \in AllMethods /\ cfg.front \in AllFronts /\ cfg.dest \in AllDestinations
  /\ cfg.eager \in BOOLEAN /\ cfg.auth_required \in BOOLEAN
  /\ cfg.credentials \in {"none", "right", "wrong"}
  /\ IF cfg.front = "redir" THEN cfg.dest # "domain" ELSE cfg.dest # "self"
  /\ cfg.first \in Nat

\* The application waits for the reply to its request, or goes on behind it.
Asked == app.next \in {"wait", "data"} /\ (app.next = "wait" => app.sent = 0)

\* Nothing of the application has been read.
Unread ==
  /\ c = InitialClient
  /\ wire.c2a = << >>
  /\ \/ cfg.front = "redir" /\ app.next = "data" /\ wire.a2c = Seg(Data, 0, app.sent)
     \/ cfg.front = "socks5" /\ app.next = "greet" /\ app.sent = 0 /\ wire.a2c = << >>
     \/ /\ cfg.front = "socks5" /\ app.next = "wait" /\ app.sent = 0
        /\ wire.a2c = Msg("greet", "noauth")
     \/ /\ cfg.front \notin {"redir", "socks5"} /\ app.next = "request" /\ app.sent = 0
        /\ wire.a2c = << >>
     \/ /\ cfg.front \notin {"redir", "socks5"} /\ Asked
        /\ wire.a2c = Front(RequestKind, cfg.dest, Payload, Base, All)

\* The greeting of the application has been read.
Greeted ==
  /\ c = [InitialClient EXCEPT !.reads = "socks5"]
  /\ cfg.front = "socks5"
  /\ \/ app.next = "wait" /\ app.sent = 0 /\ wire.a2c = << >> /\ wire.c2a = Msg("method", "noauth")
     \/ app.next = "request" /\ app.sent = 0 /\ wire.a2c = << >> /\ wire.c2a = << >>
     \/ /\ Asked /\ wire.c2a = << >>
        /\ wire.a2c = Front("req5", cfg.dest, Payload, Base, All)

\* The request of the application has been read: what it sends is payload.
Reading6(k5, k6) ==
  /\ k5 \in Nat /\ k6 \in Nat /\ k5 <= k6 /\ k6 <= All
  /\ app.next \in {"wait", "data"}
  /\ c.pending_data_ = Seg(Payload, k5, k6)
  /\ wire.a2c = Seg(Payload, k6, All)

\* What the application gets: replies, then the payload of the destination.
Downwards(g, y) ==
  /\ g \in Nat /\ y \in Nat /\ g <= y
  /\ app.got = Seg(Data, 0, g)
  /\ \/ wire.c2a = Seg(Data, g, y)
     \/ wire.c2a = Front("method", "noauth", Data, g, y) /\ (c.closed \/ c.reads = "socks5")
     \/ wire.c2a = Front("granted", "none", Data, g, y)

\* Nothing has come to the server or from it.
Untouched ==
  /\ c.upstream_ = << >> /\ c.awaits = {}
  /\ s = InitialServer
  /\ wire.c2s = << >> /\ wire.s2c = << >> /\ wire.s2r = << >> /\ wire.r2s = << >>
  /\ app.back = 0

\* A destination of the client's own request.
Wanted(dest) == dest \in Meant /\ dest \in {"domain", "ipv4", "ipv6"}

Requesting ==
  /\ c.channel \in {"resolving", "connecting"}
  /\ c.channel = "resolving" => \A dest \in {"ipv4", "ipv6"} : Wanted(dest)
  /\ c.channel = "connecting" => Wanted(c.request_)
  /\ c.reads \in {"no", "stream"}

\* Before the channel is there.
Early(y) ==
  /\ c.channel # "connected"
  /\ Untouched
  /\ ~c.closed =>
       /\ y = 0
       /\ \/ Unread \/ Greeted
          \/ Requesting /\ \E k6 \in Nat : Reading6(0, k6)

-----------------------------------------------------------------------------
(* Client and server, message by message. *)

UsedKinds ==
  CASE cfg.method = "ss" -> {"ss"}
    [] cfg.method = "https" -> {"connect"}
    [] cfg.method \in {"socks4", "socks4a"} -> {"req4"}
    [] OTHER -> {"greet", "req5"} \union (IF AuthRequired THEN {"auth"} ELSE {})

LastKinds == {"ss", "connect", "req4", "req5"}

Awaited(k) ==
  CASE k = "ss" -> {}
    [] k = "connect" -> {"https"}
    [] k = "greet" -> {"method"} \union (IF AuthRequired THEN {"auth"} ELSE {})
    [] k = "auth" -> {"auth"}
    [] OTHER -> {"socks"}

Carried(k) ==
  CASE k = "greet" -> (IF AuthRequired THEN "auth" ELSE "noauth")
    [] k = "auth" -> cfg.credentials
    [] OTHER -> c.request_

Reply(k) ==
  CASE k = "ss" -> << >>
    [] k = "connect" -> Msg("ok", "none")
    [] k = "greet" -> Msg("method", Carried("greet"))
    [] k = "auth" -> Msg("authok", "none")
    [] OTHER -> Msg("granted", "none")

NextKind(k) == IF k = "greet" /\ AuthRequired THEN "auth" ELSE "req5"

\* The places of the messages that are still to come, and the payload behind.
Holes(k, tail) ==
  CASE k = "greet" -> (IF AuthRequired THEN << << >> >> \o (<< << >> >> \o tail) ELSE << << >> >> \o tail)
    [] k = "auth" -> << << >> >> \o tail
    [] OTHER -> tail

Queue(k, place, tail) ==
  IF place = "unsent" THEN << Msg(k, Carried(k)) >> \o Holes(k, tail)
  ELSE IF place = "sent" THEN Holes(k, tail) ELSE tail

Chunks(k4, k5) == IF k4 = k5 THEN << >> ELSE << Seg(Payload, k4, k5) >>
PayloadTail(k4, k5) == Chunks(k4, k5) \o Leftover

Reader(k) ==
  CASE k = "ss" -> "ss" [] k = "connect" -> "https" [] k = "auth" -> "auth"
    [] k = "req5" -> "request" [] OTHER -> "socks"
Writer(k) ==
  CASE k = "greet" -> "write_method" [] k = "auth" -> "write_auth" [] OTHER -> "write_reply"

\* What the client has sent (place) of the messages up to k.
ClientAt(k, place, k4, k5) ==
  /\ c.channel = "connected" /\ c.reads = "stream"
  /\ Wanted(c.request_)
  /\ k \in UsedKinds /\ place \in {"unsent", "sent", "open"}
  /\ place = "open" => k \in LastKinds
  /\ k4 \in Nat /\ k5 \in Nat /\ k4 <= k5
  /\ k \notin LastKinds \/ place = "unsent" => k4 = 0
  /\ c.upstream_ = Queue(k, place, PayloadTail(k4, k5))
  /\ c.awaits = IF place = "open" THEN {} ELSE Awaited(k)
  /\ ~c.closed => Reading6(k5, k5)

\* What the server has made of it.
Nothing == s.upstream_ = << >> /\ s.handshake_pending_buf_ = << >> /\ s.channel = "none" /\ wire.s2r = << >>

Idle(k, place, at, k4) ==
  /\ at \in {"reads", "lost"} /\ place # "open"
  /\ Nothing /\ (k = "ss" => s.chunk = << >>)
  /\ IF at = "reads" THEN s.stage = Reader(k) ELSE s.stage = "socks" /\ k = "req5"
  /\ ~s.closed => wire.c2s = IF place = "sent" THEN Front(k, Carried(k), Payload, 0, k4) ELSE << >>

Half(k, place, at, k4) ==
  /\ at = "half" /\ k = "ss" /\ place = "sent"
  /\ Nothing /\ s.chunk = << <<"ss", c.request_, 1>> >>
  /\ s.stage = "ss"
  /\ ~s.closed => wire.c2s = << <<"ss", c.request_, 2>> >> \o Seg(Payload, 0, k4)

Writes(k, place, at, k3, k4) ==
  /\ at = "writes" /\ place = "sent" /\ k \in {"greet", "auth", "req4", "req5"}
  /\ s.stage = Writer(k)
  /\ s.upstream_ = << >> /\ s.channel = "none" /\ wire.s2r = << >>
  /\ k3 \in Nat /\ k3 <= k4
  /\ s.handshake_pending_buf_ = Seg(Payload, 0, k3)
  /\ k \in LastKinds => s.request_ = c.request_
  /\ ~s.closed => wire.c2s = Seg(Payload, k3, k4)

Ahead(k, place, at) ==
  /\ at \in {"ahead", "ahead_lost"} /\ place = "sent" /\ k \in {"greet", "auth"}
  /\ Nothing
  /\ IF at = "ahead" THEN s.stage = Reader(NextKind(k)) ELSE s.stage = "socks" /\ NextKind(k) = "req5"
  /\ ~s.closed => wire.c2s = << >>

Streams(k, place, at, k1, k3, k4) ==
  /\ at = "stream" /\ place \in {"sent", "open"} /\ k \in LastKinds
  /\ s.stage = "stream" /\ s.request_ = c.request_
  /\ s.handshake_pending_buf_ = << >>
  /\ k1 \in Nat /\ k3 \in Nat /\ k1 <= k3 /\ k3 <= k4
  /\ wire.s2r = Seg(Payload, 0, k1) /\ s.upstream_ = Seg(Payload, k1, k3)
  /\ s.channel \in {"connecting", "connected"}
  /\ s.channel = "connecting" => k1 = 0
  /\ s.channel = "connected" => k1 = k3
  /\ ~s.closed => wire.c2s = Seg(Payload, k3, k4)

\* The server has let pass what the client showed of its credentials.
Knows(k, at) ==
  /\ k \in {"auth", "req5"} \/ (k = "greet" /\ at # "reads") => cfg.auth_required = AuthRequired
  /\ k = "req5" \/ (k = "auth" /\ at # "reads") => (AuthRequired => cfg.credentials = "right")
  /\ k = "connect" /\ at = "stream" /\ cfg.auth_required => cfg.credentials = "right"

ServerAt(k, place, at, k1, k3, k4) ==
  /\ \/ Idle(k, place, at, k4) \/ Half(k, place, at, k4) \/ Writes(k, place, at, k3, k4)
     \/ Ahead(k, place, at) \/ Streams(k, place, at, k1, k3, k4)
  /\ Knows(k, at)
  /\ ~s.closed => s.why = IF at \in {"lost", "ahead_lost"} THEN "spurious" ELSE "none"
  /\ at # "stream" => app.back = 0

\* What is on its way back.
Answers(k, place, at) ==
  IF at \in {"ahead", "ahead_lost"} \/ (at = "stream" /\ place = "sent") THEN Reply(k) ELSE << >>

Backwards(k, place, at, y, z) ==
  ~c.closed =>
    /\ z \in Nat /\ y <= z /\ z <= app.back
    /\ wire.s2c = Answers(k, place, at) \o Seg(Data, y, z)
    /\ wire.r2s = Seg(Data, z, app.back)

LateAt(k, place, at, k1, k3, k4, k5, y, z) ==
  /\ at \in {"reads", "lost", "half", "writes", "ahead", "ahead_lost", "stream"}
  /\ k1 \in Nat /\ k3 \in Nat /\ k4 \in Nat /\ k5 \in Nat /\ y \in Nat /\ z \in Nat
  /\ ClientAt(k, place, k4, k5)
  /\ ServerAt(k, place, at, k1, k3, k4)
  /\ Backwards(k, place, at, y, z)

Late(y) == \E k, place, at, k1, k3, k4, k5, z : LateAt(k, place, at, k1, k3, k4, k5, y, z)

\* Why a connection ended.
Reason(why) ==
  \/ why \in {"resolve", "connect", "split", "spurious"}
  \/ why = "auth" /\ Mismatch
  \/ why = "destination" /\ cfg.dest \in {"none", "self"}
  \/ why = "ipv6" /\ cfg.method = "socks4"

Ends ==
  /\ IF c.closed THEN Reason(c.why) \/ (c.why = "peer" /\ s.closed /\ Reason(s.why)) ELSE c.why = "none"
  /\ s.closed => Reason(s.why) \/ (s.why = "peer" /\ c.closed /\ Reason(c.why))

\* The fields there are.
IsClient(x) ==
  x = [closed |-> x.closed, why |-> x.why, reads |-> x.reads, channel |-> x.channel,
       request_ |-> x.request_, pending_data_ |-> x.pending_data_, upstream_ |-> x.upstream_,
       awaits |-> x.awaits]
IsServer(x) ==
  x = [closed |-> x.closed, why |-> x.why, stage |-> x.stage,
       handshake_pending_buf_ |-> x.handshake_pending_buf_, chunk |-> x.chunk,
       request_ |-> x.request_, channel |-> x.channel, upstream_ |-> x.upstream_]
IsApp(x) == x = [sent |-> x.sent, back |-> x.back, got |-> x.got, next |-> x.next]
IsWire(x) ==
  x = [d \in {"a2c", "c2a", "c2s", "s2c", "s2r", "r2s"} |-> x[d]]
Records ==
  /\ IsClient(c) /\ IsServer(s) /\ IsApp(app) /\ IsWire(wire)
  /\ c.closed \in BOOLEAN /\ s.closed \in BOOLEAN

HandshakeInv ==
  /\ ConfigOK /\ Records
  /\ app.sent \in Nat /\ app.back \in Nat
  /\ Ends
  /\ \E g, y \in Nat : Downwards(g, y) /\ (Early(y) \/ Late(y))

-----------------------------------------------------------------------------
(* Records. *)

\* A client or a server that has ended is what it was, but for the reason.
ClientEnded(e, x, why) ==
  /\ IsClient(e) /\ e.closed = TRUE /\ e.why = (IF x.why = "none" THEN why ELSE x.why)
  /\ e.reads = x.reads /\ e.channel = x.channel /\ e.request_ = x.request_
  /\ e.pending_data_ = x.pending_data_ /\ e.upstream_ = x.upstream_ /\ e.awaits = x.awaits

ServerEnded(e, x, why) ==
  /\ IsServer(e) /\ e.closed = TRUE /\ e.why = (IF x.why = "none" THEN why ELSE x.why)
  /\ e.stage = x.stage /\ e.handshake_pending_buf_ = x.handshake_pending_buf_
  /\ e.chunk = x.chunk /\ e.channel = x.channel /\ e.request_ = x.request_
  /\ e.upstream_ = x.upstream_

LEMMA EndedClient ==
  ASSUME NEW x, IsClient(x), NEW why
  PROVE  ClientEnded(Ended(x, why), x, why)
<1> DEFINE w == IF x.why = "none" THEN why ELSE x.why
           e == Ended(x, why)
<1>1. e = [x EXCEPT !.closed = TRUE, !.why = w] BY DEF Ended, IsClient
<1> HIDE DEF w, e
<1>2. e = [closed |-> TRUE, why |-> w, reads |-> x.reads, channel |-> x.channel,
           request_ |-> x.request_, pending_data_ |-> x.pending_data_, upstream_ |-> x.upstream_,
           awaits |-> x.awaits]
  BY <1>1 DEF IsClient
<1>3. IsClient(e) BY <1>2 DEF IsClient
<1> QED BY <1>2, <1>3 DEF e, w, ClientEnded

LEMMA EndedServer ==
  ASSUME NEW x, IsServer(x), NEW why
  PROVE  ServerEnded(Ended(x, why), x, why)
<1> DEFINE w == IF x.why = "none" THEN why ELSE x.why
           e == Ended(x, why)
<1>1. e = [x EXCEPT !.closed = TRUE, !.why = w] BY DEF Ended, IsServer
<1> HIDE DEF w, e
<1>2. e = [closed |-> TRUE, why |-> w, stage |-> x.stage,
           handshake_pending_buf_ |-> x.handshake_pending_buf_, chunk |-> x.chunk,
           request_ |-> x.request_, channel |-> x.channel, upstream_ |-> x.upstream_]
  BY <1>1 DEF IsServer
<1>3. IsServer(e) BY <1>2 DEF IsServer
<1> QED BY <1>2, <1>3 DEF e, w, ServerEnded

\* Writing to a wire and reading from one.
SameWires(x, y, ds) == \A d \in {"a2c", "c2a", "c2s", "s2c", "s2r", "r2s"} \ ds : x[d] = y[d]

LEMMA WireStep ==
  ASSUME IsWire(wire), NEW d \in {"a2c", "c2a", "c2s", "s2c", "s2r", "r2s"}
  PROVE  /\ \A tokens : /\ IsWire(Sends(d, tokens)) /\ Sends(d, tokens)[d] = wire[d] \o tokens
                        /\ SameWires(Sends(d, tokens), wire, {d})
         /\ \A n : /\ IsWire(Taken(d, n)) /\ Taken(d, n)[d] = Rest(wire[d], n)
                   /\ SameWires(Taken(d, n), wire, {d})
BY DEF IsWire, Sends, Taken, SameWires

-----------------------------------------------------------------------------
(* What does not change. *)

LEMMA CfgSame ==
  ASSUME cfg' = cfg
  PROVE  /\ Base' = Base /\ Payload' = Payload /\ UsedKinds' = UsedKinds
         /\ AuthRequired' = AuthRequired /\ RequestKind' = RequestKind
         /\ Meant' = Meant /\ Mismatch' = Mismatch /\ ConfigOK' = ConfigOK
         /\ \A k : Awaited(k)' = Awaited(k) /\ NextKind(k)' = NextKind(k)
         /\ \A k, tail : Holes(k, tail)' = Holes(k, tail)
         /\ \A k4, k5 : PayloadTail(k4, k5)' = PayloadTail(k4, k5)
         /\ Leftover' = Leftover
         /\ \A why : Reason(why)' = Reason(why)
         /\ \A dest : Wanted(dest)' = Wanted(dest)
         /\ \A k, at : Knows(k, at)' = Knows(k, at)
<1>1. Base' = Base /\ AuthRequired' = AuthRequired /\ RequestKind' = RequestKind /\ Mismatch' = Mismatch
  BY DEF Base, AuthRequired, RequestKind, Mismatch
<1>2. Payload' = Payload /\ UsedKinds' = UsedKinds BY <1>1 DEF Payload, UsedKinds
<1>3. Meant' = Meant BY DEF Meant
<1>4. ConfigOK' = ConfigOK BY DEF ConfigOK
<1>5. \A k : Awaited(k)' = Awaited(k) /\ NextKind(k)' = NextKind(k) BY <1>1 DEF Awaited, NextKind
<1>6. \A k, tail : Holes(k, tail)' = Holes(k, tail) BY <1>1 DEF Holes
<1>l. Leftover' = Leftover BY DEF Leftover
<1>7. \A k4, k5 : PayloadTail(k4, k5)' = PayloadTail(k4, k5) BY <1>2, <1>l DEF PayloadTail, Chunks
<1>8. \A why : Reason(why)' = Reason(why) BY <1>1 DEF Reason
<1>9. \A dest : Wanted(dest)' = Wanted(dest) BY <1>3 DEF Wanted
<1>10. \A k, at : Knows(k, at)' = Knows(k, at) BY <1>1 DEF Knows
<1> QED BY <1>1, <1>2, <1>3, <1>4, <1>5, <1>6, <1>7, <1>8, <1>9, <1>10, <1>l

LEMMA RequestSame ==
  ASSUME cfg' = cfg, c'.request_ = c.request_
  PROVE  /\ \A k : Carried(k)' = Carried(k) /\ Reply(k)' = Reply(k)
         /\ \A k, place, tail : Queue(k, place, tail)' = Queue(k, place, tail)
         /\ \A k, place, at : Answers(k, place, at)' = Answers(k, place, at)
<1>1. \A k : Carried(k)' = Carried(k) BY CfgSame DEF Carried
<1>2. \A k : Reply(k)' = Reply(k) BY <1>1 DEF Reply
<1>3. \A k, place, tail : Queue(k, place, tail)' = Queue(k, place, tail) BY <1>1, CfgSame DEF Queue
<1>4. \A k, place, at : Answers(k, place, at)' = Answers(k, place, at) BY <1>2 DEF Answers
<1> QED BY <1>1, <1>2, <1>3, <1>4

LEMMA ServerSame ==
  ASSUME cfg' = cfg, c'.request_ = c.request_, s' = s, wire'.c2s = wire.c2s, wire'.s2r = wire.s2r,
         app'.back = app.back, NEW k, NEW place, NEW at, NEW k1, NEW k3, NEW k4,
         ServerAt(k, place, at, k1, k3, k4)
  PROVE  ServerAt(k, place, at, k1, k3, k4)'
<1>1. Carried(k)' = Carried(k) /\ Payload' = Payload /\ NextKind(k)' = NextKind(k) /\ Knows(k, at)' = Knows(k, at)
  BY CfgSame, RequestSame
<1>2. Nothing' = Nothing BY DEF Nothing
<1>3. CASE Idle(k, place, at, k4)
  <2>1. Idle(k, place, at, k4)' BY <1>1, <1>2, <1>3 DEF Idle
  <2> QED BY <1>1, <2>1 DEF ServerAt
<1>4. CASE Half(k, place, at, k4)
  <2>1. Half(k, place, at, k4)' BY <1>1, <1>2, <1>4 DEF Half
  <2> QED BY <1>1, <2>1 DEF ServerAt
<1>5. CASE Writes(k, place, at, k3, k4)
  <2>1. Writes(k, place, at, k3, k4)' BY <1>1, <1>5 DEF Writes
  <2> QED BY <1>1, <2>1 DEF ServerAt
<1>6. CASE Ahead(k, place, at)
  <2>1. Ahead(k, place, at)' BY <1>1, <1>2, <1>6 DEF Ahead
  <2> QED BY <1>1, <2>1 DEF ServerAt
<1>7. CASE Streams(k, place, at, k1, k3, k4)
  <2>1. Streams(k, place, at, k1, k3, k4)' BY <1>1, <1>7 DEF Streams
  <2> QED BY <1>1, <2>1 DEF ServerAt
<1> QED BY <1>3, <1>4, <1>5, <1>6, <1>7 DEF ServerAt

LEMMA ClientSame ==
  ASSUME cfg' = cfg, c' = c, app'.next = app.next, app'.sent = app.sent, wire'.a2c = wire.a2c,
         NEW k, NEW place, NEW k4, NEW k5, ClientAt(k, place, k4, k5)
  PROVE  ClientAt(k, place, k4, k5)'
<1>1. /\ Payload' = Payload /\ All' = All /\ UsedKinds' = UsedKinds /\ Awaited(k)' = Awaited(k)
      /\ PayloadTail(k4, k5)' = PayloadTail(k4, k5) /\ Wanted(c.request_)' = Wanted(c.request_)
      /\ Queue(k, place, PayloadTail(k4, k5))' = Queue(k, place, PayloadTail(k4, k5))
  BY CfgSame DEF All, Queue, Carried
<1>2. Reading6(k5, k5)' = Reading6(k5, k5) BY <1>1 DEF Reading6
<1> QED BY <1>1, <1>2 DEF ClientAt

LEMMA BackSame ==
  ASSUME cfg' = cfg, c' = c, app'.back = app.back, ~c.closed => wire'.s2c = wire.s2c, wire'.r2s = wire.r2s,
         NEW k, NEW place, NEW at, NEW y, NEW z, Backwards(k, place, at, y, z)
  PROVE  Backwards(k, place, at, y, z)'
<1>1. Answers(k, place, at)' = Answers(k, place, at) BY RequestSame
<1> QED BY <1>1 DEF Backwards, Data

\* The next chunk of each side.
LEMMA NextChunk ==
  ASSUME ConfigOK, app.sent \in Nat
  PROVE  All \in Nat /\ Base \in Nat /\ Base <= All /\ Chunk(app.sent + 1) = Seg(Payload, All, All + 1)
<1>1. Base \in Nat BY DEF Base, ConfigOK
<1>2. All \in Nat /\ All + 1 \in Nat /\ All + 1 > Base /\ (All + 1) - Base = app.sent + 1
  BY <1>1 DEF All
<1>3. Payload[All + 1] = <<"data", app.sent + 1, 0>>
  <2> HIDE DEF All, Base
  <2> QED BY <1>2 DEF Payload
<1>4. Seg(Payload, All, All + 1) = << Payload[All + 1] >>
  <2> HIDE DEF All, Payload
  <2> QED BY <1>2, SegOne
<1> HIDE DEF Base
<1> QED BY <1>1, <1>2, <1>3, <1>4 DEF Chunk, All

LEMMA NextData ==
  ASSUME NEW n \in Nat
  PROVE  Chunk(n + 1) = Seg(Data, n, n + 1)
<1>1. Data[n + 1] = <<"data", n + 1, 0>> BY DEF Data
<1>2. Seg(Data, n, n + 1) = << Data[n + 1] >>
  <2> HIDE DEF Data
  <2> QED BY SegOne
<1> QED BY <1>1, <1>2 DEF Chunk

-----------------------------------------------------------------------------
(* The application and its destination. *)

LEMMA AppSendsInv == ASSUME HandshakeInv, AppSends PROVE HandshakeInv'
<1>0. /\ ConfigOK /\ Records /\ app.sent \in Nat /\ app.back \in Nat /\ Ends
      /\ ~c.closed /\ cfg' = cfg /\ c' = c /\ s' = s
  BY DEF HandshakeInv, AppSends
<1>1. PICK g, y \in Nat : Downwards(g, y) /\ (Early(y) \/ Late(y)) BY DEF HandshakeInv
<1>2. /\ All \in Nat /\ Base \in Nat /\ Base <= All /\ All + 1 \in Nat
      /\ Chunk(app.sent + 1) = Seg(Payload, All, All + 1)
  BY <1>0, NextChunk
<1>3. Payload' = Payload /\ Base' = Base /\ RequestKind' = RequestKind /\ ConfigOK' BY <1>0, CfgSame
<1> DEFINE Branch ==
      \/ /\ app.next = "greet" /\ app'.next = "wait" /\ app'.sent = app.sent
         /\ wire'.a2c = wire.a2c \o Msg("greet", "noauth")
      \/ /\ app.next = "request" /\ app'.next \in {"wait", "data"} /\ app'.sent = app.sent
         /\ wire'.a2c = wire.a2c \o Msg(RequestKind, cfg.dest)
      \/ /\ app.next = "data" /\ app'.next = "data" /\ app'.sent = app.sent + 1
         /\ wire'.a2c = wire.a2c \o Seg(Payload, All, All + 1)
<1>4. IsApp(app') /\ app'.got = app.got /\ app'.back = app.back /\ app'.sent \in Nat
  BY <1>0 DEF AppSends, Records, IsApp
<1>5. IsWire(wire') /\ SameWires(wire', wire, {"a2c"})
  <2>1. \A tokens : IsWire(Sends("a2c", tokens)) /\ SameWires(Sends("a2c", tokens), wire, {"a2c"})
    BY <1>0, WireStep DEF Records
  <2> QED BY <2>1 DEF AppSends
<1>6. Branch
  <2>1. \A tokens : Sends("a2c", tokens).a2c = wire.a2c \o tokens BY <1>0, WireStep DEF Records
  <2> QED BY <1>0, <1>2, <2>1 DEF AppSends, Records, IsApp
<1> HIDE DEF Branch
<1>7. /\ wire'.c2a = wire.c2a /\ wire'.c2s = wire.c2s /\ wire'.s2c = wire.s2c
      /\ wire'.s2r = wire.s2r /\ wire'.r2s = wire.r2s
  BY <1>5 DEF SameWires
<1>8. Records' BY <1>0, <1>4, <1>5 DEF Records
<1>9. Ends' BY <1>0, CfgSame DEF Ends
<1>10. Downwards(g, y)' BY <1>0, <1>1, <1>4, <1>7 DEF Downwards, Data
<1>11. ASSUME NEW a, a \in Nat, a <= All, wire.a2c = Seg(Payload, a, All), app.next \in {"wait", "data"}
       PROVE  wire'.a2c = Seg(Payload, a, All') /\ a <= All' /\ app'.next \in {"wait", "data"}
  <2>1. app.next = "data" /\ app'.next = "data" /\ app'.sent = app.sent + 1
        /\ wire'.a2c = Seg(Payload, a, All) \o Seg(Payload, All, All + 1)
    BY <1>6, <1>11 DEF Branch
  <2>2. All' = All + 1
    <3> HIDE DEF Base
    <3> QED BY <2>1, <1>2, <1>3, <1>0 DEF All
  <2>3. Seg(Payload, a, All) \o Seg(Payload, All, All + 1) = Seg(Payload, a, All + 1)
    <3>1. All <= All + 1 BY <1>2
    <3> HIDE DEF All, Payload
    <3> QED BY <1>2, <1>11, <3>1, SegCat
  <2> QED BY <2>1, <2>2, <2>3, <1>11, <1>2
<1>12. ASSUME NEW k, wire.a2c = Front(k, cfg.dest, Payload, Base, All), Asked
       PROVE  wire'.a2c = Front(k, cfg.dest, Payload, Base, All') /\ Asked'
  <2>1. app.next = "data" /\ app'.next = "data" /\ app'.sent = app.sent + 1
        /\ wire'.a2c = Front(k, cfg.dest, Payload, Base, All) \o Seg(Payload, All, All + 1)
    BY <1>6, <1>12 DEF Branch, Asked
  <2>2. All' = All + 1
    <3> HIDE DEF Base
    <3> QED BY <2>1, <1>2, <1>3, <1>0 DEF All
  <2>3. Front(k, cfg.dest, Payload, Base, All) \o Seg(Payload, All, All + 1) = Front(k, cfg.dest, Payload, Base, All + 1)
    <3> DEFINE w == cfg.dest  p == Payload  a == Base  b == All  d == All + 1
    <3>1. a \in Nat /\ b \in Nat /\ d \in Nat /\ a <= b /\ b <= d BY <1>2
    <3> HIDE DEF w, p, a, b, d
    <3>2. Front(k, w, p, a, b) \o Seg(p, b, d) = Front(k, w, p, a, d) BY <3>1, FrontCat
    <3> QED BY <3>2 DEF w, p, a, b, d
  <2> QED BY <2>1, <2>2, <2>3 DEF Asked
<1>13. ASSUME app.next = "request", app.sent = 0, wire.a2c = << >>
       PROVE  wire'.a2c = Front(RequestKind, cfg.dest, Payload, Base, All') /\ Asked'
  <2>1. app'.sent = 0 /\ app'.next \in {"wait", "data"} /\ wire'.a2c = << >> \o Msg(RequestKind, cfg.dest)
    BY <1>6, <1>13 DEF Branch
  <2>2. All' = Base BY <2>1, <1>2, <1>3 DEF All
  <2>3. Front(RequestKind, cfg.dest, Payload, Base, Base) = Msg(RequestKind, cfg.dest)
        /\ << >> \o Msg(RequestKind, cfg.dest) = Msg(RequestKind, cfg.dest)
    <3> HIDE DEF RequestKind, Payload, Base
    <3> QED BY <1>2, FrontAlone
  <2> QED BY <2>1, <2>2, <2>3 DEF Asked
<1>14. CASE Early(y)
  <2>0. SUFFICES Early(y)' BY <1>1, <1>3, <1>4, <1>8, <1>9, <1>10, <1>0 DEF HandshakeInv
  <2>1. Untouched' BY <1>0, <1>4, <1>7, <1>14 DEF Early, Untouched, InitialServer
  <2>2. CASE Unread
    <3>1. c' = InitialClient /\ wire'.c2a = << >> BY <1>0, <1>7, <2>2 DEF Unread, InitialClient
    <3>2. CASE cfg.front = "redir" /\ app.next = "data" /\ wire.a2c = Seg(Data, 0, app.sent)
      <4> DEFINE n == app.sent
      <4>1. /\ app'.next = "data" /\ app'.sent = n + 1
            /\ wire'.a2c = Seg(Data, 0, n) \o Seg(Data, n, n + 1)
        BY <1>0, <1>2, <1>6, <3>2, NextData DEF Branch
      <4>2. wire'.a2c = Seg(Data, 0, n + 1)
        <5>1. n \in Nat /\ n + 1 \in Nat /\ 0 <= n /\ n <= n + 1 BY <1>0
        <5> DEFINE e == Data
        <5>2. 0 \in Nat /\ wire'.a2c = Seg(e, 0, n) \o Seg(e, n, n + 1) BY <4>1
        <5> HIDE DEF e, n
        <5>3. Seg(e, 0, n) \o Seg(e, n, n + 1) = Seg(e, 0, n + 1) BY <5>1, <5>2, SegCat
        <5> QED BY <5>2, <5>3 DEF e
      <4>3. Unread' BY <1>0, <1>3, <3>1, <3>2, <4>1, <4>2 DEF Unread, InitialClient, Data
      <4> QED BY <1>0, <1>14, <2>1, <4>3 DEF Early
    <3>3. CASE cfg.front = "socks5" /\ app.next = "greet" /\ app.sent = 0 /\ wire.a2c = << >>
      <4>1. app'.next = "wait" /\ app'.sent = 0 /\ wire'.a2c = << >> \o Msg("greet", "noauth")
        BY <1>6, <3>3 DEF Branch
      <4>2. wire'.a2c = Msg("greet", "noauth") BY <4>1 DEF Msg
      <4>3. Unread' BY <1>0, <1>3, <3>1, <3>3, <4>1, <4>2 DEF Unread, InitialClient, Msg
      <4> QED BY <1>0, <1>14, <2>1, <4>3 DEF Early
    <3>4. CASE cfg.front = "socks5" /\ app.next = "wait"
      BY <1>6, <3>4 DEF Branch
    <3>5. CASE /\ cfg.front \notin {"redir", "socks5"} /\ app.next = "request" /\ app.sent = 0
               /\ wire.a2c = << >>
      <4>1. Unread' BY <1>0, <1>3, <1>13, <3>1, <3>5 DEF Unread, InitialClient
      <4> QED BY <1>0, <1>14, <2>1, <4>1 DEF Early
    <3>6. CASE /\ cfg.front \notin {"redir", "socks5"} /\ Asked
               /\ wire.a2c = Front(RequestKind, cfg.dest, Payload, Base, All)
      <4>1. Unread' BY <1>0, <1>3, <1>12, <3>1, <3>6 DEF Unread, InitialClient
      <4> QED BY <1>0, <1>14, <2>1, <4>1 DEF Early
    <3> QED BY <2>2, <3>2, <3>3, <3>4, <3>5, <3>6 DEF Unread
  <2>3. CASE Greeted
    <3>1. c' = [InitialClient EXCEPT !.reads = "socks5"] BY <1>0, <2>3 DEF Greeted, InitialClient
    <3>2. RequestKind = "req5" BY <2>3 DEF Greeted, RequestKind
    <3>3. CASE app.next = "wait" /\ wire.a2c = << >>
      BY <1>6, <3>3 DEF Branch
    <3>4. CASE app.next = "request" /\ app.sent = 0 /\ wire.a2c = << >> /\ wire.c2a = << >>
      <4>1. Greeted' BY <1>0, <1>3, <1>7, <1>13, <2>3, <3>1, <3>2, <3>4 DEF Greeted, InitialClient
      <4> QED BY <1>0, <1>14, <2>1, <4>1 DEF Early
    <3>5. CASE Asked /\ wire.c2a = << >> /\ wire.a2c = Front("req5", cfg.dest, Payload, Base, All)
      <4>1. Greeted' BY <1>0, <1>3, <1>7, <1>12, <2>3, <3>1, <3>5 DEF Greeted, InitialClient
      <4> QED BY <1>0, <1>14, <2>1, <4>1 DEF Early
    <3> QED BY <2>3, <3>3, <3>4, <3>5 DEF Greeted
  <2>4. CASE Requesting /\ \E k6 \in Nat : Reading6(0, k6)
    <3>1. PICK k6 \in Nat : Reading6(0, k6) BY <2>4
    <3>2. Reading6(0, k6)' BY <1>0, <1>3, <1>11, <3>1 DEF Reading6
    <3>3. Requesting' BY <1>0, <2>4, CfgSame DEF Requesting
    <3> QED BY <1>0, <1>14, <2>1, <3>2, <3>3 DEF Early
  <2> QED BY <1>0, <1>14, <2>2, <2>3, <2>4 DEF Early
<1>15. CASE Late(y)
  <2>1. PICK k, place, at, k1, k3, k4, k5, z : LateAt(k, place, at, k1, k3, k4, k5, y, z)
    BY <1>15 DEF Late
  <2>2. /\ ClientAt(k, place, k4, k5) /\ ServerAt(k, place, at, k1, k3, k4)
        /\ Backwards(k, place, at, y, z)
    BY <2>1 DEF LateAt
  <2>3. ClientAt(k, place, k4, k5)'
    <3>1. /\ UsedKinds' = UsedKinds /\ Awaited(k)' = Awaited(k)
          /\ PayloadTail(k4, k5)' = PayloadTail(k4, k5) /\ Wanted(c.request_)' = Wanted(c.request_)
          /\ Queue(k, place, PayloadTail(k4, k5))' = Queue(k, place, PayloadTail(k4, k5))
      BY <1>0, CfgSame DEF Queue, Carried
    <3>2. Reading6(k5, k5)' BY <1>0, <1>3, <1>11, <2>2 DEF Reading6, ClientAt
    <3> QED BY <1>0, <2>2, <3>1, <3>2 DEF ClientAt
  <2>4. ServerAt(k, place, at, k1, k3, k4)' BY <1>0, <1>4, <1>7, <2>2, ServerSame
  <2>5. Backwards(k, place, at, y, z)' BY <1>0, <1>4, <1>7, <2>2, BackSame
  <2>6. Late(y)' BY <2>1, <2>3, <2>4, <2>5 DEF Late, LateAt
  <2> QED BY <2>6, <1>1, <1>3, <1>4, <1>8, <1>9, <1>10, <1>0 DEF HandshakeInv
<1> QED BY <1>1, <1>14, <1>15

\* The first token of a message, and of a piece.
LEMMA FirstToken ==
  ASSUME NEW k, NEW w, NEW e, NEW a, NEW b, a \in Nat, b \in Nat, a <= b
  PROVE  Front(k, w, e, a, b)[1] = <<k, w, 1>> /\ Front(k, w, e, a, b) # << >>
<1> DEFINE l == Led(k, w, e, a)  m == 2 + (b - a)
<1>1. Begins(k, w, e, a, b) BY FrontIs
<1>2. Front(k, w, e, a, b) = Seg(l, 0, m) BY <1>1 DEF Begins
<1>3. m \in Nat /\ 0 \in Nat /\ 0 <= m /\ 1 \in 1 .. m - 0 /\ 0 + 1 = 1 /\ m # 0 OBVIOUS
<1>4. l[1] = <<k, w, 1>> BY DEF Led
<1> HIDE DEF l, m
<1>5. IsPiece(Seg(l, 0, m), l, 0, m) /\ Seg(l, 0, m) # << >> BY <1>3, SegType, SegEmpty
<1>6. Seg(l, 0, m)[1] = l[1] BY <1>3, <1>5 DEF IsPiece
<1> QED BY <1>2, <1>4, <1>5, <1>6

LEMMA FirstData ==
  ASSUME NEW a, NEW b, a \in Nat, b \in Nat, a <= b, Seg(Data, a, b) # << >>
  PROVE  /\ a + 1 \in Nat /\ a + 1 <= b /\ Seg(Data, a, b)[1] = <<"data", a + 1, 0>>
         /\ Rest(Seg(Data, a, b), 1) = Seg(Data, a + 1, b)
<1> DEFINE e == Data
<1>1. a # b BY SegEmpty
<1>2. 1 \in 1 .. b - a /\ 1 \in 0 .. b - a /\ a + 1 \in Nat /\ a + 1 <= b BY <1>1
<1>3. e[a + 1] = <<"data", a + 1, 0>> BY <1>2 DEF Data
<1> HIDE DEF e
<1>4. IsPiece(Seg(e, a, b), e, a, b) /\ Cuts(e, a, b, 1) BY <1>2, SegType, SegRead
<1>5. Seg(e, a, b)[1] = e[a + 1] BY <1>2, <1>4 DEF IsPiece
<1>6. Rest(Seg(e, a, b), 1) = Seg(e, a + 1, b) BY <1>4 DEF Cuts
<1> QED BY <1>2, <1>3, <1>5, <1>6 DEF e

\* Only what the application reads changes.
LEMMA LateKept ==
  ASSUME NEW y, Late(y), cfg' = cfg, c' = c, s' = s, app'.sent = app.sent, app'.back = app.back,
         wire'.a2c = wire.a2c, wire'.c2s = wire.c2s, wire'.s2c = wire.s2c, wire'.s2r = wire.s2r,
         wire'.r2s = wire.r2s, c.closed \/ app'.next \in {"wait", "data"}
  PROVE  Late(y)'
<1>1. PICK k, place, at, k1, k3, k4, k5, z : LateAt(k, place, at, k1, k3, k4, k5, y, z)
  BY DEF Late
<1>2. /\ ClientAt(k, place, k4, k5) /\ ServerAt(k, place, at, k1, k3, k4)
      /\ Backwards(k, place, at, y, z)
  BY <1>1 DEF LateAt
<1>3. ClientAt(k, place, k4, k5)'
  <2>1. /\ UsedKinds' = UsedKinds /\ Awaited(k)' = Awaited(k) /\ Payload' = Payload /\ All' = All
        /\ PayloadTail(k4, k5)' = PayloadTail(k4, k5) /\ Wanted(c.request_)' = Wanted(c.request_)
        /\ Queue(k, place, PayloadTail(k4, k5))' = Queue(k, place, PayloadTail(k4, k5))
    BY CfgSame DEF Queue, Carried, All
  <2>2. ~c.closed => Reading6(k5, k5)' BY <1>2, <2>1 DEF Reading6, ClientAt
  <2> QED BY <1>2, <2>1, <2>2 DEF ClientAt
<1>4. ServerAt(k, place, at, k1, k3, k4)' BY <1>2, ServerSame
<1>5. Backwards(k, place, at, y, z)' BY <1>2, BackSame
<1> QED BY <1>1, <1>3, <1>4, <1>5 DEF Late, LateAt

LEMMA AppReadsInv == ASSUME HandshakeInv, AppReads PROVE HandshakeInv'
<1>0. /\ ConfigOK /\ Records /\ app.sent \in Nat /\ app.back \in Nat /\ Ends
      /\ wire.c2a # << >> /\ cfg' = cfg /\ c' = c /\ s' = s
  BY DEF HandshakeInv, AppReads
<1>1. PICK g, y \in Nat : Downwards(g, y) /\ (Early(y) \/ Late(y)) BY DEF HandshakeInv
<1>2. g <= y BY <1>1 DEF Downwards
<1>3. Payload' = Payload /\ Base' = Base /\ ConfigOK' BY <1>0, CfgSame
<1>4. IsApp(app') /\ app'.back = app.back /\ app'.sent = app.sent
  BY <1>0 DEF AppReads, Records, IsApp
<1>5. IsWire(wire') /\ SameWires(wire', wire, {"c2a"})
  <2>1. \A n : IsWire(Taken("c2a", n)) /\ SameWires(Taken("c2a", n), wire, {"c2a"})
    BY <1>0, WireStep DEF Records
  <2> QED BY <2>1 DEF AppReads
<1> DEFINE Branch ==
      \/ /\ Starts(wire.c2a, "method") /\ app'.next = "request" /\ app'.got = app.got
         /\ wire'.c2a = Rest(wire.c2a, 2)
      \/ /\ Starts(wire.c2a, "granted") /\ app'.next = "data" /\ app'.got = app.got
         /\ wire'.c2a = Rest(wire.c2a, 2)
      \/ /\ wire.c2a[1][1] = "data" /\ app'.next = app.next /\ app'.got = Append(app.got, wire.c2a[1])
         /\ wire'.c2a = Rest(wire.c2a, 1)
<1>6. Branch
  <2>1. \A n : Taken("c2a", n).c2a = Rest(wire.c2a, n) BY <1>0, WireStep DEF Records
  <2> QED BY <1>0, <2>1 DEF AppReads, Records, IsApp
<1> HIDE DEF Branch
<1>7. /\ wire'.a2c = wire.a2c /\ wire'.c2s = wire.c2s /\ wire'.s2c = wire.s2c
      /\ wire'.s2r = wire.s2r /\ wire'.r2s = wire.r2s
  BY <1>5 DEF SameWires
<1>8. Records' BY <1>0, <1>4, <1>5 DEF Records
<1>9. Ends' BY <1>0, CfgSame DEF Ends
<1>10. \A kind : Starts(wire.c2a, kind) => wire.c2a[1][1] = kind BY DEF Starts
<1>11. ASSUME Early(y) PROVE Untouched'
  BY <1>0, <1>4, <1>7, <1>11 DEF Early, Untouched, InitialServer
<1>12. CASE wire.c2a = Seg(Data, g, y)
  <2>1. /\ g + 1 \in Nat /\ g + 1 <= y /\ wire.c2a[1] = <<"data", g + 1, 0>>
        /\ Rest(wire.c2a, 1) = Seg(Data, g + 1, y)
    BY <1>0, <1>2, <1>12, FirstData
  <2>2. wire.c2a[1][1] = "data" BY <2>1
  <2>3. app'.next = app.next /\ app'.got = Append(app.got, wire.c2a[1]) /\ wire'.c2a = Rest(wire.c2a, 1)
    BY <1>6, <1>10, <2>2 DEF Branch
  <2>4. app'.got = Seg(Data, 0, g + 1)
    <3> DEFINE e == Data
    <3>1. 0 \in Nat /\ 0 <= g /\ g <= g + 1 OBVIOUS
    <3>2. e[g + 1] = <<"data", g + 1, 0>> BY <2>1 DEF Data
    <3>3. app.got = Seg(e, 0, g) BY <1>1 DEF Downwards
    <3> HIDE DEF e
    <3>4. IsPiece(Seg(e, 0, g), e, 0, g) BY <3>1, SegType
    <3>5. Seg(e, 0, g) \in Seq(Elements(e)) /\ e[g + 1] \in Elements(e) BY <2>1, <3>4 DEF IsPiece, Elements
    <3>6. Append(Seg(e, 0, g), e[g + 1]) = Seg(e, 0, g) \o << e[g + 1] >> BY <3>5, AppendIsConcat
    <3>7. Seg(e, 0, g) \o Seg(e, g, g + 1) = Seg(e, 0, g + 1) BY <2>1, <3>1, SegCat
    <3>8. Seg(e, g, g + 1) = << e[g + 1] >> BY SegOne
    <3> QED BY <2>1, <2>3, <3>2, <3>3, <3>6, <3>7, <3>8 DEF e
  <2>5. Downwards(g + 1, y)' BY <1>0, <1>1, <2>1, <2>3, <2>4 DEF Downwards, Data
  <2>6. CASE Early(y)
    <3>1. CASE c.closed
      <4>1. Early(y)' BY <1>0, <1>11, <2>6, <3>1 DEF Early
      <4> QED BY <4>1, <2>1, <2>5, <1>3, <1>4, <1>8, <1>9, <1>0, <1>1 DEF HandshakeInv
    <3>2. CASE ~c.closed
      <4>1. y = 0 BY <2>6, <3>2 DEF Early
      <4> QED BY <4>1, <2>1
    <3> QED BY <3>1, <3>2
  <2>7. CASE Late(y)
    <3>1. c.closed \/ app.next \in {"wait", "data"}
      BY <2>7 DEF Late, LateAt, ClientAt, Reading6
    <3>2. Late(y)' BY <1>0, <1>4, <1>7, <2>3, <2>7, <3>1, LateKept
    <3> QED BY <3>2, <2>1, <2>5, <1>3, <1>4, <1>8, <1>9, <1>0, <1>1 DEF HandshakeInv
  <2> QED BY <1>1, <2>6, <2>7
<1>13. ASSUME NEW k, NEW w, wire.c2a = Front(k, w, Data, g, y)
       PROVE  /\ wire.c2a[1][1] = k /\ Rest(wire.c2a, 2) = Seg(Data, g, y)
              /\ \A kind : Starts(wire.c2a, kind) <=> kind = k
  <2> DEFINE e == Data
  <2> HIDE DEF e
  <2>1. Front(k, w, e, g, y)[1] = <<k, w, 1>> BY <1>2, FirstToken
  <2>2. Parsed(Front(k, w, e, g, y), k, w, Seg(e, g, y)) BY <1>2, ParseFront
  <2> QED BY <1>13, <2>1, <2>2 DEF Parsed, Behind, e
<1>14. CASE wire.c2a = Front("method", "noauth", Data, g, y) /\ (c.closed \/ c.reads = "socks5")
  <2>1. app'.next = "request" /\ app'.got = app.got /\ wire'.c2a = Seg(Data, g, y)
    BY <1>6, <1>13, <1>14 DEF Branch
  <2>2. Downwards(g, y)' BY <1>0, <1>1, <2>1 DEF Downwards, Data
  <2>3. CASE Early(y)
    <3>1. CASE c.closed
      <4>1. Early(y)' BY <1>0, <1>11, <2>3, <3>1 DEF Early
      <4> QED BY <4>1, <2>2, <1>3, <1>4, <1>8, <1>9, <1>0, <1>1 DEF HandshakeInv
    <3>2. CASE ~c.closed
      <4>1. ~Unread BY <1>0 DEF Unread
      <4>2. ~Requesting BY <1>14, <3>2 DEF Requesting
      <4>3. Greeted BY <2>3, <3>2, <4>1, <4>2 DEF Early
      <4>4. app.sent = 0 /\ wire.a2c = << >> BY <1>0, <4>3, <1>14 DEF Greeted
      <4>5. Seg(Data, g, y) = << >>
        <5>1. y = 0 /\ g = 0 BY <1>2, <2>3, <3>2 DEF Early
        <5> HIDE DEF Data
        <5> QED BY <5>1, SegEmpty
      <4>6. Greeted' BY <1>0, <1>4, <1>7, <2>1, <4>3, <4>4, <4>5 DEF Greeted, InitialClient
      <4>7. Early(y)' BY <1>0, <1>11, <2>3, <4>6 DEF Early
      <4> QED BY <4>7, <2>2, <1>3, <1>4, <1>8, <1>9, <1>0, <1>1 DEF HandshakeInv
    <3> QED BY <3>1, <3>2
  <2>4. CASE Late(y)
    <3>1. c.reads = "stream" BY <2>4 DEF Late, LateAt, ClientAt
    <3>2. c.closed BY <1>14, <3>1
    <3>3. Late(y)' BY <1>0, <1>4, <1>7, <2>4, <3>2, LateKept
    <3> QED BY <3>3, <2>2, <1>3, <1>4, <1>8, <1>9, <1>0, <1>1 DEF HandshakeInv
  <2> QED BY <1>1, <2>3, <2>4
<1>15. CASE wire.c2a = Front("granted", "none", Data, g, y)
  <2>1. app'.next = "data" /\ app'.got = app.got /\ wire'.c2a = Seg(Data, g, y)
    BY <1>6, <1>13, <1>15 DEF Branch
  <2>2. Downwards(g, y)' BY <1>0, <1>1, <2>1 DEF Downwards, Data
  <2>3. CASE Early(y)
    <3>1. CASE c.closed
      <4>1. Early(y)' BY <1>0, <1>11, <2>3, <3>1 DEF Early
      <4> QED BY <4>1, <2>2, <1>3, <1>4, <1>8, <1>9, <1>0, <1>1 DEF HandshakeInv
    <3>2. CASE ~c.closed
      <4>1. ~Unread BY <1>0 DEF Unread
      <4>2. ~Greeted
        <5>1. wire.c2a[1][1] = "granted" BY <1>13, <1>15
        <5>2. Msg("method", "noauth")[1][1] = "method" BY DEF Msg
        <5> QED BY <1>0, <5>1, <5>2 DEF Greeted
      <4>3. Requesting /\ \E k6 \in Nat : Reading6(0, k6) BY <2>3, <3>2, <4>1, <4>2 DEF Early
      <4>4. Requesting' BY <1>0, <4>3, CfgSame DEF Requesting
      <4>5. \E k6 \in Nat : Reading6(0, k6)' BY <1>0, <1>3, <1>4, <1>7, <2>1, <4>3 DEF Reading6, All
      <4>6. Early(y)' BY <1>0, <1>11, <2>3, <4>4, <4>5 DEF Early
      <4> QED BY <4>6, <2>2, <1>3, <1>4, <1>8, <1>9, <1>0, <1>1 DEF HandshakeInv
    <3> QED BY <3>1, <3>2
  <2>4. CASE Late(y)
    <3>1. Late(y)' BY <1>0, <1>4, <1>7, <2>1, <2>4, LateKept
    <3> QED BY <3>1, <2>2, <1>3, <1>4, <1>8, <1>9, <1>0, <1>1 DEF HandshakeInv
  <2> QED BY <1>1, <2>3, <2>4
<1> QED BY <1>1, <1>12, <1>14, <1>15 DEF Downwards

LEMMA RemoteSendsInv == ASSUME HandshakeInv, RemoteSends PROVE HandshakeInv'
<1>0. /\ ConfigOK /\ Records /\ app.sent \in Nat /\ app.back \in Nat /\ Ends
      /\ s.channel = "connected" /\ ~s.closed /\ cfg' = cfg /\ c' = c /\ s' = s
  BY DEF HandshakeInv, RemoteSends
<1>1. PICK g, y \in Nat : Downwards(g, y) /\ (Early(y) \/ Late(y)) BY DEF HandshakeInv
<1>2. /\ IsApp(app') /\ app'.back = app.back + 1 /\ app'.sent = app.sent /\ app'.got = app.got
      /\ app'.next = app.next
  BY <1>0 DEF RemoteSends, Records, IsApp
<1>3. /\ IsWire(wire') /\ SameWires(wire', wire, {"r2s"})
      /\ wire'.r2s = wire.r2s \o Seg(Data, app.back, app.back + 1)
  <2>1. \A tokens : /\ IsWire(Sends("r2s", tokens)) /\ SameWires(Sends("r2s", tokens), wire, {"r2s"})
                    /\ Sends("r2s", tokens).r2s = wire.r2s \o tokens
    BY <1>0, WireStep DEF Records
  <2>2. Chunk(app.back + 1) = Seg(Data, app.back, app.back + 1) BY <1>0, NextData
  <2> QED BY <2>1, <2>2 DEF RemoteSends
<1>4. /\ wire'.a2c = wire.a2c /\ wire'.c2s = wire.c2s /\ wire'.s2c = wire.s2c
      /\ wire'.s2r = wire.s2r /\ wire'.c2a = wire.c2a
  BY <1>3 DEF SameWires
<1>5. Records' BY <1>0, <1>2, <1>3 DEF Records
<1>6. Ends' /\ ConfigOK' BY <1>0, CfgSame DEF Ends
<1>7. Downwards(g, y)' BY <1>0, <1>1, <1>2, <1>4 DEF Downwards, Data
<1>8. ~Early(y) BY <1>0 DEF Early, Untouched, InitialServer
<1>9. PICK k, place, at, k1, k3, k4, k5, z : LateAt(k, place, at, k1, k3, k4, k5, y, z)
  BY <1>1, <1>8 DEF Late
<1>10. /\ ClientAt(k, place, k4, k5) /\ ServerAt(k, place, at, k1, k3, k4)
       /\ Backwards(k, place, at, y, z)
  BY <1>9 DEF LateAt
<1>11. Streams(k, place, at, k1, k3, k4)
  BY <1>0, <1>10 DEF ServerAt, Idle, Half, Writes, Ahead, Nothing
<1>12. ClientAt(k, place, k4, k5)' BY <1>0, <1>2, <1>4, <1>10, ClientSame
<1>13. ServerAt(k, place, at, k1, k3, k4)'
  <2>1. Payload' = Payload /\ Knows(k, at)' = Knows(k, at) BY <1>0, CfgSame
  <2>2. Streams(k, place, at, k1, k3, k4)' BY <1>0, <1>4, <1>11, <2>1 DEF Streams
  <2> QED BY <1>0, <1>10, <1>11, <2>1, <2>2 DEF ServerAt, Streams
<1>14. Backwards(k, place, at, y, z)'
  <2>1. Answers(k, place, at)' = Answers(k, place, at) BY <1>0, RequestSame
  <2> SUFFICES ASSUME ~c.closed
               PROVE /\ z <= app.back + 1
                     /\ wire'.r2s = Seg(Data, z, app.back + 1)
    BY <1>0, <1>2, <1>4, <1>10, <2>1 DEF Backwards, Data
  <2>2. z \in Nat /\ z <= app.back /\ wire.r2s = Seg(Data, z, app.back) BY <1>0, <1>10 DEF Backwards
  <2>3. app.back + 1 \in Nat /\ app.back <= app.back + 1 /\ z <= app.back + 1 BY <1>0, <2>2
  <2> HIDE DEF Data
  <2>4. Seg(Data, z, app.back) \o Seg(Data, app.back, app.back + 1) = Seg(Data, z, app.back + 1)
    <3> DEFINE b == app.back  d == app.back + 1
    <3>1. b \in Nat /\ d \in Nat /\ b <= d /\ z <= b BY <1>0, <2>2, <2>3
    <3> HIDE DEF b, d
    <3>2. Seg(Data, z, b) \o Seg(Data, b, d) = Seg(Data, z, d) BY <2>2, <3>1, SegCat
    <3> QED BY <3>2 DEF b, d
  <2> QED BY <1>3, <2>2, <2>3, <2>4
<1>15. Late(y)' BY <1>9, <1>12, <1>13, <1>14 DEF Late, LateAt
<1> QED BY <1>0, <1>1, <1>2, <1>5, <1>6, <1>7, <1>15 DEF HandshakeInv

-----------------------------------------------------------------------------
(* A connection that ends. *)

\* The client ends before its channel is there.
LEMMA ClientEndsEarly ==
  ASSUME HandshakeInv, ~c.closed, c.channel # "connected", cfg' = cfg, app' = app, s' = s,
         NEW why, Reason(why), IsClient(c'), c'.closed = TRUE, c'.why = why,
         c'.channel # "connected", c'.upstream_ = c.upstream_, c'.awaits = c.awaits,
         IsWire(wire'), SameWires(wire', wire, {"a2c"})
  PROVE  HandshakeInv'
<1>0. /\ ConfigOK /\ Records /\ app.sent \in Nat /\ app.back \in Nat /\ Ends
  BY DEF HandshakeInv
<1>1. PICK g, y \in Nat : Downwards(g, y) /\ (Early(y) \/ Late(y)) BY DEF HandshakeInv
<1>2. Early(y) BY <1>1 DEF Late, LateAt, ClientAt
<1>3. /\ wire'.c2a = wire.c2a /\ wire'.c2s = wire.c2s /\ wire'.s2c = wire.s2c
      /\ wire'.s2r = wire.s2r /\ wire'.r2s = wire.r2s
  BY DEF SameWires
<1>4. Records' BY <1>0 DEF Records
<1>5. ConfigOK' /\ Reason(why)' BY <1>0, CfgSame
<1>6. s.closed = FALSE BY <1>2 DEF Early, Untouched, InitialServer
<1>7. Ends' BY <1>5, <1>6 DEF Ends
<1>8. Downwards(g, y)' BY <1>1, <1>3 DEF Downwards, Data
<1>9. Untouched' BY <1>2, <1>3 DEF Early, Untouched, InitialServer
<1>10. Early(y)' BY <1>9 DEF Early
<1> QED BY <1>0, <1>1, <1>4, <1>5, <1>7, <1>8, <1>10 DEF HandshakeInv

\* It ends behind that.
LEMMA ClientEndsLate ==
  ASSUME HandshakeInv, ~c.closed, c.channel = "connected", cfg' = cfg, app' = app, s' = s,
         NEW why, Reason(why) \/ (why = "peer" /\ s.closed), c' = Ended(c, why),
         IsWire(wire'), SameWires(wire', wire, {"s2c"})
  PROVE  HandshakeInv'
<1>0. /\ ConfigOK /\ Records /\ app.sent \in Nat /\ app.back \in Nat /\ Ends
  BY DEF HandshakeInv
<1>1. PICK g, y \in Nat : Downwards(g, y) /\ (Early(y) \/ Late(y)) BY DEF HandshakeInv
<1>2. PICK k, place, at, k1, k3, k4, k5, z : LateAt(k, place, at, k1, k3, k4, k5, y, z)
  BY <1>1 DEF Late, Early
<1>c. c.why = "none" BY <1>0 DEF Ends
<1>e. /\ IsClient(c') /\ c'.closed = TRUE /\ c'.why = why
      /\ c'.reads = c.reads /\ c'.channel = c.channel /\ c'.request_ = c.request_
      /\ c'.pending_data_ = c.pending_data_ /\ c'.upstream_ = c.upstream_ /\ c'.awaits = c.awaits
  <2>1. ClientEnded(Ended(c, why), c, why) BY <1>0, EndedClient DEF Records
  <2> QED BY <1>c, <2>1 DEF ClientEnded
<1>3. /\ wire'.c2a = wire.c2a /\ wire'.c2s = wire.c2s /\ wire'.a2c = wire.a2c
      /\ wire'.s2r = wire.s2r /\ wire'.r2s = wire.r2s
  BY DEF SameWires
<1>4. Records' BY <1>0, <1>e DEF Records
<1>5. ConfigOK' /\ Reason(why)' = Reason(why) /\ Reason(s.why)' = Reason(s.why) BY <1>0, CfgSame
<1>6. s.closed => Reason(s.why) BY <1>0 DEF Ends
<1>7. Ends' BY <1>5, <1>6, <1>e DEF Ends
<1>8. Downwards(g, y)' BY <1>1, <1>3, <1>e DEF Downwards, Data
<1>9. ClientAt(k, place, k4, k5)'
  <2>1. /\ UsedKinds' = UsedKinds /\ Awaited(k)' = Awaited(k) /\ Wanted(c.request_)' = Wanted(c.request_)
        /\ PayloadTail(k4, k5)' = PayloadTail(k4, k5)
    BY <1>e, CfgSame
  <2>2. Queue(k, place, PayloadTail(k4, k5))' = Queue(k, place, PayloadTail(k4, k5))
    BY <1>e, <2>1, RequestSame
  <2>3. ClientAt(k, place, k4, k5) BY <1>2 DEF LateAt
  <2> QED BY <1>e, <2>1, <2>2, <2>3 DEF ClientAt
<1>10. ServerAt(k, place, at, k1, k3, k4)' BY <1>2, <1>3, <1>e, ServerSame DEF LateAt
<1>11. Backwards(k, place, at, y, z)' BY <1>e DEF Backwards
<1>12. Late(y)' BY <1>2, <1>9, <1>10, <1>11 DEF Late, LateAt
<1> QED BY <1>0, <1>1, <1>4, <1>5, <1>7, <1>8, <1>12 DEF HandshakeInv

\* The server ends.
LEMMA ServerEndsInv ==
  ASSUME HandshakeInv, ~s.closed, cfg' = cfg, app' = app, c' = c,
         NEW why, s' = Ended(s, why),
         Reason(IF s.why = "none" THEN why ELSE s.why) \/ (why = "peer" /\ c.closed),
         IsWire(wire'), SameWires(wire', wire, {"c2s", "s2c"}), ~c.closed => wire'.s2c = wire.s2c,
         NEW g \in Nat, NEW y \in Nat, Downwards(g, y), Late(y)
  PROVE  HandshakeInv'
<1>0. /\ ConfigOK /\ Records /\ app.sent \in Nat /\ app.back \in Nat /\ Ends
  BY DEF HandshakeInv
<1>2. PICK k, place, at, k1, k3, k4, k5, z : LateAt(k, place, at, k1, k3, k4, k5, y, z)
  BY DEF Late
<1>s. ServerAt(k, place, at, k1, k3, k4) /\ ClientAt(k, place, k4, k5) /\ Backwards(k, place, at, y, z)
  BY <1>2 DEF LateAt
<1>e. /\ IsServer(s') /\ s'.closed = TRUE /\ s'.why = (IF s.why = "none" THEN why ELSE s.why)
      /\ s'.stage = s.stage /\ s'.handshake_pending_buf_ = s.handshake_pending_buf_
      /\ s'.chunk = s.chunk /\ s'.channel = s.channel /\ s'.request_ = s.request_
      /\ s'.upstream_ = s.upstream_
  <2>1. ServerEnded(Ended(s, why), s, why) BY <1>0, EndedServer DEF Records
  <2> QED BY <2>1 DEF ServerEnded
<1>3. /\ wire'.c2a = wire.c2a /\ wire'.a2c = wire.a2c
      /\ wire'.s2r = wire.s2r /\ wire'.r2s = wire.r2s
  BY DEF SameWires
<1>4. Records' BY <1>0, <1>e DEF Records
<1>5. ConfigOK' /\ \A w : Reason(w)' = Reason(w) BY <1>0, CfgSame
<1>6. c.closed => Reason(c.why) BY <1>0 DEF Ends
<1>w. s.why \in {"none", "spurious"} BY <1>s DEF ServerAt
<1>7. Ends'
  <2>1. IF c.closed THEN Reason(c.why)' ELSE c.why = "none" BY <1>0, <1>5, <1>6 DEF Ends
  <2>2. CASE Reason(IF s.why = "none" THEN why ELSE s.why) BY <1>5, <1>e, <2>1, <2>2 DEF Ends
  <2>3. CASE why = "peer" /\ c.closed
    <3>1. Reason("spurious") BY DEF Reason
    <3> QED BY <1>5, <1>6, <1>e, <1>w, <2>1, <2>3, <3>1 DEF Ends
  <2> QED BY <2>2, <2>3
<1>8. Downwards(g, y)' BY <1>3 DEF Downwards, Data
<1>9. ClientAt(k, place, k4, k5)' BY <1>3, <1>s, ClientSame
<1>10. ServerAt(k, place, at, k1, k3, k4)'
  <2>1. Carried(k)' = Carried(k) /\ Payload' = Payload /\ NextKind(k)' = NextKind(k) /\ Knows(k, at)' = Knows(k, at)
    BY CfgSame, RequestSame
  <2>2. Nothing' = Nothing BY <1>3, <1>e DEF Nothing
  <2>3. CASE Idle(k, place, at, k4)
    <3>1. Idle(k, place, at, k4)' BY <1>e, <2>1, <2>2, <2>3 DEF Idle
    <3> QED BY <1>e, <1>s, <2>1, <3>1 DEF ServerAt
  <2>4. CASE Half(k, place, at, k4)
    <3>1. Half(k, place, at, k4)' BY <1>e, <2>1, <2>2, <2>4 DEF Half
    <3> QED BY <1>e, <1>s, <2>1, <3>1 DEF ServerAt
  <2>5. CASE Writes(k, place, at, k3, k4)
    <3>1. Writes(k, place, at, k3, k4)' BY <1>3, <1>e, <2>1, <2>5 DEF Writes
    <3> QED BY <1>e, <1>s, <2>1, <3>1 DEF ServerAt
  <2>6. CASE Ahead(k, place, at)
    <3>1. Ahead(k, place, at)' BY <1>e, <2>1, <2>2, <2>6 DEF Ahead
    <3> QED BY <1>e, <1>s, <2>1, <3>1 DEF ServerAt
  <2>7. CASE Streams(k, place, at, k1, k3, k4)
    <3>1. Streams(k, place, at, k1, k3, k4)' BY <1>3, <1>e, <2>1, <2>7 DEF Streams
    <3> QED BY <1>e, <1>s, <2>1, <3>1 DEF ServerAt
  <2> QED BY <1>s, <2>3, <2>4, <2>5, <2>6, <2>7 DEF ServerAt
<1>11. Backwards(k, place, at, y, z)' BY <1>3, <1>s, BackSame
<1>12. Late(y)' BY <1>2, <1>9, <1>10, <1>11 DEF Late, LateAt
<1> QED BY <1>0, <1>4, <1>5, <1>7, <1>8, <1>12 DEF HandshakeInv

-----------------------------------------------------------------------------
(* The client: the request of the application. *)

\* What it may ask the server for.
LEMMA MayAsk ==
  ASSUME ConfigOK, NEW dest, dest \notin {"none", "self"},
         dest = cfg.dest \/ (cfg.front = "redir" /\ dest = "domain")
  PROVE  IF dest = "domain" /\ CIPHER_METHOD_IS_SOCKS_NON_DOMAIN_NAME(cfg.method)
           THEN \A d \in {"ipv4", "ipv6"} : Wanted(d) ELSE Wanted(dest)
BY DEF ConfigOK, AllDestinations, Wanted, Meant, CIPHER_METHOD_IS_SOCKS_NON_DOMAIN_NAME

\* The client once its request is known: pending is what came behind it.
Requested(d, x, dest, pending) ==
  /\ IsClient(d) /\ d.closed = x.closed /\ d.why = x.why /\ d.upstream_ = x.upstream_
  /\ d.awaits = x.awaits /\ d.reads \in {"no", "stream"}
  /\ d.pending_data_ = pending
  /\ IF dest = "domain" /\ CIPHER_METHOD_IS_SOCKS_NON_DOMAIN_NAME(cfg.method)
       THEN d.channel = "resolving" ELSE d.channel = "connecting" /\ d.request_ = dest

LEMMA RequestedIs ==
  ASSUME IsClient(c), c.pending_data_ = << >>, NEW dest, NEW buf, << >> \o buf = buf
  PROVE  Requested(HandleStream(OnCmdConnect(dest), buf), c, dest, buf)
<1> DEFINE x == OnCmdConnect(dest)  d == HandleStream(x, buf)
<1>1. /\ IsClient(x) /\ x.closed = c.closed /\ x.why = c.why /\ x.upstream_ = c.upstream_
      /\ x.awaits = c.awaits /\ x.pending_data_ = c.pending_data_
      /\ IF dest = "domain" /\ CIPHER_METHOD_IS_SOCKS_NON_DOMAIN_NAME(cfg.method)
           THEN x.channel = "resolving" ELSE x.channel = "connecting" /\ x.request_ = dest
  BY DEF OnCmdConnect, IsClient
<1> HIDE DEF x
<1>2. /\ IsClient(d) /\ d.closed = x.closed /\ d.why = x.why /\ d.upstream_ = x.upstream_
      /\ d.awaits = x.awaits /\ d.channel = x.channel /\ d.request_ = x.request_
      /\ d.reads \in {"no", "stream"}
      /\ d.pending_data_ = IF buf = << >> THEN x.pending_data_ ELSE x.pending_data_ \o buf
  BY <1>1 DEF HandleStream, IsClient
<1> HIDE DEF d
<1>3. d.pending_data_ = buf BY <1>1, <1>2
<1> QED BY <1>1, <1>2, <1>3 DEF Requested, d, x

\* A redirected connection, whose buffer is processed twice.
LEMMA RequestedAgain ==
  ASSUME NEW x, NEW d, NEW dest, NEW buf, buf # << >>, Requested(d, x, dest, buf)
  PROVE  Requested(HandleAgain(d, buf), x, dest, IF cfg.method = "ss" THEN buf \o buf ELSE buf)
<1>1. CASE cfg.method # "ss" BY <1>1 DEF HandleAgain
<1>2. CASE cfg.method = "ss"
  <2> DEFINE e == HandleAgain(d, buf)
  <2>1. /\ IsClient(e) /\ e.closed = d.closed /\ e.why = d.why /\ e.upstream_ = d.upstream_
        /\ e.awaits = d.awaits /\ e.channel = d.channel /\ e.request_ = d.request_
        /\ e.reads = "no" /\ e.pending_data_ = d.pending_data_ \o buf
    BY <1>2 DEF HandleAgain, HandleStream, IsClient, Requested
  <2> HIDE DEF e
  <2> QED BY <1>2, <2>1 DEF Requested, e
<1> QED BY <1>1, <1>2

LEMMA EmptyBefore ==
  ASSUME NEW e, NEW a, NEW b, a \in Nat, b \in Nat, a <= b
  PROVE  << >> \o Seg(e, a, b) = Seg(e, a, b)
<1>1. Seg(e, a, a) = << >> BY SegEmpty
<1> QED BY <1>1, SegCat

LEMMA Granted ==
  ASSUME HandshakeInv, ~c.closed, c.reads \in {"method", "socks5"}, c.pending_data_ = << >>,
         cfg' = cfg, app' = app, s' = s, wire.c2a = << >>,
         NEW dest, dest \notin {"none", "self"}, dest = cfg.dest \/ (cfg.front = "redir" /\ dest = "domain"),
         NEW m, m \in Nat, m <= All, Requested(c', c, dest, Seg(Payload, 0, m)),
         IsWire(wire'), SameWires(wire', wire, {"a2c", "c2a"}), wire'.a2c = Seg(Payload, m, All),
         wire'.c2a \in {<< >>, Msg("granted", "none")}, app.next \in {"wait", "data"}
  PROVE  HandshakeInv'
<1>0. /\ ConfigOK /\ Records /\ app.sent \in Nat /\ app.back \in Nat /\ Ends
  BY DEF HandshakeInv
<1>1. PICK g, y \in Nat : Downwards(g, y) /\ (Early(y) \/ Late(y)) BY DEF HandshakeInv
<1>2. Early(y) BY <1>1 DEF Late, LateAt, ClientAt
<1>y. y = 0 /\ g = 0 /\ app.got = Seg(Data, 0, 0) BY <1>1, <1>2 DEF Early, Downwards
<1>3. /\ wire'.c2s = wire.c2s /\ wire'.s2c = wire.s2c
      /\ wire'.s2r = wire.s2r /\ wire'.r2s = wire.r2s
  BY DEF SameWires
<1> DEFINE buf == Seg(Payload, 0, m)
<1>e. Requested(c', c, dest, buf) OBVIOUS
<1>4. Records' BY <1>0, <1>e DEF Records, Requested
<1>5. ConfigOK' /\ Payload' = Payload /\ (\A w : Reason(w)' = Reason(w)) /\ (\A w : Wanted(w)' = Wanted(w))
  BY <1>0, CfgSame
<1>6. All' = All BY <1>0, CfgSame DEF All
<1>7. Ends' BY <1>0, <1>5, <1>e DEF Ends, Requested
<1>8. Downwards(g, y)'
  <2>1. Seg(Data, 0, 0) = << >> /\ Front("granted", "none", Data, 0, 0) = Msg("granted", "none")
    <3> HIDE DEF Data
    <3> QED BY SegEmpty, FrontAlone
  <2> QED BY <1>y, <2>1 DEF Downwards, Data
<1>9. Untouched' BY <1>2, <1>3, <1>e DEF Early, Untouched, InitialServer, Requested
<1>10. c'.pending_data_ = Seg(Payload, 0, m)
  BY <1>e DEF Requested
<1>11. Reading6(0, m)'
  BY <1>5, <1>6, <1>10 DEF Reading6
<1>12. Requesting'
  <2>1. IF dest = "domain" /\ CIPHER_METHOD_IS_SOCKS_NON_DOMAIN_NAME(cfg.method)
           THEN \A d \in {"ipv4", "ipv6"} : Wanted(d) ELSE Wanted(dest)
    BY <1>0, MayAsk
  <2>2. /\ c'.reads \in {"no", "stream"}
        /\ IF dest = "domain" /\ CIPHER_METHOD_IS_SOCKS_NON_DOMAIN_NAME(cfg.method)
             THEN c'.channel = "resolving" ELSE c'.channel = "connecting" /\ c'.request_ = dest
    BY <1>e DEF Requested
  <2> QED BY <1>5, <2>1, <2>2 DEF Requesting
<1>13. Early(y)' BY <1>9, <1>11, <1>12, <1>y DEF Early, Requesting
<1> QED BY <1>0, <1>1, <1>4, <1>5, <1>7, <1>8, <1>13 DEF HandshakeInv

LEMMA OnResolveInv == ASSUME HandshakeInv, OnResolve PROVE HandshakeInv'
<1>0. /\ ConfigOK /\ Records /\ app.sent \in Nat /\ app.back \in Nat /\ Ends
      /\ ~c.closed /\ c.channel = "resolving" /\ cfg' = cfg /\ s' = s /\ app' = app /\ wire' = wire
  BY DEF HandshakeInv, OnResolve
<1>s. IsWire(wire') /\ SameWires(wire', wire, {"a2c"}) BY <1>0 DEF Records, SameWires
<1>1. CASE c' = Ended(c, "resolve")
  <2>1. ClientEnded(Ended(c, "resolve"), c, "resolve") BY <1>0, EndedClient DEF Records
  <2>2. c.why = "none" BY <1>0 DEF Ends
  <2>3. Reason("resolve") BY DEF Reason
  <2> DEFINE why == "resolve"
  <2>4. /\ IsClient(c') /\ c'.closed = TRUE /\ c'.why = why
        /\ c'.channel # "connected" /\ c'.upstream_ = c.upstream_ /\ c'.awaits = c.awaits
    BY <1>0, <1>1, <2>1, <2>2 DEF ClientEnded
  <2> QED BY <1>0, <1>s, <2>3, <2>4, ClientEndsEarly
<1>2. CASE \E dest \in {"ipv4", "ipv6"} : c' = [c EXCEPT !.channel = "connecting", !.request_ = dest]
  <2>1. PICK dest \in {"ipv4", "ipv6"} : c' = [c EXCEPT !.channel = "connecting", !.request_ = dest]
    BY <1>2
  <2>2. /\ IsClient(c') /\ c'.closed = c.closed /\ c'.why = c.why /\ c'.reads = c.reads
        /\ c'.channel = "connecting" /\ c'.request_ = dest /\ c'.pending_data_ = c.pending_data_
        /\ c'.upstream_ = c.upstream_ /\ c'.awaits = c.awaits
    BY <1>0, <2>1 DEF Records, IsClient
  <2>3. PICK g, y \in Nat : Downwards(g, y) /\ (Early(y) \/ Late(y)) BY DEF HandshakeInv
  <2>4. Early(y) BY <1>0, <2>3 DEF Late, LateAt, ClientAt
  <2>5. Requesting /\ \E k6 \in Nat : Reading6(0, k6)
    BY <1>0, <2>4 DEF Early, Unread, Greeted, InitialClient
  <2>6. Requesting' BY <1>0, <2>2, <2>5, CfgSame DEF Requesting
  <2>7. \E k6 \in Nat : Reading6(0, k6)' BY <1>0, <2>2, <2>5, CfgSame DEF Reading6, All
  <2>8. Untouched' BY <1>0, <2>2, <2>4 DEF Early, Untouched, InitialServer
  <2>9. Early(y)' BY <1>0, <2>2, <2>4, <2>6, <2>7, <2>8 DEF Early
  <2>10. Records' /\ ConfigOK' /\ Ends' BY <1>0, <2>2, CfgSame DEF Records, Ends
  <2>11. Downwards(g, y)' BY <1>0, <2>2, <2>3 DEF Downwards, Data
  <2> QED BY <1>0, <2>3, <2>9, <2>10, <2>11 DEF HandshakeInv
<1> QED BY <1>1, <1>2 DEF OnResolve

LEMMA connect_failedInv == ASSUME HandshakeInv, connect_failed PROVE HandshakeInv'
<1>0. /\ ConfigOK /\ Records /\ app.sent \in Nat /\ app.back \in Nat /\ Ends
      /\ ~c.closed /\ c.channel = "connecting" /\ cfg' = cfg /\ s' = s /\ app' = app /\ wire' = wire
  BY DEF HandshakeInv, connect_failed
<1>s. IsWire(wire') /\ SameWires(wire', wire, {"a2c"}) BY <1>0 DEF Records, SameWires
<1> DEFINE x == [c EXCEPT !.channel = "none"]  why == "connect"
<1>1. IsClient(x) /\ x.channel = "none" /\ x.why = c.why /\ x.upstream_ = c.upstream_ /\ x.awaits = c.awaits
  BY <1>0 DEF Records, IsClient
<1>2. c' = Ended(x, why) BY DEF connect_failed
<1>3. Reason(why) BY DEF Reason
<1>4. x.why = "none" BY <1>0, <1>1 DEF Ends
<1> HIDE DEF x, why
<1>5. ClientEnded(Ended(x, why), x, why) BY <1>1, EndedClient
<1>6. /\ IsClient(c') /\ c'.closed = TRUE /\ c'.why = why
      /\ c'.channel # "connected" /\ c'.upstream_ = c.upstream_ /\ c'.awaits = c.awaits
  BY <1>1, <1>2, <1>4, <1>5 DEF ClientEnded
<1> QED BY <1>0, <1>s, <1>3, <1>6, ClientEndsEarly

LEMMA ReadStreamInv == ASSUME HandshakeInv, ReadStream PROVE HandshakeInv'
<1>0. /\ ConfigOK /\ Records /\ app.sent \in Nat /\ app.back \in Nat /\ Ends
      /\ ~c.closed /\ c.channel \in {"resolving", "connecting"} /\ cfg' = cfg /\ s' = s /\ app' = app
  BY DEF HandshakeInv, ReadStream
<1>1. PICK n \in 1 .. Len(wire.a2c) : /\ c' = [c EXCEPT !.pending_data_ = @ \o First(wire.a2c, n)]
                                      /\ wire' = Taken("a2c", n)
  BY DEF ReadStream
<1>2. /\ IsClient(c') /\ c'.closed = c.closed /\ c'.why = c.why /\ c'.reads = c.reads
      /\ c'.channel = c.channel /\ c'.request_ = c.request_
      /\ c'.pending_data_ = c.pending_data_ \o First(wire.a2c, n)
      /\ c'.upstream_ = c.upstream_ /\ c'.awaits = c.awaits
  BY <1>0, <1>1 DEF Records, IsClient
<1>3. PICK g, y \in Nat : Downwards(g, y) /\ (Early(y) \/ Late(y)) BY DEF HandshakeInv
<1>4. Early(y) BY <1>0, <1>3 DEF Late, LateAt, ClientAt
<1>5. Requesting /\ \E k6 \in Nat : Reading6(0, k6)
  BY <1>0, <1>4 DEF Early, Unread, Greeted, InitialClient
<1>6. PICK k6 \in Nat : Reading6(0, k6) BY <1>5
<1>7. /\ IsWire(wire') /\ wire'.a2c = Rest(wire.a2c, n) /\ SameWires(wire', wire, {"a2c"})
  BY <1>0, <1>1, WireStep DEF Records
<1>8. /\ wire'.c2a = wire.c2a /\ wire'.c2s = wire.c2s /\ wire'.s2c = wire.s2c
      /\ wire'.s2r = wire.s2r /\ wire'.r2s = wire.r2s
  BY <1>7 DEF SameWires
<1>9. Reading6(0, k6 + n)'
  <2> DEFINE e == Payload  b == All
  <2>1. /\ k6 <= b /\ c.pending_data_ = Seg(e, 0, k6) /\ wire.a2c = Seg(e, k6, b)
        /\ app.next \in {"wait", "data"} /\ b \in Nat
    BY <1>0, <1>6, NextChunk DEF Reading6
  <2>2. Payload' = e /\ All' = b BY <1>0, CfgSame DEF All
  <2> HIDE DEF e, b
  <2>3. IsPiece(Seg(e, k6, b), e, k6, b) BY <2>1, SegType
  <2>4. n \in 0 .. b - k6 /\ n \in Nat BY <1>1, <2>1, <2>3 DEF IsPiece
  <2>5. Cuts(e, k6, b, n) BY <2>1, <2>4, SegRead
  <2> DEFINE d == k6 + n
  <2>6. d \in Nat /\ k6 <= d /\ d <= b /\ 0 \in Nat /\ 0 <= k6 BY <2>1, <2>4
  <2>7. First(wire.a2c, n) = Seg(e, k6, d) /\ Rest(wire.a2c, n) = Seg(e, d, b) BY <2>1, <2>5 DEF Cuts
  <2> HIDE DEF d
  <2>8. Seg(e, 0, k6) \o Seg(e, k6, d) = Seg(e, 0, d) BY <2>6, SegCat
  <2>9. /\ c'.pending_data_ = Seg(e, 0, d) /\ wire'.a2c = Seg(e, d, b)
    BY <1>2, <1>7, <2>1, <2>7, <2>8
  <2>10. Reading6(0, d)' BY <1>0, <2>1, <2>2, <2>6, <2>9 DEF Reading6
  <2> QED BY <2>10 DEF d
<1>10. k6 + n \in Nat BY <1>1
<1>11. Requesting' BY <1>0, <1>2, <1>5, CfgSame DEF Requesting
<1>12. Untouched' BY <1>0, <1>2, <1>4, <1>8 DEF Early, Untouched, InitialServer
<1>13. Early(y)' BY <1>0, <1>2, <1>4, <1>9, <1>10, <1>11, <1>12 DEF Early
<1>14. Records' /\ ConfigOK' /\ Ends' BY <1>0, <1>2, <1>7, CfgSame DEF Records, Ends
<1>15. Downwards(g, y)' BY <1>0, <1>2, <1>3, <1>8 DEF Downwards, Data
<1> QED BY <1>0, <1>3, <1>13, <1>14, <1>15 DEF HandshakeInv

\* A read that no parser takes.
LEMMA RefusedInv ==
  ASSUME HandshakeInv, ~c.closed, c.channel # "connected", cfg' = cfg, app' = app, s' = s,
         NEW n, NEW why, Reason(why), c' = Ended(c, why), wire' = Taken("a2c", n)
  PROVE  HandshakeInv'
<1>0. Records /\ Ends BY DEF HandshakeInv
<1>1. ClientEnded(Ended(c, why), c, why) BY <1>0, EndedClient DEF Records
<1>2. c.why = "none" BY <1>0 DEF Ends
<1>3. IsWire(wire') /\ SameWires(wire', wire, {"a2c"}) BY <1>0, WireStep DEF Records
<1>4. /\ IsClient(c') /\ c'.closed = TRUE /\ c'.why = why
      /\ c'.channel # "connected" /\ c'.upstream_ = c.upstream_ /\ c'.awaits = c.awaits
  BY <1>1, <1>2 DEF ClientEnded
<1> QED BY <1>3, <1>4, ClientEndsEarly

\* A request that was read whole, with m chunks of payload up to the end of the
\* read, all told.
LEMMA PerformInv ==
  ASSUME HandshakeInv, ~c.closed, c.channel # "connected", c.reads \in {"method", "socks5"},
         c.pending_data_ = << >>, cfg' = cfg, app' = app, s' = s, wire.c2a = << >>,
         app.next \in {"wait", "data"}, cfg.front # "redir",
         NEW buf, NEW n, NEW reply, reply \in {<< >>, Msg("granted", "none")}, What(buf) = cfg.dest,
         NEW m, m \in Nat, m <= All, NEW behind, behind = Seg(Payload, 0, m),
         Rest(wire.a2c, n) = Seg(Payload, m, All),
         PerformCmdOps(buf, n, reply, behind)
  PROVE  HandshakeInv'
<1>0. ConfigOK /\ Records BY DEF HandshakeInv
<1>1. CASE What(buf) = "none"
  <2> DEFINE why == "destination"
  <2>1. c' = Ended(c, why) /\ wire' = Taken("a2c", n) BY <1>1 DEF PerformCmdOps
  <2>2. Reason(why) BY <1>1 DEF Reason
  <2> HIDE DEF why
  <2> QED BY <2>1, <2>2, RefusedInv
<1>2. CASE What(buf) # "none"
  <2>1. /\ c' = HandleStream(OnCmdConnect(cfg.dest), behind)
        /\ wire' = [Taken("a2c", n) EXCEPT !.c2a = @ \o reply]
    BY <1>2 DEF PerformCmdOps
  <2>2. IsWire(wire') /\ wire'.a2c = Rest(wire.a2c, n) /\ wire'.c2a = << >> \o reply
    BY <1>0, <2>1 DEF Records, IsWire, Taken
  <2>3. SameWires(wire', wire, {"a2c", "c2a"})
    BY <1>0, <2>1 DEF Records, IsWire, Taken, SameWires
  <2>4. wire'.c2a \in {<< >>, Msg("granted", "none")} BY <2>2 DEF Msg
  <2> DEFINE dest == cfg.dest
  <2>5. dest \notin {"none", "self"} BY <1>0, <1>2 DEF ConfigOK
  <2>7. Requested(c', c, dest, Seg(Payload, 0, m))
    <3> DEFINE e == Payload
    <3>1. c' = HandleStream(OnCmdConnect(dest), Seg(e, 0, m)) BY <2>1
    <3> HIDE DEF dest, e
    <3>2. << >> \o Seg(e, 0, m) = Seg(e, 0, m) BY EmptyBefore
    <3>3. Requested(HandleStream(OnCmdConnect(dest), Seg(e, 0, m)), c, dest, Seg(e, 0, m))
      <4> DEFINE b == Seg(e, 0, m)
      <4>1. << >> \o b = b BY <3>2
      <4> HIDE DEF b
      <4>2. Requested(HandleStream(OnCmdConnect(dest), b), c, dest, b) BY <1>0, <4>1, RequestedIs DEF Records
      <4> QED BY <4>2 DEF b
    <3> QED BY <3>1, <3>3 DEF e
  <2>6. dest = cfg.dest \/ (cfg.front = "redir" /\ dest = "domain") OBVIOUS
  <2> HIDE DEF dest
  <2> QED BY <2>2, <2>3, <2>4, <2>5, <2>6, <2>7, Granted
<1> QED BY <1>1, <1>2

\* The request of an application in front of its payload, read.
LEMMA RequestReadInv ==
  ASSUME HandshakeInv, ~c.closed, c.channel # "connected", c.reads \in {"method", "socks5"},
         c.pending_data_ = << >>, cfg' = cfg, app' = app, s' = s, wire.c2a = << >>,
         app.next \in {"wait", "data"},
         NEW k, wire.a2c = Front(k, cfg.dest, Payload, Base, All),
         (k = "get") <=> (cfg.front = "plain"), cfg.front # "redir",
         NEW n, n \in 1 .. Len(wire.a2c), NEW kinds, k \in kinds,
         NEW buf, buf = First(wire.a2c, n),
         \/ Starts(buf, k) /\ k # "get" /\ PerformCmdOps(buf, n, Msg("granted", "none"), Behind(buf))
         \/ Starts(buf, k) /\ k = "get" /\ PerformCmdOps(buf, n, << >>, ReforgeHttpRequest(buf) \o Behind(buf))
         \/ Refused(buf, n, kinds)
  PROVE  HandshakeInv'
<1>0. ConfigOK /\ app.sent \in Nat BY DEF HandshakeInv
<1> DEFINE e == Payload  a == Base  b == All  w == cfg.dest
<1>1. a \in Nat /\ b \in Nat /\ a <= b BY <1>0, NextChunk
<1>2. Reads(wire.a2c, n, k, w, e, a, b)
  <2> HIDE DEF e, a, b, w
  <2>1. wire.a2c = Front(k, w, e, a, b) BY DEF w, e, a, b
  <2>2. n \in 1 .. Len(Front(k, w, e, a, b)) BY <2>1
  <2>3. Reads(Front(k, w, e, a, b), n, k, w, e, a, b) BY <1>1, <2>2, ReadFront
  <2> QED BY <2>1, <2>3
<1>3. CASE n = 1
  <2>1. buf = << <<k, w, 1>> >> BY <1>2, <1>3 DEF Reads
  <2>2. LET x == << <<k, w, 1>> >> IN x # << >> /\ Cause(x) = "split" /\ \A kind : ~Starts(x, kind)
    <3> HIDE DEF w
    <3> QED BY ParseHalf
  <2>3. ~Starts(buf, k) /\ Cause(buf) = "split" BY <2>1, <2>2
  <2> DEFINE why == "split"
  <2>4. c' = Ended(c, why) /\ wire' = Taken("a2c", n) BY <2>3 DEF Refused
  <2>5. Reason(why) BY DEF Reason
  <2> HIDE DEF why
  <2> QED BY <2>4, <2>5, RefusedInv
<1>4. CASE n # 1
  <2> DEFINE j == n - 2  d == a + j
  <2>1. /\ j \in Nat /\ d \in Nat /\ a <= d /\ d <= b
        /\ buf = Front(k, w, e, a, d) /\ Rest(wire.a2c, n) = Seg(e, d, b)
    <3> HIDE DEF a, b, e, w
    <3> QED BY <1>2, <1>4 DEF Reads
  <2>2. Parsed(buf, k, w, Seg(e, a, d))
    <3> HIDE DEF e, a, d, w
    <3> QED BY <1>1, <2>1, ParseFront
  <2>3. Starts(buf, k) /\ What(buf) = w /\ Behind(buf) = Seg(e, a, d) BY <2>2 DEF Parsed
  <2>4. ~Refused(buf, n, kinds) BY <2>3 DEF Refused
  <2> DEFINE reply == IF k = "get" THEN << >> ELSE Msg("granted", "none")
             behind == IF k = "get" THEN ReforgeHttpRequest(buf) \o Behind(buf) ELSE Behind(buf)
  <2>5. PerformCmdOps(buf, n, reply, behind)
    <3>1. CASE k = "get" BY <2>4, <3>1
    <3>2. CASE k # "get" BY <2>4, <3>2
    <3> QED BY <3>1, <3>2
  <2>6. behind = Seg(e, 0, d)
    <3>1. CASE k # "get"
      <4>1. a = 0 BY <3>1 DEF Base
      <4> QED BY <2>3, <3>1, <4>1
    <3>2. CASE k = "get"
      <4>1. a = 1 /\ cfg.front = "plain" BY <3>2 DEF Base
      <4>2. e[1] = <<"forward", w, 0>> BY <4>1 DEF Payload
      <4>3. ReforgeHttpRequest(buf) = << e[1] >> BY <2>3, <4>2 DEF ReforgeHttpRequest
      <4>4. 1 <= d BY <2>1, <4>1
      <4>5. Seg(e, 0, 1) = << e[1] >>
        <5> HIDE DEF e
        <5> QED BY DEF Seg
      <4>6. Seg(e, 0, 1) \o Seg(e, 1, d) = Seg(e, 0, d)
        <5>1. 0 \in Nat /\ 1 \in Nat /\ 0 <= 1 OBVIOUS
        <5> HIDE DEF e, d
        <5> QED BY <2>1, <4>4, <5>1, SegCat
      <4> QED BY <2>3, <3>2, <4>1, <4>3, <4>5, <4>6
    <3> QED BY <3>1, <3>2
  <2>7. reply \in {<< >>, Msg("granted", "none")} OBVIOUS
  <2> HIDE DEF reply, behind, d
  <2> QED BY <2>1, <2>3, <2>5, <2>6, <2>7, PerformInv
<1> QED BY <1>3, <1>4

LEMMA ReadSocks5HandshakeInv == ASSUME HandshakeInv, ReadSocks5Handshake PROVE HandshakeInv'
<1>0. /\ ConfigOK /\ Records /\ ~c.closed /\ c.reads = "socks5" /\ cfg' = cfg /\ s' = s /\ app' = app
  BY DEF HandshakeInv, ReadSocks5Handshake
<1>1. PICK n \in 1 .. Len(wire.a2c) :
        LET buf == First(wire.a2c, n) IN OnReadSocks5Handshake(buf, n) \/ Refused(buf, n, {"req5"})
  BY DEF ReadSocks5Handshake
<1>2. PICK g, y \in Nat : Downwards(g, y) /\ (Early(y) \/ Late(y)) BY DEF HandshakeInv
<1>3. Greeted BY <1>0, <1>2 DEF Late, LateAt, ClientAt, Early, Unread, InitialClient, Requesting
<1>4. wire.a2c # << >> BY <1>1
<1>5. /\ cfg.front = "socks5" /\ Asked /\ wire.c2a = << >>
      /\ wire.a2c = Front("req5", cfg.dest, Payload, Base, All)
      /\ c.channel # "connected" /\ c.pending_data_ = << >>
  BY <1>3, <1>4 DEF Greeted, InitialClient
<1> DEFINE k == "req5"  kinds == {"req5"}  buf == First(wire.a2c, n)
<1>6. /\ (k = "get") <=> (cfg.front = "plain")
      /\ k \in kinds /\ k # "get" /\ wire.a2c = Front(k, cfg.dest, Payload, Base, All)
      /\ app.next \in {"wait", "data"}
  BY <1>5 DEF Asked
<1>7. \/ Starts(buf, k) /\ k # "get" /\ PerformCmdOps(buf, n, Msg("granted", "none"), Behind(buf))
      \/ Starts(buf, k) /\ k = "get" /\ PerformCmdOps(buf, n, << >>, ReforgeHttpRequest(buf) \o Behind(buf))
      \/ Refused(buf, n, kinds)
  BY <1>1 DEF OnReadSocks5Handshake
<1>8. buf = First(wire.a2c, n) /\ n \in 1 .. Len(wire.a2c) /\ c.reads \in {"method", "socks5"} BY <1>0, <1>1
<1> HIDE DEF k, kinds, buf
<1> QED BY <1>0, <1>5, <1>6, <1>7, <1>8, RequestReadInv

\* The greeting of an application is answered.
LEMMA GreetingInv ==
  ASSUME HandshakeInv, ~c.closed, c = InitialClient, cfg' = cfg, app' = app, s' = s, wire.c2a = << >>,
         cfg.front = "socks5", app.next = "wait", app.sent = 0, wire.a2c = Msg("greet", "noauth"),
         NEW n, n \in 1 .. Len(wire.a2c), NEW buf, buf = First(wire.a2c, n),
         OnReadSocks5MethodSelect(buf, n) \/ Refused(buf, n, {"greet", "req4", "http", "get"})
  PROVE  HandshakeInv'
<1>0. /\ ConfigOK /\ Records /\ app.sent \in Nat /\ app.back \in Nat /\ Ends /\ c.channel # "connected"
  BY DEF HandshakeInv, InitialClient
<1> DEFINE e == Payload  k == "greet"  w == "noauth"
<1>1. wire.a2c = Front(k, w, e, 0, 0) /\ Seg(e, 0, 0) = << >>
  <2> HIDE DEF e
  <2> QED BY FrontAlone, SegEmpty
<1> HIDE DEF e, k, w
<1>r. Reads(wire.a2c, n, k, w, e, 0, 0)
  <2>1. 0 \in Nat /\ 0 <= 0 /\ n \in 1 .. Len(Front(k, w, e, 0, 0)) BY <1>1
  <2>2. Reads(Front(k, w, e, 0, 0), n, k, w, e, 0, 0) BY <2>1, ReadFront
  <2> QED BY <1>1, <2>2
<1>2. CASE n = 1
  <2>1. buf = << <<k, w, 1>> >> BY <1>r, <1>2 DEF Reads
  <2>2. LET x == << <<k, w, 1>> >> IN x # << >> /\ Cause(x) = "split" /\ \A kind : ~Starts(x, kind)
    BY ParseHalf
  <2>3. ~Starts(buf, "greet") /\ Cause(buf) = "split" BY <2>1, <2>2
  <2> DEFINE why == "split"
  <2>4. c' = Ended(c, why) /\ wire' = Taken("a2c", n) BY <2>3 DEF Refused, OnReadSocks5MethodSelect
  <2>5. Reason(why) BY DEF Reason
  <2> HIDE DEF why
  <2> QED BY <1>0, <2>4, <2>5, RefusedInv
<1>3. CASE n # 1
  <2>0. n = 2 /\ buf = Front(k, w, e, 0, 0) /\ Rest(wire.a2c, n) = << >>
    <3>1. 0 + (n - 2) = 0 BY <1>r, <1>3 DEF Reads
    <3> QED BY <1>r, <1>1, <1>3, <3>1 DEF Reads
  <2>1. Parsed(buf, k, w, Seg(e, 0, 0))
    <3>1. 0 \in Nat /\ 0 <= 0 OBVIOUS
    <3>2. Parsed(Front(k, w, e, 0, 0), k, w, Seg(e, 0, 0)) BY <3>1, ParseFront
    <3> QED BY <2>0, <3>2
  <2>2. Starts(buf, "greet") BY <2>1 DEF Parsed, k
  <2>3. OnReadSocks5MethodSelect(buf, n) BY <2>2 DEF Refused
  <2>4. /\ c' = [c EXCEPT !.reads = "socks5"]
        /\ wire' = [Taken("a2c", n) EXCEPT !.c2a = @ \o Msg("method", "noauth")]
    BY <2>3 DEF OnReadSocks5MethodSelect
  <2>5. c' = [InitialClient EXCEPT !.reads = "socks5"] BY <2>4
  <2>6. /\ IsWire(wire') /\ wire'.a2c = Rest(wire.a2c, n) /\ wire'.c2a = << >> \o Msg("method", "noauth")
    BY <1>0, <2>4 DEF Records, IsWire, Taken
  <2>7. SameWires(wire', wire, {"a2c", "c2a"})
    BY <1>0, <2>4 DEF Records, IsWire, Taken, SameWires
  <2>8. wire'.a2c = << >> /\ wire'.c2a = Msg("method", "noauth") BY <2>0, <2>6 DEF Msg
  <2>9. /\ wire'.c2s = wire.c2s /\ wire'.s2c = wire.s2c /\ wire'.s2r = wire.s2r /\ wire'.r2s = wire.r2s
    BY <2>7 DEF SameWires
  <2>10. Greeted' BY <2>5, <2>8 DEF Greeted, InitialClient
  <2>11. PICK g, y \in Nat : Downwards(g, y) /\ (Early(y) \/ Late(y)) BY DEF HandshakeInv
  <2>12. Early(y) BY <1>0, <2>11 DEF Late, LateAt, ClientAt
  <2>13. /\ IsClient(c') /\ c'.closed = FALSE /\ c'.why = "none" /\ c'.channel = "none"
         /\ c'.upstream_ = << >> /\ c'.awaits = {} /\ c'.reads = "socks5"
    BY <2>5 DEF IsClient, InitialClient
  <2>14. Untouched' BY <2>9, <2>12, <2>13 DEF Early, Untouched, InitialServer
  <2>15. Early(y)' BY <2>10, <2>12, <2>13, <2>14 DEF Early
  <2>16. Downwards(g, y)'
    <3>1. y = 0 /\ g = 0 BY <2>11, <2>12 DEF Early, Downwards
    <3>2. Front("method", "noauth", Data, 0, 0) = Msg("method", "noauth")
      <4> HIDE DEF Data
      <4> QED BY FrontAlone
    <3> QED BY <2>8, <2>11, <2>13, <3>1, <3>2 DEF Downwards, Data
  <2>17. Records' /\ ConfigOK' /\ Ends' BY <1>0, <2>6, <2>13, CfgSame DEF Records, Ends
  <2> QED BY <1>0, <2>11, <2>15, <2>16, <2>17 DEF HandshakeInv
<1> QED BY <1>2, <1>3

\* The first read of a redirected connection is payload.
\* What the first read of a redirected connection returned, and what it left.
LEMMA RedirectedPayload ==
  ASSUME ConfigOK, app.sent \in Nat, cfg.front = "redir", NEW n, n = cfg.first, n \in Nat, n <= app.sent
  PROVE  LET m == IF cfg.method = "ss" THEN n + n ELSE n IN
         /\ m \in Nat /\ m <= All
         /\ (IF cfg.method = "ss" THEN Seg(Data, 0, n) \o Seg(Data, 0, n) ELSE Seg(Data, 0, n))
              = Seg(Payload, 0, m)
         /\ Seg(Data, n, app.sent) = Seg(Payload, m, All)
<1>1. CASE cfg.method # "ss"
  <2>1. Base = 0 BY <1>1 DEF Base
  <2>2. All = app.sent BY <2>1 DEF All
  <2>3. \A i \in Nat : Payload[i] = Data[i] BY <2>1 DEF Payload, Data
  <2>4. \A a, b \in Nat : Seg(Data, a, b) = Seg(Payload, a, b)
    <3> HIDE DEF Payload, Data
    <3>1. SUFFICES ASSUME NEW a \in Nat, NEW b \in Nat PROVE Seg(Data, a, b) = Seg(Payload, a, b) OBVIOUS
    <3>2. \A i \in 1 .. b - a : Data[a + i] = Payload[a + i] BY <2>3
    <3> QED BY <3>2 DEF Seg
  <2> HIDE DEF Payload, Data, All
  <2> QED BY <1>1, <2>2, <2>4
<1>2. CASE cfg.method = "ss"
  <2> DEFINE t == app.sent
  <2>1. Base = n BY <1>2 DEF Base
  <2>2. All = t + n BY <2>1 DEF All
  <2>3. \A i \in Nat : i <= n => Payload[i] = Data[i] BY <2>1 DEF Payload, Data
  <2>4. \A i \in Nat : i >= 1 => Payload[n + i] = Data[i] BY <2>1 DEF Payload, Data
  <2>5. /\ Seg(Data, 0, n) = Seg(Payload, 0, n)
        /\ Seg(Data, 0, n) = Seg(Payload, n, n + n)
        /\ Seg(Data, n, t) = Seg(Payload, n + n, t + n)
    <3> HIDE DEF Payload, Data, t
    <3>0. t \in Nat /\ n <= t BY DEF t
    <3>1. Seg(Data, 0, n) = Seg(Payload, 0, n)
      <4>1. \A i \in 1 .. n - 0 : Data[0 + i] = Payload[0 + i] BY <2>3
      <4> QED BY <4>1 DEF Seg
    <3>2. Seg(Data, 0, n) = Seg(Payload, n, n + n)
      <4>1. n - 0 = (n + n) - n OBVIOUS
      <4>2. \A i \in 1 .. n - 0 : Data[0 + i] = Payload[n + i] BY <2>4
      <4> QED BY <4>1, <4>2 DEF Seg
    <3>3. Seg(Data, n, t) = Seg(Payload, n + n, t + n)
      <4>1. t - n = (t + n) - (n + n) BY <3>0
      <4>2. \A i \in 1 .. t - n : Data[n + i] = Payload[(n + n) + i]
        <5> SUFFICES ASSUME NEW i \in 1 .. t - n PROVE Data[n + i] = Payload[(n + n) + i] OBVIOUS
        <5>1. n + i \in Nat /\ n + i >= 1 /\ n + (n + i) = (n + n) + i BY <3>0
        <5> QED BY <2>4, <5>1
      <4> QED BY <4>1, <4>2 DEF Seg
    <3> QED BY <3>1, <3>2, <3>3
  <2>6. Seg(Payload, 0, n) \o Seg(Payload, n, n + n) = Seg(Payload, 0, n + n)
    <3>1. 0 <= n /\ n <= n + n /\ n + n \in Nat OBVIOUS
    <3> HIDE DEF Payload
    <3> QED BY <3>1, SegCat
  <2>7. n + n \in Nat /\ n + n <= t + n OBVIOUS
  <2> HIDE DEF Payload, Data, All
  <2> QED BY <1>2, <2>2, <2>5, <2>6, <2>7
<1> QED BY <1>1, <1>2

LEMMA RedirectedInv ==
  ASSUME HandshakeInv, ~c.closed, c = InitialClient, cfg' = cfg, app' = app, s' = s, wire.c2a = << >>,
         cfg.front = "redir", app.next = "data", wire.a2c = Seg(Data, 0, app.sent),
         NEW n, n \in 1 .. Len(wire.a2c), n = cfg.first,
         NEW d, d \in OnReadRedirHandshake(First(wire.a2c, n)),
         c' = IF d.closed THEN d ELSE HandleAgain(d, First(wire.a2c, n)), wire' = Taken("a2c", n)
  PROVE  HandshakeInv'
<1>0. /\ ConfigOK /\ Records /\ app.sent \in Nat /\ c.channel # "connected" /\ c.reads = "method"
      /\ c.pending_data_ = << >>
  BY DEF HandshakeInv, InitialClient
<1>1. CASE cfg.dest \in {"none", "self"}
  <2> DEFINE why == "destination"
  <2>1. d = Ended(c, why) BY <1>1 DEF OnReadRedirHandshake
  <2>2. Reason(why) BY <1>1 DEF Reason
  <2> HIDE DEF why
  <2>3. ClientEnded(Ended(c, why), c, why) BY <1>0, EndedClient DEF Records
  <2>4. c' = Ended(c, why) BY <2>1, <2>3 DEF ClientEnded
  <2> QED BY <1>0, <2>4, <2>2, RefusedInv
<1>2. CASE cfg.dest \notin {"none", "self"}
  <2> DEFINE buf == First(wire.a2c, n)  e == Data  b == app.sent
  <2>1. PICK dest \in {cfg.dest, "domain"} : d = HandleStream(OnCmdConnect(dest), buf)
    BY <1>2 DEF OnReadRedirHandshake
  <2>2. b \in Nat /\ 0 \in Nat /\ 0 <= b BY <1>0
  <2>3. wire.a2c = Seg(e, 0, b) OBVIOUS
  <2> HIDE DEF e, b
  <2>4. IsPiece(Seg(e, 0, b), e, 0, b) BY <2>2, SegType
  <2>5. n \in 0 .. b - 0 /\ n \in Nat /\ n <= b /\ 0 + n = n /\ n # 0 BY <2>2, <2>3, <2>4 DEF IsPiece
  <2>6. Cuts(e, 0, b, n) BY <2>2, <2>5, SegRead
  <2>7. buf = Seg(e, 0, n) /\ Rest(wire.a2c, n) = Seg(e, n, b) BY <2>3, <2>5, <2>6 DEF Cuts
  <2>8. IsWire(wire') /\ SameWires(wire', wire, {"a2c"}) /\ wire'.a2c = Rest(wire.a2c, n)
    BY <1>0, WireStep DEF Records
  <2>9. SameWires(wire', wire, {"a2c", "c2a"}) /\ wire'.c2a = << >> BY <2>8 DEF SameWires
  <2>10. << >> \o buf = buf /\ buf # << >>
    <3>1. << >> \o Seg(e, 0, n) = Seg(e, 0, n) BY <2>5, EmptyBefore
    <3>2. Seg(e, 0, n) # << >> BY <2>5, SegEmpty
    <3> QED BY <2>7, <3>1, <3>2
  <2> DEFINE twice == IF cfg.method = "ss" THEN buf \o buf ELSE buf
             m == IF cfg.method = "ss" THEN n + n ELSE n
  <2>11. Requested(c', c, dest, twice)
    <3>1. c' = IF d.closed THEN d ELSE HandleAgain(d, buf) OBVIOUS
    <3> HIDE DEF buf
    <3>2. Requested(d, c, dest, buf) BY <1>0, <2>1, <2>10, RequestedIs DEF Records
    <3>3. ~d.closed BY <3>2 DEF Requested
    <3>4. Requested(HandleAgain(d, buf), c, dest, twice) BY <2>10, <3>2, RequestedAgain
    <3> QED BY <3>1, <3>3, <3>4
  <2>12. m \in Nat /\ m <= All /\ twice = Seg(Payload, 0, m) /\ wire'.a2c = Seg(Payload, m, All)
    <3>1. /\ m \in Nat /\ m <= All
          /\ (IF cfg.method = "ss" THEN Seg(Data, 0, n) \o Seg(Data, 0, n) ELSE Seg(Data, 0, n))
               = Seg(Payload, 0, m)
          /\ Seg(Data, n, app.sent) = Seg(Payload, m, All)
      BY <1>0, <2>5, RedirectedPayload DEF b
    <3> HIDE DEF m, buf
    <3> QED BY <2>7, <2>8, <3>1 DEF e, b
  <2>13. /\ dest \notin {"none", "self"} /\ (dest = cfg.dest \/ (cfg.front = "redir" /\ dest = "domain"))
         /\ wire'.c2a \in {<< >>, Msg("granted", "none")} /\ app.next \in {"wait", "data"}
         /\ c.reads \in {"method", "socks5"}
    BY <1>0, <1>2, <2>1, <2>9
  <2>14. Requested(c', c, dest, Seg(Payload, 0, m)) BY <2>11, <2>12
  <2> HIDE DEF twice, m, buf
  <2> QED BY <1>0, <2>8, <2>9, <2>12, <2>13, <2>14, Granted
<1> QED BY <1>1, <1>2

LEMMA ReadMethodSelectInv == ASSUME HandshakeInv, ReadMethodSelect PROVE HandshakeInv'
<1>0. /\ ConfigOK /\ Records /\ ~c.closed /\ c.reads = "method" /\ cfg' = cfg /\ s' = s /\ app' = app
  BY DEF HandshakeInv, ReadMethodSelect
<1>1. PICK n \in 1 .. Len(wire.a2c) : LET buf == First(wire.a2c, n) IN
       IF cfg.front = "redir"
         THEN /\ n = cfg.first
              /\ \E d \in OnReadRedirHandshake(buf) :
                   c' = IF d.closed THEN d ELSE HandleAgain(d, buf)
              /\ wire' = Taken("a2c", n)
         ELSE \/ OnReadSocks5MethodSelect(buf, n) \/ OnReadSocks4Handshake(buf, n)
              \/ OnReadHttpRequest(buf, n) \/ Refused(buf, n, {"greet", "req4", "http", "get"})
  BY DEF ReadMethodSelect
<1>2. PICK g, y \in Nat : Downwards(g, y) /\ (Early(y) \/ Late(y)) BY DEF HandshakeInv
<1>3. Unread BY <1>0, <1>2 DEF Late, LateAt, ClientAt, Early, Greeted, InitialClient, Requesting
<1>4. wire.a2c # << >> BY <1>1
<1>5. /\ c = InitialClient /\ wire.c2a = << >> /\ c.channel # "connected" /\ c.pending_data_ = << >>
  BY <1>3 DEF Unread, InitialClient
<1>6. CASE cfg.front = "redir" /\ app.next = "data" /\ wire.a2c = Seg(Data, 0, app.sent)
  <2>1. /\ n = cfg.first /\ wire' = Taken("a2c", n)
        /\ \E d \in OnReadRedirHandshake(First(wire.a2c, n)) :
             c' = IF d.closed THEN d ELSE HandleAgain(d, First(wire.a2c, n))
    BY <1>1, <1>6
  <2>2. PICK d \in OnReadRedirHandshake(First(wire.a2c, n)) :
             c' = IF d.closed THEN d ELSE HandleAgain(d, First(wire.a2c, n))
    BY <2>1
  <2> QED BY <1>0, <1>1, <1>5, <1>6, <2>1, <2>2, RedirectedInv
<1> DEFINE buf == First(wire.a2c, n)
<1>7. ASSUME cfg.front # "redir", NEW k, \A kind : Starts(buf, kind) => kind = k
      PROVE  \/ Starts(buf, k) /\ k = "greet" /\ OnReadSocks5MethodSelect(buf, n)
             \/ /\ Starts(buf, k) /\ k \in {"req4", "http"}
                /\ PerformCmdOps(buf, n, Msg("granted", "none"), Behind(buf))
             \/ /\ Starts(buf, k) /\ k = "get"
                /\ PerformCmdOps(buf, n, << >>, ReforgeHttpRequest(buf) \o Behind(buf))
             \/ Refused(buf, n, {"greet", "req4", "http", "get"})
  <2> HIDE DEF buf
  <2>1. \/ OnReadSocks5MethodSelect(buf, n) \/ OnReadSocks4Handshake(buf, n)
        \/ OnReadHttpRequest(buf, n) \/ Refused(buf, n, {"greet", "req4", "http", "get"})
    BY <1>1, <1>7 DEF buf
  <2>2. CASE OnReadSocks5MethodSelect(buf, n) BY <1>7, <2>2 DEF OnReadSocks5MethodSelect
  <2>3. CASE OnReadSocks4Handshake(buf, n) BY <1>7, <2>3 DEF OnReadSocks4Handshake
  <2>4. CASE OnReadHttpRequest(buf, n) BY <1>7, <2>4 DEF OnReadHttpRequest
  <2> QED BY <2>1, <2>2, <2>3, <2>4
<1>8. CASE cfg.front = "socks5" /\ app.next = "wait" /\ app.sent = 0 /\ wire.a2c = Msg("greet", "noauth")
  <2>1. \A kind : Starts(buf, kind) => kind = "greet"
    <3>1. buf[1] = <<"greet", "noauth", 1>>
      <4>1. (n = 1 \/ n = 2) /\ wire.a2c = << <<"greet", "noauth", 1>>, <<"greet", "noauth", 2>> >>
        BY <1>1, <1>8 DEF Msg
      <4> QED BY <4>1 DEF First
    <3> QED BY <3>1 DEF Starts
  <2>2. OnReadSocks5MethodSelect(buf, n) \/ Refused(buf, n, {"greet", "req4", "http", "get"})
    <3> HIDE DEF buf
    <3> QED BY <1>7, <1>8, <2>1
  <2>3. buf = First(wire.a2c, n) OBVIOUS
  <2> HIDE DEF buf
  <2> QED BY <1>0, <1>1, <1>5, <1>8, <2>2, <2>3, GreetingInv
<1>9. CASE /\ cfg.front \notin {"redir", "socks5"} /\ Asked
           /\ wire.a2c = Front(RequestKind, cfg.dest, Payload, Base, All)
  <2> DEFINE k == RequestKind  kinds == {"greet", "req4", "http", "get"}
  <2>1. k \in {"req4", "http", "get"} /\ ((k = "get") <=> (cfg.front = "plain"))
    BY <1>0, <1>9 DEF RequestKind, ConfigOK, AllFronts
  <2>2. \A kind : Starts(buf, kind) => kind = k
    <3> DEFINE e == Payload  a == Base  b == All  w == cfg.dest
    <3>0. app.sent \in Nat BY DEF HandshakeInv
    <3>1. a \in Nat /\ b \in Nat /\ a <= b BY <1>0, <3>0, NextChunk
    <3>2. wire.a2c = Front(k, w, e, a, b) BY <1>9
    <3> HIDE DEF k, e, a, b, w
    <3>3. n \in 1 .. Len(Front(k, w, e, a, b)) BY <1>1, <3>2
    <3>4. Reads(Front(k, w, e, a, b), n, k, w, e, a, b) BY <3>1, <3>3, ReadFront
    <3>5. CASE n = 1
      <4>1. buf = << <<k, w, 1>> >> BY <3>2, <3>4, <3>5 DEF Reads
      <4> HIDE DEF buf
      <4> QED BY <4>1, ParseHalf
    <3>6. CASE n # 1
      <4> DEFINE d == a + (n - 2)
      <4>1. buf = Front(k, w, e, a, d) /\ d \in Nat /\ a <= d BY <3>2, <3>4, <3>6 DEF Reads
      <4> HIDE DEF buf, d
      <4>2. Parsed(Front(k, w, e, a, d), k, w, Seg(e, a, d)) BY <3>1, <4>1, ParseFront
      <4> QED BY <4>1, <4>2 DEF Parsed
    <3> QED BY <3>5, <3>6
  <2>3. \/ Starts(buf, k) /\ k # "get" /\ PerformCmdOps(buf, n, Msg("granted", "none"), Behind(buf))
        \/ Starts(buf, k) /\ k = "get" /\ PerformCmdOps(buf, n, << >>, ReforgeHttpRequest(buf) \o Behind(buf))
        \/ Refused(buf, n, kinds)
    <3> HIDE DEF buf, k
    <3> QED BY <1>7, <1>9, <2>1, <2>2
  <2>4. buf = First(wire.a2c, n) /\ k \in kinds /\ c.reads \in {"method", "socks5"}
        /\ app.next \in {"wait", "data"} /\ wire.a2c = Front(k, cfg.dest, Payload, Base, All)
    BY <1>0, <1>9, <2>1 DEF Asked
  <2> HIDE DEF buf, k, kinds
  <2>5. cfg.front # "redir" BY <1>9
  <2> QED BY <1>0, <1>1, <1>5, <2>1, <2>3, <2>4, <2>5, RequestReadInv
<1> QED BY <1>3, <1>4, <1>6, <1>8, <1>9 DEF Unread

\* Buffers put together.
LEMMA LeftoverType ==
  ASSUME NEW S, << >> \in S
  PROVE  Leftover \in Seq(S)
<1> DEFINE h == << >>
<1>1. h \in S /\ << >> \in Seq(S) BY EmptySeq
<1>2. Leftover = << h >> \/ Leftover = << >> BY DEF Leftover
<1> HIDE DEF h
<1>3. << h >> \in Seq(S) BY <1>1
<1> QED BY <1>1, <1>2, <1>3

LEMMA Tuples ==
  ASSUME NEW a, NEW b, NEW d
  PROVE  /\ << a >> \o << b >> = << a, b >> /\ << a >> \o << >> \o << b >> = << a, b >>
         /\ << a >> \o << b >> \o << d >> = << a, b, d >>
         /\ << a, b >> \o << d >> = << a, b, d >> /\ << a >> \o << b, d >> = << a, b, d >>
<1> DEFINE S == {a, b, d}  p == << a, b >>  q == << a, b, d >>
           x == << a >> \o << b >>  y == p \o << d >>  z == << a >> \o << b, d >>
<1>1. /\ << a >> \in Seq(S) /\ << b >> \in Seq(S) /\ << d >> \in Seq(S) /\ << b, d >> \in Seq(S)
      /\ p \in Seq(S) /\ q \in Seq(S) /\ Len(p) = 2 /\ Len(q) = 3
  OBVIOUS
<1>2. x \in Seq(S) /\ y \in Seq(S) /\ z \in Seq(S) /\ Len(x) = 2 /\ Len(y) = 3 /\ Len(z) = 3
  BY <1>1, ConcatProperties
<1>3. x[1] = a /\ x[2] = b /\ y[1] = a /\ y[2] = b /\ y[3] = d /\ z[1] = a /\ z[2] = b /\ z[3] = d
  BY <1>1, ConcatProperties
<1> HIDE DEF x, y, z
<1>4. /\ \A i \in 1 .. 2 : x[i] = p[i]
      /\ \A i \in 1 .. 3 : y[i] = q[i]
      /\ \A i \in 1 .. 3 : z[i] = q[i]
  BY <1>3
<1> HIDE DEF p, q, S
<1>5. x = p BY <1>1, <1>2, <1>4, SeqEqual
<1>6. y = q BY <1>1, <1>2, <1>4, SeqEqual
<1>7. z = q BY <1>1, <1>2, <1>4, SeqEqual
<1>8. << a >> \o << >> = << a >> OBVIOUS
<1> QED BY <1>5, <1>6, <1>7, <1>8 DEF x, y, z, p, q

LEMMA Quadruples ==
  ASSUME NEW a, NEW b, NEW d, NEW e
  PROVE  /\ << a, b, d >> \o << e >> = << a, b, d, e >>
         /\ << a >> \o (<< b >> \o (<< d >> \o << e >>)) = << a, b, d, e >>
<1> DEFINE S == {a, b, d, e}  x == << a, b, d >> \o << e >>  y == << a >> \o << b, d, e >>
<1>1. << a, b, d >> \in Seq(S) /\ << e >> \in Seq(S) /\ << b, d, e >> \in Seq(S) /\ << a >> \in Seq(S)
  OBVIOUS
<1>2. << a, b, d, e >> \in Seq(S) /\ Len(<< a, b, d, e >>) = 4 OBVIOUS
<1>3. x \in Seq(S) /\ y \in Seq(S) /\ Len(x) = 4 /\ Len(y) = 4 BY <1>1, ConcatProperties
<1>4. x[1] = a /\ x[2] = b /\ x[3] = d /\ x[4] = e BY <1>1, ConcatProperties
<1>5. y[1] = a /\ y[2] = b /\ y[3] = d /\ y[4] = e BY <1>1, ConcatProperties
<1> HIDE DEF x, y
<1>6. \A i \in 1 .. 4 : x[i] = << a, b, d, e >>[i] BY <1>4
<1>7. \A i \in 1 .. 4 : y[i] = << a, b, d, e >>[i] BY <1>5
<1> DEFINE q == << a, b, d, e >>
<1> HIDE DEF q, S
<1>8. x = q BY <1>2, <1>3, <1>6, SeqEqual DEF q
<1>9. y = q BY <1>2, <1>3, <1>7, SeqEqual DEF q
<1>10. << d >> \o << e >> = << d, e >> /\ << b >> \o << d, e >> = << b, d, e >> BY Tuples
<1> QED BY <1>8, <1>9, <1>10 DEF x, y, q

LEMMA connectedInv == ASSUME HandshakeInv, connected PROVE HandshakeInv'
<1>0. /\ ConfigOK /\ Records /\ app.sent \in Nat /\ app.back \in Nat /\ Ends
      /\ ~c.closed /\ c.channel = "connecting" /\ cfg' = cfg /\ s' = s /\ app' = app /\ wire' = wire
  BY DEF HandshakeInv, connected
<1>s. IsWire(wire') /\ SameWires(wire', wire, {"a2c"}) BY <1>0 DEF Records, SameWires
<1>1. CASE cfg.method = "socks4" /\ c.request_ = "ipv6"
  <2> DEFINE why == "ipv6"
  <2>1. c' = Ended(c, why) BY <1>1 DEF connected
  <2>2. Reason(why) BY <1>1 DEF Reason
  <2>3. c.why = "none" BY <1>0 DEF Ends
  <2> HIDE DEF why
  <2>4. ClientEnded(Ended(c, why), c, why) BY <1>0, EndedClient DEF Records
  <2>5. /\ IsClient(c') /\ c'.closed = TRUE /\ c'.why = why
        /\ c'.channel # "connected" /\ c'.upstream_ = c.upstream_ /\ c'.awaits = c.awaits
    BY <1>0, <2>1, <2>3, <2>4 DEF ClientEnded
  <2> QED BY <1>0, <1>s, <2>2, <2>5, ClientEndsEarly
<1>2. CASE ~(cfg.method = "socks4" /\ c.request_ = "ipv6")
  <2> DEFINE tail == PendingBuffers
  <2>1. c' = [c EXCEPT !.channel = "connected", !.reads = "stream", !.awaits = UpstreamHandshakes,
                       !.upstream_ = UpstreamHeader \o tail, !.pending_data_ = << >>]
    BY <1>2 DEF connected
  <2>2. /\ IsClient(c') /\ c'.closed = c.closed /\ c'.why = c.why /\ c'.reads = "stream"
        /\ c'.channel = "connected" /\ c'.request_ = c.request_ /\ c'.pending_data_ = << >>
        /\ c'.upstream_ = UpstreamHeader \o tail /\ c'.awaits = UpstreamHandshakes
    <3> HIDE DEF tail
    <3> QED BY <1>0, <2>1 DEF Records, IsClient
  <2>3. PICK g, y \in Nat : Downwards(g, y) /\ (Early(y) \/ Late(y)) BY DEF HandshakeInv
  <2>4. Early(y) BY <1>0, <2>3 DEF Late, LateAt, ClientAt
  <2>5. Requesting /\ \E k6 \in Nat : Reading6(0, k6)
    BY <1>0, <2>4 DEF Early, Unread, Greeted, InitialClient
  <2>6. PICK k6 \in Nat : Reading6(0, k6) BY <2>5
  <2>y. y = 0 BY <1>0, <2>4 DEF Early
  <2>7. c.pending_data_ = Seg(Payload, 0, k6) /\ (Seg(Payload, 0, k6) = << >> <=> 0 = k6)
    <3>1. c.pending_data_ = Seg(Payload, 0, k6) BY <2>6 DEF Reading6
    <3> DEFINE e == Payload
    <3> HIDE DEF e
    <3>2. Seg(e, 0, k6) = << >> <=> 0 = k6 BY SegEmpty
    <3> QED BY <3>1, <3>2 DEF e
  <2>8. tail = PayloadTail(0, k6) BY <2>7 DEF PayloadTail, Chunks, PendingBuffers
  <2>k. PICK k \in {"ss", "connect", "req4", "greet"} :
          k = CASE cfg.method = "ss" -> "ss" [] cfg.method = "https" -> "connect"
                [] cfg.method \in {"socks4", "socks4a"} -> "req4" [] OTHER -> "greet"
    OBVIOUS
  <2>9. /\ k \in UsedKinds /\ k \in {"ss", "connect", "req4", "greet"} /\ UpstreamHandshakes = Awaited(k)
        /\ (k = "greet") = CIPHER_METHOD_IS_SOCKS5(cfg.method)
    BY <1>0, <2>k DEF ConfigOK, AllMethods, UsedKinds, UpstreamHandshakes, Awaited, CIPHER_METHOD_IS_SOCKS5
  <2>10. UpstreamHeader = IF k = "greet" THEN WriteUpstreamMethodSelectRequest ELSE << Msg(k, Carried(k)) >>
    BY <1>0, <2>k DEF ConfigOK, AllMethods, UpstreamHeader, WriteUpstreamSocks4Request, Carried, CIPHER_METHOD_IS_SOCKS5
  <2>11. UpstreamHeader \o tail = Queue(k, "unsent", tail)
    <3> DEFINE m == Msg(k, Carried(k))
    <3>2. CASE k # "greet"
      <4>1. Queue(k, "unsent", tail) = << m >> \o tail BY <2>9, <3>2 DEF Queue, Holes
      <4> QED BY <2>10, <3>2, <4>1
    <3>3. CASE k = "greet"
      <4>1. m = Msg("greet", IF AuthRequired THEN "auth" ELSE "noauth") BY <3>3 DEF Carried
      <4>2. UpstreamHeader = << m >> \o (IF AuthRequired THEN << << >> >> ELSE << >>) \o << << >> >>
        BY <2>10, <3>3, <4>1 DEF WriteUpstreamMethodSelectRequest
      <4> DEFINE h == << >>
      <4>3. Queue(k, "unsent", tail)
              = << m >> \o (IF AuthRequired THEN << h >> \o (<< h >> \o tail) ELSE << h >> \o tail)
        BY <3>3 DEF Queue, Holes
      <4> DEFINE S == {m, h, c.pending_data_}
      <4>4. tail \in Seq(S) /\ << m >> \in Seq(S) /\ << h >> \in Seq(S)
        <5>0. << >> \in S BY DEF h
        <5>1. Leftover \in Seq(S)
          <6> HIDE DEF S
          <6> QED BY <5>0, LeftoverType
        <5>2. (IF c.pending_data_ = << >> THEN << >> ELSE <<c.pending_data_>>) \in Seq(S) OBVIOUS
        <5>3. << m >> \in Seq(S) /\ << h >> \in Seq(S) OBVIOUS
        <5> HIDE DEF S
        <5> QED BY <5>1, <5>2, <5>3, ConcatProperties DEF PendingBuffers
      <4> HIDE DEF m, tail, S
      <4>5. CASE AuthRequired
        <5>1. UpstreamHeader = (<< m >> \o << h >>) \o << h >> BY <4>2, <4>5 DEF h
        <5> HIDE DEF h
        <5>2. Queue(k, "unsent", tail) = << m >> \o (<< h >> \o (<< h >> \o tail)) BY <4>3, <4>5
        <5>3. << m >> \o << h >> \in Seq(S) /\ << h >> \o tail \in Seq(S) BY <4>4, ConcatProperties
        <5>4. ((<< m >> \o << h >>) \o << h >>) \o tail = (<< m >> \o << h >>) \o (<< h >> \o tail)
          BY <4>4, <5>3, ConcatAssociative
        <5>5. (<< m >> \o << h >>) \o (<< h >> \o tail) = << m >> \o (<< h >> \o (<< h >> \o tail))
          BY <4>4, <5>3, ConcatAssociative
        <5> QED BY <5>1, <5>2, <5>4, <5>5
      <4>6. CASE ~AuthRequired
        <5>1. UpstreamHeader = << m >> \o << h >> BY <4>2, <4>6 DEF h
        <5> HIDE DEF h
        <5>2. Queue(k, "unsent", tail) = << m >> \o (<< h >> \o tail) BY <4>3, <4>6
        <5>3. (<< m >> \o << h >>) \o tail = << m >> \o (<< h >> \o tail) BY <4>4, ConcatAssociative
        <5> QED BY <5>1, <5>2, <5>3
      <4> QED BY <4>5, <4>6
    <3> QED BY <3>2, <3>3
  <2>12. ClientAt(k, "unsent", 0, k6)'
    <3>1. /\ UsedKinds' = UsedKinds /\ Awaited(k)' = Awaited(k) /\ Wanted(c.request_)' = Wanted(c.request_)
          /\ PayloadTail(0, k6)' = PayloadTail(0, k6) /\ Payload' = Payload
      BY <1>0, <2>2, CfgSame
    <3>2. Queue(k, "unsent", PayloadTail(0, k6))' = Queue(k, "unsent", PayloadTail(0, k6))
      BY <1>0, <2>2, <3>1, RequestSame
    <3>3. Wanted(c.request_) BY <1>0, <2>5 DEF Requesting
    <3>4. Reading6(k6, k6)'
      <4>1. All' = All BY <1>0, CfgSame DEF All
      <4>2. Seg(Payload, k6, k6) = << >>
        <5> DEFINE e == Payload
        <5> HIDE DEF e
        <5>1. Seg(e, k6, k6) = << >> BY SegEmpty
        <5> QED BY <5>1 DEF e
      <4> QED BY <1>0, <2>2, <2>6, <3>1, <4>1, <4>2 DEF Reading6
    <3> HIDE DEF tail
    <3> QED BY <2>2, <2>8, <2>9, <2>11, <3>1, <3>2, <3>3, <3>4 DEF ClientAt, LastKinds
  <2>u. Untouched BY <2>4 DEF Early
  <2>13. ServerAt(k, "unsent", "reads", 0, 0, 0)'
    <3>2. s' = s /\ s.stage = Reader(k) /\ s.closed = FALSE /\ s.why = "none" /\ s.chunk = << >>
      BY <1>0, <2>u, <2>k DEF Untouched, InitialServer, Reader, ConfigOK, AllMethods
    <3>3. Nothing' BY <1>0, <2>u DEF Untouched, InitialServer, Nothing
    <3>4. Idle(k, "unsent", "reads", 0)' BY <1>0, <2>u, <3>2, <3>3 DEF Idle, Untouched, Reader
    <3>5. Knows(k, "reads")' BY <2>9 DEF Knows
    <3> QED BY <1>0, <2>u, <3>2, <3>4, <3>5 DEF ServerAt, Untouched
  <2>14. Backwards(k, "unsent", "reads", 0, 0)'
    <3>1. Seg(Data, 0, 0) = << >>
      <4> HIDE DEF Data
      <4> QED BY SegEmpty
    <3>2. /\ app.back = 0 /\ wire'.s2c = << >> /\ wire'.r2s = << >> /\ app'.back = 0
          /\ Answers(k, "unsent", "reads")' = << >>
      BY <1>0, <2>u DEF Untouched, Answers
    <3>3. << >> \o << >> = << >> OBVIOUS
    <3>4. Data' = Data BY DEF Data
    <3> HIDE DEF Data
    <3> QED BY <3>1, <3>2, <3>3, <3>4 DEF Backwards
  <2>15. Late(y)'
    <3>2. LateAt(k, "unsent", "reads", 0, 0, 0, k6, 0, 0)' BY <2>12, <2>13, <2>14 DEF LateAt
    <3>3. Late(0)' BY <3>2 DEF Late
    <3> QED BY <2>y, <3>3
  <2>16. Records' /\ ConfigOK' /\ Ends' BY <1>0, <2>2, CfgSame DEF Records, Ends
  <2>17. Downwards(g, y)' BY <1>0, <2>2, <2>3, <2>5 DEF Downwards, Data, Requesting
  <2> QED BY <1>0, <2>3, <2>15, <2>16, <2>17 DEF HandshakeInv
<1> QED BY <1>1, <1>2

-----------------------------------------------------------------------------
(* The client: its own request of the server. *)

\* The first buffer of a queue, and the others.
IsQueue(q, x, t) == q # << >> /\ Head(q) = x /\ Tail(q) = t

LEMMA HeadTail ==
  ASSUME NEW S, NEW x \in S, NEW t \in Seq(S)
  PROVE  IsQueue(<< x >> \o t, x, t)
<1> DEFINE q == << x >> \o t  u == Tail(q)
<1>1. << x >> \in Seq(S) /\ Len(<< x >>) = 1 /\ << x >>[1] = x OBVIOUS
<1>2. /\ q \in Seq(S) /\ Len(q) = 1 + Len(t) /\ Len(t) \in Nat
      /\ \A i \in 1 .. 1 + Len(t) : q[i] = IF i <= 1 THEN << x >>[i] ELSE t[i - 1]
  BY <1>1, ConcatProperties, LenProperties
<1> HIDE DEF q
<1>3. q # << >> BY <1>2, EmptySeq
<1>4. Head(q) = q[1] /\ q[1] = x BY <1>1, <1>2, <1>3
<1>5. u \in Seq(S) /\ Len(u) = Len(q) - 1 /\ \A i \in 1 .. Len(u) : u[i] = q[i + 1]
  BY <1>2, <1>3, HeadTailProperties
<1>6. Len(u) = Len(t) BY <1>2, <1>5
<1>7. \A i \in 1 .. Len(u) : u[i] = t[i] BY <1>2, <1>5, <1>6
<1> HIDE DEF u
<1>8. u = t BY <1>5, <1>6, <1>7, SeqEqual
<1> QED BY <1>3, <1>4, <1>8 DEF IsQueue, q, u

LEMMA HolesType ==
  ASSUME NEW k, NEW S, NEW tail \in Seq(S), << >> \in S
  PROVE  Holes(k, tail) \in Seq(S)
<1> DEFINE h == << >>
<1>1. tail \in Seq(S) OBVIOUS
<1>h. h \in S OBVIOUS
<1>d. Holes(k, tail) = CASE k = "greet" -> (IF AuthRequired THEN << h >> \o (<< h >> \o tail) ELSE << h >> \o tail)
                         [] k = "auth" -> << h >> \o tail
                         [] OTHER -> tail
  BY DEF Holes
<1> HIDE DEF h
<1>s. << h >> \in Seq(S) BY <1>h
<1>2. << h >> \o tail \in Seq(S) BY <1>1, <1>s, ConcatProperties
<1>3. << h >> \o (<< h >> \o tail) \in Seq(S) BY <1>s, <1>2, ConcatProperties
<1> QED BY <1>1, <1>2, <1>3, <1>d

\* What is at the front of the client's queue.
LEMMA QueueFront ==
  ASSUME NEW k, NEW k4, NEW k5, k4 \in Nat, k5 \in Nat, k4 <= k5
  PROVE  LET tail == PayloadTail(k4, k5) IN
         /\ IsQueue(Queue(k, "unsent", tail), Msg(k, Carried(k)), Holes(k, tail))
         /\ k = "greet" /\ AuthRequired => IsQueue(Holes(k, tail), << >>, << << >> >> \o tail)
         /\ k = "greet" /\ ~AuthRequired => IsQueue(Holes(k, tail), << >>, tail)
         /\ k = "auth" => IsQueue(Holes(k, tail), << >>, tail)
         /\ k \notin {"greet", "auth"} => Holes(k, tail) = tail
         /\ k4 = k5 => tail = Leftover
         /\ k4 # k5 => IsQueue(tail, Seg(Payload, k4, k5), Leftover)
<1> DEFINE tail == PayloadTail(k4, k5)  x == Seg(Payload, k4, k5)  m == Msg(k, Carried(k))
           h == << >>  S == {h, m, x}
<1>l. Leftover \in Seq(S)
  <2>1. << >> \in S OBVIOUS
  <2> HIDE DEF S
  <2> QED BY <2>1, LeftoverType
<1>2. tail = (IF k4 = k5 THEN << >> ELSE << x >>) \o Leftover BY DEF PayloadTail, Chunks
<1> HIDE DEF tail, x, m
<1>3. Holes(k, tail) \in Seq(S) /\ tail \in Seq(S) /\ x \in S /\ m \in S /\ h \in S
  <2>1. x \in S /\ m \in S /\ h \in S OBVIOUS
  <2>2. << >> \in Seq(S) /\ << x >> \in Seq(S) OBVIOUS
  <2> HIDE DEF S
  <2>3. tail \in Seq(S) BY <1>2, <1>l, <2>2, ConcatProperties
  <2> QED BY <2>1, <2>3, HolesType DEF h
<1>4. << h >> \o tail \in Seq(S) BY <1>3, ConcatProperties
<1> HIDE DEF h, S
<1>5. IsQueue(<< m >> \o Holes(k, tail), m, Holes(k, tail)) BY <1>3, HeadTail
<1>6. IsQueue(<< h >> \o tail, h, tail) BY <1>3, HeadTail
<1>7. IsQueue(<< h >> \o (<< h >> \o tail), h, << h >> \o tail) BY <1>3, <1>4, HeadTail
<1>8. Queue(k, "unsent", tail) = << m >> \o Holes(k, tail) BY DEF Queue, m
<1>9. k = "greet" => Holes(k, tail) = IF AuthRequired THEN << h >> \o (<< h >> \o tail) ELSE << h >> \o tail
  BY DEF Holes, h
<1>10. k = "auth" => Holes(k, tail) = << h >> \o tail BY DEF Holes, h
<1>11. k \notin {"greet", "auth"} => Holes(k, tail) = tail BY DEF Holes
<1>12. k4 # k5 => IsQueue(tail, x, Leftover) BY <1>2, <1>3, <1>l, HeadTail
<1>e. k4 = k5 => tail = Leftover BY <1>2 DEF Leftover
<1>13. /\ IsQueue(Queue(k, "unsent", tail), m, Holes(k, tail))
       /\ k = "greet" /\ AuthRequired => IsQueue(Holes(k, tail), h, << h >> \o tail)
       /\ k = "greet" /\ ~AuthRequired => IsQueue(Holes(k, tail), h, tail)
       /\ k = "auth" => IsQueue(Holes(k, tail), h, tail)
  BY <1>5, <1>6, <1>7, <1>8, <1>9, <1>10
<1> QED BY <1>11, <1>12, <1>13, <1>e DEF tail, x, m, h

\* The second half of a message in front of a piece, and more payload behind it.
HalfFront(k, w, e, b) == << <<k, w, 2>> >> \o Seg(e, 0, b)

LEMMA HalfCat ==
  ASSUME NEW k, NEW w, NEW e, NEW b, NEW d, b \in Nat, d \in Nat, b <= d
  PROVE  HalfFront(k, w, e, b) \o Seg(e, b, d) = HalfFront(k, w, e, d)
<1> DEFINE t == <<k, w, 2>>  x == Seg(e, 0, b)  y == Seg(e, b, d)  S == Elements(e) \union {t}
<1>1. IsPiece(x, e, 0, b) /\ IsPiece(y, e, b, d) BY SegType
<1>2. x \o y = Seg(e, 0, d) BY SegCat
<1> HIDE DEF x, y, t
<1>3. x \in Seq(Elements(e)) /\ y \in Seq(Elements(e)) BY <1>1 DEF IsPiece
<1>4. x \in Seq(S) /\ y \in Seq(S) BY <1>3, SeqMonotonic
<1>5. << t >> \in Seq(S) OBVIOUS
<1> HIDE DEF S
<1>6. (<< t >> \o x) \o y = << t >> \o (x \o y) BY <1>4, <1>5, ConcatAssociative
<1> QED BY <1>2, <1>6 DEF x, y, t, HalfFront

\* More payload has been sent to the server.
LEMMA ServerMore ==
  ASSUME cfg' = cfg, c'.request_ = c.request_, s' = s, wire'.s2r = wire.s2r, app'.back = app.back,
         NEW k, NEW place, NEW at, NEW k1, NEW k3, NEW k4, NEW k5, k4 \in Nat, k5 \in Nat, k4 <= k5,
         k \in LastKinds, place \in {"sent", "open"},
         wire'.c2s = wire.c2s \o Seg(Payload, k4, k5),
         ServerAt(k, place, at, k1, k3, k4)
  PROVE  ServerAt(k, place, at, k1, k3, k5)'
<1>1. Carried(k)' = Carried(k) /\ Payload' = Payload /\ NextKind(k)' = NextKind(k) /\ Knows(k, at)' = Knows(k, at)
  BY CfgSame, RequestSame
<1>2. Nothing' = Nothing BY DEF Nothing
<1> DEFINE e == Payload  w == Carried(k)
<1>0. 0 \in Nat /\ 0 <= k4 OBVIOUS
<1>3. CASE Idle(k, place, at, k4)
  <2>1. wire.c2s = Front(k, w, e, 0, k4) => wire'.c2s = Front(k, w, e, 0, k5)
    <3> HIDE DEF w
    <3>1. wire'.c2s = wire.c2s \o Seg(e, k4, k5) OBVIOUS
    <3> HIDE DEF e
    <3>2. Front(k, w, e, 0, k4) \o Seg(e, k4, k5) = Front(k, w, e, 0, k5) BY <1>0, FrontCat
    <3> QED BY <3>1, <3>2
  <2>2. place = "sent" BY <1>3 DEF Idle
  <2>3. Idle(k, place, at, k5)' BY <1>1, <1>2, <1>3, <2>1, <2>2 DEF Idle
  <2> QED BY <1>1, <2>3 DEF ServerAt
<1>4. CASE Half(k, place, at, k4)
  <2> DEFINE q == c.request_
  <2>1. wire.c2s = << <<"ss", q, 2>> >> \o Seg(e, 0, k4) => wire'.c2s = << <<"ss", q, 2>> >> \o Seg(e, 0, k5)
    <3>1. wire'.c2s = wire.c2s \o Seg(e, k4, k5) OBVIOUS
    <3> HIDE DEF e, q
    <3>2. HalfFront("ss", q, e, k4) \o Seg(e, k4, k5) = HalfFront("ss", q, e, k5) BY HalfCat
    <3> QED BY <3>1, <3>2 DEF HalfFront
  <2>2. Half(k, place, at, k5)' BY <1>1, <1>2, <1>4, <2>1 DEF Half
  <2> QED BY <1>1, <2>2 DEF ServerAt
<1>5. ASSUME k3 \in Nat, k3 <= k4, wire.c2s = Seg(e, k3, k4) PROVE wire'.c2s = Seg(e, k3, k5)
  <2>1. wire'.c2s = wire.c2s \o Seg(e, k4, k5) OBVIOUS
  <2> HIDE DEF e
  <2>2. Seg(e, k3, k4) \o Seg(e, k4, k5) = Seg(e, k3, k5) BY <1>5, SegCat
  <2> QED BY <1>5, <2>1, <2>2
<1>6. CASE Writes(k, place, at, k3, k4)
  <2>1. Writes(k, place, at, k3, k5)' BY <1>1, <1>5, <1>6 DEF Writes
  <2> QED BY <1>1, <2>1 DEF ServerAt
<1>7. CASE Ahead(k, place, at) BY <1>7 DEF Ahead, LastKinds
<1>8. CASE Streams(k, place, at, k1, k3, k4)
  <2>1. Streams(k, place, at, k1, k3, k5)' BY <1>1, <1>5, <1>8 DEF Streams
  <2> QED BY <1>1, <2>1 DEF ServerAt
<1> QED BY <1>3, <1>4, <1>6, <1>7, <1>8 DEF ServerAt

LEMMA BackKept ==
  ASSUME cfg' = cfg, c'.closed = c.closed, c'.request_ = c.request_, app'.back = app.back,
         wire'.s2c = wire.s2c, wire'.r2s = wire.r2s,
         NEW k, NEW place, NEW at, NEW y, NEW z, Backwards(k, place, at, y, z)
  PROVE  Backwards(k, place, at, y, z)'
<1>1. Answers(k, place, at)' = Answers(k, place, at) BY RequestSame
<1> QED BY <1>1 DEF Backwards, Data

\* The messages a client sends.
LEMMA KindsUsed ==
  ASSUME NEW k \in UsedKinds
  PROVE  /\ k \in {"ss", "connect", "req4", "req5", "greet", "auth"}
         /\ k = "auth" => AuthRequired
         /\ k \in {"greet", "auth"} <=> k \notin LastKinds
BY DEF UsedKinds, LastKinds

\* A queue with nothing but payload.
LEMMA QueueLast ==
  ASSUME NEW k \in UsedKinds, k \in LastKinds, NEW place \in {"sent", "open"}, NEW tail
  PROVE  Queue(k, place, tail) = tail
BY DEF UsedKinds, LastKinds, Queue, Holes

LEMMA WriteUpstreamInPipeInv == ASSUME HandshakeInv, WriteUpstreamInPipe PROVE HandshakeInv'
<1>0. /\ ConfigOK /\ Records /\ app.sent \in Nat /\ app.back \in Nat /\ Ends
      /\ ~c.closed /\ c.channel = "connected" /\ cfg' = cfg /\ s' = s /\ app' = app
  BY DEF HandshakeInv, WriteUpstreamInPipe
<1>1. PICK g, y \in Nat : Downwards(g, y) /\ (Early(y) \/ Late(y)) BY DEF HandshakeInv
<1>2. PICK k, place, at, k1, k3, k4, k5, z : LateAt(k, place, at, k1, k3, k4, k5, y, z)
  BY <1>0, <1>1 DEF Early, Late
<1>3. /\ ClientAt(k, place, k4, k5) /\ ServerAt(k, place, at, k1, k3, k4)
      /\ Backwards(k, place, at, y, z)
  BY <1>2 DEF LateAt
<1> DEFINE tail == PayloadTail(k4, k5)
<1>4. /\ k \in UsedKinds /\ place \in {"unsent", "sent", "open"} /\ c.upstream_ = Queue(k, place, tail)
      /\ k4 \in Nat /\ k5 \in Nat /\ k4 <= k5 /\ (place = "open" => k \in LastKinds)
      /\ c.reads = "stream" /\ Wanted(c.request_) /\ Reading6(k5, k5)
      /\ c.awaits = (IF place = "open" THEN {} ELSE Awaited(k))
  BY <1>0, <1>3 DEF ClientAt
<1>q. /\ IsQueue(Queue(k, "unsent", tail), Msg(k, Carried(k)), Holes(k, tail))
      /\ k = "greet" /\ AuthRequired => IsQueue(Holes(k, tail), << >>, << << >> >> \o tail)
      /\ k = "greet" /\ ~AuthRequired => IsQueue(Holes(k, tail), << >>, tail)
      /\ k = "auth" => IsQueue(Holes(k, tail), << >>, tail)
      /\ k \notin {"greet", "auth"} => Holes(k, tail) = tail
      /\ k4 = k5 => tail = Leftover
      /\ k4 # k5 => IsQueue(tail, Seg(Payload, k4, k5), Leftover)
  BY <1>4, QueueFront
<1>5. ASSUME IsClient(c'), c'.closed = c.closed, c'.why = c.why, c'.reads = c.reads,
             c'.channel = c.channel, c'.request_ = c.request_, c'.pending_data_ = c.pending_data_,
             c'.awaits = c.awaits, IsWire(wire'), wire'.c2a = wire.c2a, wire'.s2c = wire.s2c, wire'.s2r = wire.s2r,
             wire'.r2s = wire.r2s, Late(y)'
      PROVE  HandshakeInv'
  <2>1. Records' /\ ConfigOK' /\ Ends' BY <1>0, <1>5, CfgSame DEF Records, Ends
  <2>2. Downwards(g, y)' BY <1>0, <1>1, <1>5 DEF Downwards, Data
  <2> QED BY <1>0, <1>1, <1>5, <2>1, <2>2 DEF HandshakeInv
<1>c. /\ UsedKinds' = UsedKinds /\ Awaited(k)' = Awaited(k) /\ Payload' = Payload /\ All' = All
      /\ \A a, b : PayloadTail(a, b)' = PayloadTail(a, b)
      /\ \A dest : Wanted(dest)' = Wanted(dest)
  BY <1>0, CfgSame DEF All
<1>6. CASE /\ UpstreamReady
           /\ c' = [c EXCEPT !.upstream_ = Tail(@)]
           /\ wire' = Sends("c2s", Head(c.upstream_))
  <2>1. /\ IsClient(c') /\ c'.closed = c.closed /\ c'.why = c.why /\ c'.reads = c.reads
        /\ c'.channel = c.channel /\ c'.request_ = c.request_ /\ c'.pending_data_ = c.pending_data_
        /\ c'.awaits = c.awaits /\ c'.upstream_ = Tail(c.upstream_)
    BY <1>0, <1>6 DEF Records, IsClient
  <2>2. IsWire(wire') /\ wire'.c2s = wire.c2s \o Head(c.upstream_) /\ SameWires(wire', wire, {"c2s"})
    BY <1>0, <1>6, WireStep DEF Records
  <2>3. /\ wire'.a2c = wire.a2c /\ wire'.c2a = wire.c2a /\ wire'.s2c = wire.s2c
        /\ wire'.s2r = wire.s2r /\ wire'.r2s = wire.r2s
    BY <2>2 DEF SameWires
  <2>r. Reading6(k5, k5)' BY <1>0, <1>4, <1>c, <2>1, <2>3 DEF Reading6
  <2>s. \A pl, t : Queue(k, pl, t)' = Queue(k, pl, t) BY <1>0, <2>1, RequestSame
  <2>4. CASE place = "unsent"
    <3>1. k4 = 0 BY <1>3, <2>4 DEF ClientAt
    <3>2. Head(c.upstream_) = Msg(k, Carried(k)) /\ Tail(c.upstream_) = Holes(k, tail)
      BY <1>4, <1>q, <2>4 DEF IsQueue
    <3>3. c'.upstream_ = Queue(k, "sent", tail) BY <2>1, <3>2 DEF Queue
    <3>4. Queue(k, "sent", PayloadTail(k4, k5))' = Queue(k, "sent", PayloadTail(k4, k5))
      BY <1>c, <2>s
    <3> HIDE DEF tail
    <3>5. ClientAt(k, "sent", k4, k5)'
      BY <1>0, <1>4, <1>c, <2>1, <2>4, <2>r, <3>1, <3>3, <3>4 DEF ClientAt, tail
    <3>6. Idle(k, place, at, k4)
      BY <1>3, <2>4 DEF ServerAt, Half, Writes, Ahead, Streams
    <3>7. ~s.closed => wire'.c2s = Front(k, Carried(k), Payload, 0, k4)
      <4>1. Front(k, Carried(k), Payload, 0, 0) = Msg(k, Carried(k)) /\ << >> \o Msg(k, Carried(k)) = Msg(k, Carried(k))
        <5> DEFINE e == Payload  w == Carried(k)
        <5> HIDE DEF e, w
        <5>1. Front(k, w, e, 0, 0) = Msg(k, w) /\ << >> \o Msg(k, w) = Msg(k, w) BY FrontAlone
        <5> QED BY <5>1 DEF e, w
      <4> QED BY <2>2, <2>4, <3>1, <3>2, <3>6, <4>1 DEF Idle
    <3>8. ServerAt(k, "sent", at, k1, k3, k4)'
      <4>1. Carried(k)' = Carried(k) /\ Knows(k, at)' = Knows(k, at) BY <1>0, <2>1, CfgSame, RequestSame
      <4>2. Nothing' = Nothing BY <1>0, <2>3 DEF Nothing
      <4>3. Idle(k, "sent", at, k4)' BY <1>0, <1>c, <3>6, <3>7, <4>1, <4>2 DEF Idle
      <4> QED BY <1>0, <1>3, <4>1, <4>3 DEF ServerAt
    <3>9. Backwards(k, "sent", at, y, z)'
      <4>1. at \in {"reads", "lost"} BY <3>6 DEF Idle
      <4>2. Answers(k, "sent", at)' = << >> /\ Answers(k, place, at) = << >> BY <4>1 DEF Answers
      <4> QED BY <1>0, <1>3, <2>1, <2>3, <4>2 DEF Backwards, Data
    <3>10. Late(y)' BY <1>2, <3>5, <3>8, <3>9 DEF Late, LateAt
    <3> QED BY <1>5, <2>1, <2>2, <2>3, <3>10
  <2>5. CASE place # "unsent"
    <3>1. place \in {"sent", "open"} BY <1>4, <2>5
    <3>2. Head(c.upstream_) # << >> /\ c.upstream_ # << >> BY <1>6 DEF UpstreamReady
    <3>3. k \in LastKinds
      <4> SUFFICES ASSUME k \in {"greet", "auth"} PROVE FALSE BY <1>4, KindsUsed
      <4>1. place = "sent" BY <1>4, <3>1 DEF LastKinds
      <4>2. c.upstream_ = Holes(k, tail) BY <1>4, <4>1 DEF Queue
      <4> QED BY <1>q, <3>2, <4>2 DEF IsQueue
    <3>4. c.upstream_ = tail BY <1>4, <3>1, <3>3, QueueLast
    <3>5. k4 # k5 /\ Head(c.upstream_) = Seg(Payload, k4, k5) /\ Tail(c.upstream_) = Leftover
      <4>1. Leftover = << >> \/ Head(Leftover) = << >> BY DEF Leftover
      <4> HIDE DEF tail
      <4> QED BY <1>q, <3>2, <3>4, <4>1 DEF IsQueue
    <3>6. ClientAt(k, place, k5, k5)'
      <4>0. Leftover' = Leftover BY <1>0, CfgSame
      <4>1. PayloadTail(k5, k5)' = Leftover BY <4>0 DEF PayloadTail, Chunks, Leftover
      <4>2. \A t : Queue(k, place, t) = t BY <1>4, <3>1, <3>3, QueueLast
      <4>3. Queue(k, place, PayloadTail(k5, k5))' = Leftover
        <5> DEFINE t == Leftover
        <5>1. Queue(k, place, t)' = t BY <2>s, <4>0, <4>2
        <5> QED BY <4>0, <4>1, <5>1
      <4> QED BY <1>0, <1>4, <1>c, <2>1, <2>r, <3>1, <3>3, <3>5, <4>3 DEF ClientAt
    <3>7. ServerAt(k, place, at, k1, k3, k5)'
      <4>1. wire'.c2s = wire.c2s \o Seg(Payload, k4, k5) BY <2>2, <3>5
      <4>2. app'.back = app.back BY <1>0
      <4> HIDE DEF tail
      <4> QED BY <1>0, <1>3, <1>4, <2>1, <2>3, <3>1, <3>3, <4>1, <4>2, ServerMore
    <3>8. Backwards(k, place, at, y, z)' BY <1>0, <1>3, <2>1, <2>3, BackKept
    <3>9. Late(y)' BY <1>2, <3>6, <3>7, <3>8 DEF Late, LateAt
    <3> QED BY <1>5, <2>1, <2>2, <2>3, <3>9
  <2> QED BY <2>4, <2>5
<1>7. CASE /\ c.upstream_ = << >>
           /\ \E n \in 1 .. Len(wire.a2c) :
                /\ c' = [c EXCEPT !.upstream_ = << First(wire.a2c, n) >>]
                /\ wire' = Taken("a2c", n)
  <2>0. PICK n \in 1 .. Len(wire.a2c) : /\ c' = [c EXCEPT !.upstream_ = << First(wire.a2c, n) >>]
                                        /\ wire' = Taken("a2c", n)
    BY <1>7
  <2>1. /\ IsClient(c') /\ c'.closed = c.closed /\ c'.why = c.why /\ c'.reads = c.reads
        /\ c'.channel = c.channel /\ c'.request_ = c.request_ /\ c'.pending_data_ = c.pending_data_
        /\ c'.awaits = c.awaits /\ c'.upstream_ = << First(wire.a2c, n) >>
    BY <1>0, <2>0 DEF Records, IsClient
  <2>2. IsWire(wire') /\ wire'.a2c = Rest(wire.a2c, n) /\ SameWires(wire', wire, {"a2c"})
    BY <1>0, <2>0, WireStep DEF Records
  <2>3. /\ wire'.c2s = wire.c2s /\ wire'.c2a = wire.c2a /\ wire'.s2c = wire.s2c
        /\ wire'.s2r = wire.s2r /\ wire'.r2s = wire.r2s
    BY <2>2 DEF SameWires
  <2>s. \A pl, t : Queue(k, pl, t)' = Queue(k, pl, t) BY <1>0, <2>1, RequestSame
  <2>4. place \in {"sent", "open"} BY <1>4, <1>7, <1>q DEF IsQueue
  <2>5. k \in LastKinds
    <3> SUFFICES ASSUME k \in {"greet", "auth"} PROVE FALSE BY <1>4, KindsUsed
    <3>1. place = "sent" BY <1>4, <2>4 DEF LastKinds
    <3>2. c.upstream_ = Holes(k, tail) BY <1>4, <3>1 DEF Queue
    <3> QED BY <1>7, <1>q, <3>2 DEF IsQueue
  <2>6. c.upstream_ = tail BY <1>4, <2>4, <2>5, QueueLast
  <2>7. k4 = k5 /\ Leftover = << >> BY <1>7, <1>q, <2>6 DEF IsQueue
  <2> DEFINE d == k5 + n
  <2>8. /\ d \in Nat /\ k4 <= d /\ k4 # d /\ d <= All
        /\ First(wire.a2c, n) = Seg(Payload, k5, d) /\ Rest(wire.a2c, n) = Seg(Payload, d, All)
    <3> DEFINE e == Payload  b == All
    <3>1. b \in Nat /\ k5 \in Nat /\ k5 <= b /\ wire.a2c = Seg(e, k5, b)
      BY <1>0, <1>4, NextChunk DEF Reading6
    <3> HIDE DEF e, b
    <3>2. IsPiece(Seg(e, k5, b), e, k5, b) BY <3>1, SegType
    <3>3. n \in 0 .. b - k5 /\ n \in Nat /\ n # 0 BY <2>0, <3>1, <3>2 DEF IsPiece
    <3>4. Cuts(e, k5, b, n) BY <3>1, <3>3, SegRead
    <3> QED BY <2>7, <3>1, <3>3, <3>4 DEF Cuts, e, b
  <2> HIDE DEF d
  <2>9. ClientAt(k, place, k4, d)'
    <3>1. PayloadTail(k4, d) = << Seg(Payload, k4, d) >>
      <4>1. Chunks(k4, d) = << Seg(Payload, k4, d) >> BY <2>8 DEF Chunks
      <4> QED BY <2>7, <4>1 DEF PayloadTail
    <3>2. Queue(k, place, PayloadTail(k4, d)) = PayloadTail(k4, d) BY <1>4, <2>4, <2>5, QueueLast
    <3>3. Queue(k, place, PayloadTail(k4, d))' = PayloadTail(k4, d) BY <1>c, <2>s, <3>2
    <3>4. c'.upstream_ = PayloadTail(k4, d) BY <2>1, <2>7, <2>8, <3>1
    <3>5. Reading6(d, d)'
      <4>1. Seg(Payload, d, d) = << >>
        <5> DEFINE e == Payload
        <5> HIDE DEF e
        <5>1. Seg(e, d, d) = << >> BY <2>8, SegEmpty
        <5> QED BY <5>1 DEF e
      <4>2. c.pending_data_ = << >>
        <5> DEFINE e == Payload
        <5>1. c.pending_data_ = Seg(e, k5, k5) BY <1>4 DEF Reading6
        <5> HIDE DEF e
        <5>2. Seg(e, k5, k5) = << >> BY <1>4, SegEmpty
        <5> QED BY <5>1, <5>2
      <4> QED BY <1>0, <1>4, <1>c, <2>1, <2>2, <2>8, <4>1, <4>2 DEF Reading6
    <3> QED BY <1>0, <1>4, <1>c, <2>1, <2>4, <2>5, <2>8, <3>3, <3>4, <3>5 DEF ClientAt
  <2>10. ServerAt(k, place, at, k1, k3, k4)' BY <1>0, <1>3, <2>1, <2>3, ServerSame
  <2>11. Backwards(k, place, at, y, z)' BY <1>0, <1>3, <2>1, <2>3, BackKept
  <2>12. Late(y)' BY <1>2, <2>8, <2>9, <2>10, <2>11 DEF Late, LateAt
  <2> QED BY <1>5, <2>1, <2>2, <2>3, <2>12
<1> QED BY <1>6, <1>7 DEF WriteUpstreamInPipe

LEMMA disconnectedInv == ASSUME HandshakeInv, disconnected PROVE HandshakeInv'
<1>0. /\ Records /\ ~c.closed /\ c.channel = "connected" /\ s.closed /\ c' = Ended(c, "peer")
      /\ cfg' = cfg /\ s' = s /\ app' = app /\ wire' = wire
  BY DEF HandshakeInv, disconnected
<1>1. IsWire(wire') /\ SameWires(wire', wire, {"s2c"}) BY <1>0 DEF Records, SameWires
<1> DEFINE why == "peer"
<1>2. c' = Ended(c, why) /\ (Reason(why) \/ (why = "peer" /\ s.closed)) BY <1>0
<1> HIDE DEF why
<1> QED BY <1>0, <1>1, <1>2, ClientEndsLate

\* One read of the channel.
R(x, b) == [conn |-> x, buf |-> b]
Read(r) ==
  ReadUpstreamSocksResponse(ReadUpstreamAuthResponse(
    ReadUpstreamMethodSelectResponse(ReadUpstreamHttpsHandshake(r))))

\* A step that does not apply.
Skipped(x, b, flag) == flag \notin x.awaits \/ b = << >> \/ x.closed

LEMMA Skips ==
  ASSUME NEW x, NEW b
  PROVE  /\ Skipped(x, b, "https") => ReadUpstreamHttpsHandshake(R(x, b)) = R(x, b)
         /\ Skipped(x, b, "method") => ReadUpstreamMethodSelectResponse(R(x, b)) = R(x, b)
         /\ Skipped(x, b, "auth") => ReadUpstreamAuthResponse(R(x, b)) = R(x, b)
         /\ Skipped(x, b, "socks") => ReadUpstreamSocksResponse(R(x, b)) = R(x, b)
<1> DEFINE r == R(x, b)
<1>1. r.conn = x /\ r.buf = b BY DEF R
<1> HIDE DEF r
<1>2. Skipped(x, b, "https") => ReadUpstreamHttpsHandshake(r) = r
  BY <1>1 DEF ReadUpstreamHttpsHandshake, Step, Skipped
<1>3. Skipped(x, b, "method") => ReadUpstreamMethodSelectResponse(r) = r
  BY <1>1 DEF ReadUpstreamMethodSelectResponse, Step, Skipped
<1>4. Skipped(x, b, "auth") => ReadUpstreamAuthResponse(r) = r
  BY <1>1 DEF ReadUpstreamAuthResponse, Step, Skipped
<1>5. Skipped(x, b, "socks") => ReadUpstreamSocksResponse(r) = r
  BY <1>1 DEF ReadUpstreamSocksResponse, Step, Skipped
<1> QED BY <1>2, <1>3, <1>4, <1>5 DEF r

\* A step that finds no answer, or half of one.
LEMMA StepEnds ==
  ASSUME NEW x, ~x.closed, NEW b, b # << >>, \A kind : ~Starts(b, kind)
  PROVE  LET e == R(Ended(x, Cause(b)), b) IN
         /\ "https" \in x.awaits => ReadUpstreamHttpsHandshake(R(x, b)) = e
         /\ "method" \in x.awaits => ReadUpstreamMethodSelectResponse(R(x, b)) = e
         /\ "auth" \in x.awaits => ReadUpstreamAuthResponse(R(x, b)) = e
         /\ "socks" \in x.awaits => ReadUpstreamSocksResponse(R(x, b)) = e
<1> DEFINE r == R(x, b)  e == R(Ended(x, Cause(b)), b)
<1>1. r.conn = x /\ r.buf = b BY DEF R
<1>2. [r EXCEPT !.conn = Ended(@, Cause(r.buf))] = e
  <2> DEFINE y == Ended(x, Cause(b))
  <2>1. Ended(r.conn, Cause(r.buf)) = y BY <1>1
  <2> HIDE DEF y
  <2>2. [r EXCEPT !.conn = y] = R(y, b) BY DEF R
  <2>3. [r EXCEPT !.conn = Ended(@, Cause(r.buf))] = [r EXCEPT !.conn = Ended(r.conn, Cause(r.buf))] BY DEF R
  <2> QED BY <2>1, <2>2, <2>3 DEF y
<1> HIDE DEF r, e
<1>3. "https" \in x.awaits => ReadUpstreamHttpsHandshake(r) = e
  BY <1>1, <1>2 DEF ReadUpstreamHttpsHandshake, Step
<1>4. "method" \in x.awaits => ReadUpstreamMethodSelectResponse(r) = e
  BY <1>1, <1>2 DEF ReadUpstreamMethodSelectResponse, Step
<1>5. "auth" \in x.awaits => ReadUpstreamAuthResponse(r) = e
  BY <1>1, <1>2 DEF ReadUpstreamAuthResponse, Step
<1>6. "socks" \in x.awaits => ReadUpstreamSocksResponse(r) = e
  BY <1>1, <1>2 DEF ReadUpstreamSocksResponse, Step
<1> QED BY <1>3, <1>4, <1>5, <1>6 DEF r, e

\* A read that returns half an answer ends the client.
LEMMA ReadHalf ==
  ASSUME IsClient(c), c.closed = FALSE, NEW k, k \in UsedKinds, k # "ss", c.awaits = Awaited(k),
         NEW b, b # << >>, \A kind : ~Starts(b, kind)
  PROVE  Read(R(c, b)) = R(Ended(c, Cause(b)), b)
<1> DEFINE y == Ended(c, Cause(b))
<1>0. y.closed = TRUE
  <2> DEFINE w == Cause(b)
  <2> HIDE DEF w
  <2>1. ClientEnded(Ended(c, w), c, w) BY EndedClient
  <2> QED BY <2>1 DEF ClientEnded, w
<1>1. LET e == R(y, b) IN
         /\ "https" \in c.awaits => ReadUpstreamHttpsHandshake(R(c, b)) = e
         /\ "method" \in c.awaits => ReadUpstreamMethodSelectResponse(R(c, b)) = e
         /\ "auth" \in c.awaits => ReadUpstreamAuthResponse(R(c, b)) = e
         /\ "socks" \in c.awaits => ReadUpstreamSocksResponse(R(c, b)) = e
  BY StepEnds
<1> HIDE DEF y
<1>2. /\ ReadUpstreamHttpsHandshake(R(y, b)) = R(y, b)
      /\ ReadUpstreamMethodSelectResponse(R(y, b)) = R(y, b)
      /\ ReadUpstreamAuthResponse(R(y, b)) = R(y, b)
      /\ ReadUpstreamSocksResponse(R(y, b)) = R(y, b)
  BY <1>0, Skips DEF Skipped
<1>3. /\ "https" \notin c.awaits => ReadUpstreamHttpsHandshake(R(c, b)) = R(c, b)
      /\ "method" \notin c.awaits => ReadUpstreamMethodSelectResponse(R(c, b)) = R(c, b)
      /\ "auth" \notin c.awaits => ReadUpstreamAuthResponse(R(c, b)) = R(c, b)
  BY Skips DEF Skipped
<1>4. "https" \in c.awaits \/ "method" \in c.awaits \/ "auth" \in c.awaits \/ "socks" \in c.awaits
  BY KindsUsed DEF Awaited
<1>5. Read(R(c, b)) = R(y, b)
  <2>1. CASE "https" \in c.awaits BY <1>1, <1>2, <2>1 DEF Read
  <2>2. CASE "https" \notin c.awaits /\ "method" \in c.awaits BY <1>1, <1>2, <1>3, <2>2 DEF Read
  <2>3. CASE "https" \notin c.awaits /\ "method" \notin c.awaits /\ "auth" \in c.awaits
    BY <1>1, <1>2, <1>3, <2>3 DEF Read
  <2>4. CASE "https" \notin c.awaits /\ "method" \notin c.awaits /\ "auth" \notin c.awaits
    BY <1>1, <1>3, <1>4, <2>4 DEF Read
  <2> QED BY <2>1, <2>2, <2>3, <2>4
<1> QED BY <1>5 DEF y

\* A read while no answer is awaited.
LEMMA ReadPlain ==
  ASSUME c.awaits = {}, NEW b
  PROVE  Read(R(c, b)) = R(c, b)
BY Skips DEF Skipped, Read

\* The last answer has come.
LEMMA ReadLast ==
  ASSUME IsClient(c), c.closed = FALSE, NEW k, k \in {"connect", "req4", "req5"}, c.awaits = Awaited(k),
         NEW b, NEW rest, Parsed(b, IF k = "connect" THEN "ok" ELSE "granted", "none", rest)
  PROVE  Read(R(c, b)) = R([c EXCEPT !.awaits = {}], rest)
<1> DEFINE r == R(c, b)  d == [c EXCEPT !.awaits = {}]
<1>0. r.conn = c /\ r.buf = b BY DEF R
<1>1. d.awaits = {} BY DEF IsClient
<1>p. b # << >> /\ Behind(b) = rest /\ Starts(b, IF k = "connect" THEN "ok" ELSE "granted")
  BY DEF Parsed
<1>2. CASE k = "connect"
  <2>1. c.awaits = {"https"} BY <1>2 DEF Awaited
  <2>2. Answered(c, "https") = d
    <3>1. c.awaits \ {"https"} = {} BY <2>1
    <3> QED BY <3>1 DEF Answered, IsClient
  <2> HIDE DEF d
  <2>3. ReadUpstreamHttpsHandshake(r) = R(d, rest)
    <3> HIDE DEF r
    <3> QED BY <1>0, <1>2, <1>p, <2>1, <2>2 DEF ReadUpstreamHttpsHandshake, Step, R, Any, Same
  <2>4. /\ ReadUpstreamMethodSelectResponse(R(d, rest)) = R(d, rest)
        /\ ReadUpstreamAuthResponse(R(d, rest)) = R(d, rest)
        /\ ReadUpstreamSocksResponse(R(d, rest)) = R(d, rest)
    BY <1>1, Skips DEF Skipped
  <2> QED BY <2>3, <2>4 DEF Read, d
<1>3. CASE k # "connect"
  <2>1. c.awaits = {"socks"} BY <1>3 DEF Awaited
  <2>2. Answered(c, "socks") = d
    <3>1. c.awaits \ {"socks"} = {} BY <2>1
    <3> QED BY <3>1 DEF Answered, IsClient
  <2> HIDE DEF d
  <2>3. ReadUpstreamSocksResponse(r) = R(d, rest)
    <3> HIDE DEF r
    <3> QED BY <1>0, <1>3, <1>p, <2>1, <2>2 DEF ReadUpstreamSocksResponse, Step, R, Any, Same
  <2>4. /\ ReadUpstreamHttpsHandshake(R(c, b)) = R(c, b)
        /\ ReadUpstreamMethodSelectResponse(R(c, b)) = R(c, b)
        /\ ReadUpstreamAuthResponse(R(c, b)) = R(c, b)
    BY <2>1, Skips DEF Skipped
  <2> QED BY <2>3, <2>4 DEF Read, d
<1> QED BY <1>2, <1>3

\* An answer that lets the next message go.
NextMessage(x, q) == [x EXCEPT !.upstream_ = << Msg(q, Carried(q)) >> \o Tail(x.upstream_), !.awaits = Awaited(q)]

IsAnswered(y, x, flag) == IsClient(y) /\ y = [x EXCEPT !.awaits = x.awaits \ {flag}]

LEMMA AnsweredIs ==
  ASSUME NEW x, IsClient(x), NEW flag
  PROVE  IsAnswered(Answered(x, flag), x, flag)
<1>1. Answered(x, flag) = [x EXCEPT !.awaits = x.awaits \ {flag}] BY DEF Answered
<1> DEFINE u == x.awaits \ {flag}
<1> HIDE DEF u
<1>2. IsClient([x EXCEPT !.awaits = u]) BY DEF IsClient
<1> QED BY <1>1, <1>2 DEF IsAnswered, u

LEMMA FillsIs ==
  ASSUME NEW x, IsClient(x), NEW m
  PROVE  Fills(x, m) = [x EXCEPT !.upstream_ = << m >> \o Tail(x.upstream_)]
BY DEF Fills, IsClient

LEMMA ReadNext ==
  ASSUME IsClient(c), c.closed = FALSE, ConfigOK, NEW k, k \in UsedKinds, k \in {"greet", "auth"}, c.awaits = Awaited(k),
         NEW b, Parsed(b, IF k = "greet" THEN "method" ELSE "authok",
                          IF k = "greet" THEN Carried("greet") ELSE "none", << >>)
  PROVE  Read(R(c, b)) = R(NextMessage(c, NextKind(k)), << >>)
<1> DEFINE r == R(c, b)  d == NextMessage(c, NextKind(k))
<1>0. r.conn = c /\ r.buf = b BY DEF R
<1>p. /\ b # << >> /\ Behind(b) = << >> /\ Starts(b, IF k = "greet" THEN "method" ELSE "authok")
      /\ What(b) = IF k = "greet" THEN Carried("greet") ELSE "none"
  BY DEF Parsed
<1>s. \A x : /\ ReadUpstreamMethodSelectResponse(R(x, << >>)) = R(x, << >>)
             /\ ReadUpstreamAuthResponse(R(x, << >>)) = R(x, << >>)
             /\ ReadUpstreamSocksResponse(R(x, << >>)) = R(x, << >>)
  BY Skips DEF Skipped
<1>h. ReadUpstreamHttpsHandshake(r) = r
  <2>1. "https" \notin c.awaits BY DEF Awaited
  <2> QED BY <2>1, Skips DEF Skipped
<1>1. CASE k = "greet" /\ AuthRequired
  <2>1. c.awaits = {"method", "auth"} /\ NextKind(k) = "auth" /\ Awaited("auth") = {"auth"}
    BY <1>1 DEF Awaited, NextKind
  <2> DEFINE x == Answered(c, "method")
  <2>2. x = [c EXCEPT !.awaits = {"auth"}]
    <3>1. c.awaits \ {"method"} = {"auth"} BY <2>1
    <3>2. IsAnswered(x, c, "method") BY AnsweredIs
    <3> QED BY <3>1, <3>2 DEF IsAnswered
  <2>3. x.awaits = {"auth"} BY <2>2 DEF IsClient
  <2>4. WriteUpstreamAuthRequest(x) = d
    <3>1. x.upstream_ = c.upstream_ BY <2>2 DEF IsClient
    <3>2. IsClient(x) BY AnsweredIs DEF IsAnswered
    <3> DEFINE m == Msg("auth", cfg.credentials)  u == << m >> \o Tail(c.upstream_)
    <3>3. WriteUpstreamAuthRequest(x) = [x EXCEPT !.upstream_ = u]
      <4> HIDE DEF x, m
      <4> QED BY FillsIs, <3>1, <3>2 DEF WriteUpstreamAuthRequest, m
    <3>4. d = [c EXCEPT !.upstream_ = u, !.awaits = {"auth"}] BY <2>1 DEF NextMessage, Carried
    <3> HIDE DEF u, x, d
    <3> QED BY <2>2, <3>3, <3>4 DEF IsClient
  <2> HIDE DEF x, d
  <2>5. What(b) = "auth" BY <1>1, <1>p DEF Carried
  <2>6. ReadUpstreamMethodSelectResponse(r) = R(d, << >>)
    <3> HIDE DEF r
    <3> QED BY <1>0, <1>1, <1>p, <2>1, <2>3, <2>4, <2>5 DEF ReadUpstreamMethodSelectResponse, Step, R, x
  <2> QED BY <1>h, <1>s, <2>6 DEF Read, d
<1>2. CASE ~(k = "greet" /\ AuthRequired)
  <2>1. NextKind(k) = "req5" /\ Awaited("req5") = {"socks"} BY <1>2 DEF Awaited, NextKind
  <2> DEFINE flag == IF k = "greet" THEN "method" ELSE "auth"
             x == Answered(c, flag)
  <2>2. c.awaits = {flag} BY <1>2 DEF Awaited
  <2>3. x = [c EXCEPT !.awaits = {}]
    <3> HIDE DEF flag
    <3>1. c.awaits \ {flag} = {} BY <2>2
    <3>2. IsAnswered(x, c, flag) BY AnsweredIs
    <3> QED BY <3>1, <3>2 DEF IsAnswered
  <2>4. x.awaits = {} /\ x.upstream_ = c.upstream_ /\ x.request_ = c.request_ BY <2>3 DEF IsClient
  <2>5. WriteUpstreamSocks5Request(x) = d
    <3>1. IsClient(x)
      <4> HIDE DEF flag
      <4> QED BY AnsweredIs DEF IsAnswered
    <3> DEFINE m == Msg("req5", c.request_)  u == << m >> \o Tail(c.upstream_)
               z == [x EXCEPT !.upstream_ = u]
    <3>2. Fills(x, Msg("req5", x.request_)) = z
      <4> HIDE DEF x, m
      <4>1. Fills(x, m) = [x EXCEPT !.upstream_ = << m >> \o Tail(x.upstream_)] BY FillsIs, <3>1
      <4> QED BY <2>4, <4>1 DEF m
    <3>3. d = [c EXCEPT !.upstream_ = u, !.awaits = {"socks"}] BY <2>1 DEF NextMessage, Carried
    <3> HIDE DEF u, x, d
    <3>4. z = [c EXCEPT !.upstream_ = u, !.awaits = {}] BY <2>3 DEF IsClient
    <3>5. z.awaits = {} /\ [z EXCEPT !.awaits = {"socks"}] = d
      <4> HIDE DEF z
      <4> QED BY <3>3, <3>4 DEF IsClient
    <3> HIDE DEF z
    <3>6. WriteUpstreamSocks5Request(x) = [z EXCEPT !.awaits = @ \union {"socks"}]
      BY <3>2 DEF WriteUpstreamSocks5Request
    <3>7. [z EXCEPT !.awaits = @ \union {"socks"}] = [z EXCEPT !.awaits = {"socks"}]
      <4>1. z.awaits \union {"socks"} = {"socks"} BY <3>5
      <4> QED BY <3>4, <4>1 DEF IsClient
    <3> QED BY <3>5, <3>6, <3>7
  <2>6. CASE k = "greet"
    <3> HIDE DEF d
    <3>1. What(b) = "noauth" BY <1>2, <1>p, <2>6 DEF Carried
    <3>2. x = Answered(c, "method") /\ c.awaits = {"method"} BY <2>2, <2>6
    <3> HIDE DEF x
    <3>3. ReadUpstreamMethodSelectResponse(r) = R(d, << >>)
      <4> HIDE DEF r
      <4> QED BY <1>0, <2>6, <1>p, <2>4, <2>5, <3>1, <3>2 DEF ReadUpstreamMethodSelectResponse, Step, R
    <3> QED BY <1>h, <1>s, <3>3 DEF Read, d
  <2>7. CASE k = "auth"
    <3> HIDE DEF d
    <3>2. x = Answered(c, "auth") /\ c.awaits = {"auth"} BY <2>2, <2>7
    <3> HIDE DEF x
    <3>3. ReadUpstreamAuthResponse(r) = R(d, << >>)
      <4> HIDE DEF r
      <4> QED BY <1>0, <2>7, <1>p, <2>5, <3>2 DEF ReadUpstreamAuthResponse, Step, R, Any
    <3>4. ReadUpstreamMethodSelectResponse(R(c, b)) = R(c, b) BY <3>2, Skips DEF Skipped
    <3> QED BY <1>h, <1>s, <3>3, <3>4 DEF Read, d
  <2> QED BY <2>6, <2>7
<1> QED BY <1>1, <1>2

Grows(k, w, e, a, b, d) == Front(k, w, e, a, b) \o Seg(e, b, d) = Front(k, w, e, a, d)

LEMMA FrontGrows ==
  ASSUME NEW k, NEW w, NEW e, NEW a, NEW b, NEW d, a \in Nat, b \in Nat, d \in Nat, a <= b, b <= d
  PROVE  Grows(k, w, e, a, b, d)
BY FrontCat DEF Grows

\* Payload for the application.
LEMMA DownMore ==
  ASSUME NEW g, NEW y, NEW m, g \in Nat, y \in Nat, m \in Nat, y <= m, Downwards(g, y), ~c.closed, c.reads = "stream",
         app' = app, wire'.c2a = wire.c2a \o Seg(Data, y, m)
  PROVE  Downwards(g, m)'
<1> DEFINE e == Data
<1>1. /\ g <= y /\ g <= m /\ app.got = Seg(e, 0, g)
      /\ wire.c2a = Seg(e, g, y) \/ wire.c2a = Front("granted", "none", e, g, y)
  BY DEF Downwards
<1>2. wire'.c2a = wire.c2a \o Seg(e, y, m) /\ Data' = e BY DEF Data
<1> HIDE DEF e
<1>3. Seg(e, g, y) \o Seg(e, y, m) = Seg(e, g, m) BY <1>1, SegCat
<1> DEFINE k == "granted"  w == "none"
<1> HIDE DEF k, w
<1>a. g <= y BY <1>1
<1>b. Grows(k, w, e, g, y, m) BY <1>a, FrontGrows
<1>4. Front(k, w, e, g, y) \o Seg(e, y, m) = Front(k, w, e, g, m) BY <1>b DEF Grows
<1>5. wire'.c2a = Seg(e, g, m) \/ wire'.c2a = Front("granted", "none", e, g, m) BY <1>1, <1>2, <1>3, <1>4 DEF k, w
<1> QED BY <1>1, <1>2, <1>5 DEF Downwards

LEMMA ReadUpstreamInv == ASSUME HandshakeInv, ReadUpstream PROVE HandshakeInv'
<1>0. /\ ConfigOK /\ Records /\ app.sent \in Nat /\ app.back \in Nat /\ Ends
      /\ ~c.closed /\ c.channel = "connected" /\ cfg' = cfg /\ s' = s /\ app' = app
      /\ c.closed = FALSE /\ IsClient(c)
  BY DEF HandshakeInv, ReadUpstream, Records
<1>1. PICK g, y \in Nat : Downwards(g, y) /\ (Early(y) \/ Late(y)) BY DEF HandshakeInv
<1>2. PICK k, place, at, k1, k3, k4, k5, z : LateAt(k, place, at, k1, k3, k4, k5, y, z)
  BY <1>0, <1>1 DEF Early, Late
<1>3. /\ ClientAt(k, place, k4, k5) /\ ServerAt(k, place, at, k1, k3, k4)
      /\ Backwards(k, place, at, y, z)
  BY <1>2 DEF LateAt
<1> DEFINE tail == PayloadTail(k4, k5)
<1>4. /\ k \in UsedKinds /\ place \in {"unsent", "sent", "open"} /\ c.upstream_ = Queue(k, place, tail)
      /\ k4 \in Nat /\ k5 \in Nat /\ k4 <= k5 /\ (place = "open" => k \in LastKinds)
      /\ c.reads = "stream" /\ Wanted(c.request_) /\ Reading6(k5, k5)
      /\ c.awaits = (IF place = "open" THEN {} ELSE Awaited(k))
      /\ (k \notin LastKinds => k4 = 0)
  BY <1>0, <1>3 DEF ClientAt
<1>5. /\ z \in Nat /\ y <= z /\ z <= app.back
      /\ wire.s2c = Answers(k, place, at) \o Seg(Data, y, z) /\ wire.r2s = Seg(Data, z, app.back)
  BY <1>0, <1>3 DEF Backwards
<1>6. PICK n \in 1 .. Len(wire.s2c) :
        /\ c' = Read(R(c, First(wire.s2c, n))).conn
        /\ wire' = IF Read(R(c, First(wire.s2c, n))).conn.closed THEN Taken("s2c", n)
                   ELSE [Taken("s2c", n) EXCEPT !.c2a = @ \o Read(R(c, First(wire.s2c, n))).buf]
  BY DEF ReadUpstream, Read, R
<1> DEFINE buf == First(wire.s2c, n)
<1>7. ASSUME NEW x, NEW rest, Read(R(c, buf)) = R(x, rest), IsClient(x), x.closed = FALSE
      PROVE  /\ c' = x /\ IsWire(wire') /\ wire'.s2c = Rest(wire.s2c, n) /\ wire'.c2a = wire.c2a \o rest
             /\ wire'.a2c = wire.a2c /\ wire'.c2s = wire.c2s /\ wire'.s2r = wire.s2r /\ wire'.r2s = wire.r2s
  <2>1. R(x, rest).conn = x /\ R(x, rest).buf = rest BY DEF R
  <2>2. c' = x /\ wire' = [Taken("s2c", n) EXCEPT !.c2a = @ \o rest]
    <3> HIDE DEF buf
    <3> QED BY <1>6, <1>7, <2>1 DEF buf
  <2>3. IsWire(wire) BY <1>0 DEF Records
  <2> QED BY <2>2, <2>3 DEF IsWire, Taken
<1>c. /\ UsedKinds' = UsedKinds /\ Payload' = Payload /\ All' = All /\ ConfigOK' /\ Data' = Data
      /\ (\A q : Awaited(q)' = Awaited(q))
      /\ (\A a, b : PayloadTail(a, b)' = PayloadTail(a, b))
      /\ (\A dest : Wanted(dest)' = Wanted(dest))
  BY <1>0, CfgSame DEF All, Data
<1>8. ASSUME c.awaits = {} PROVE HandshakeInv'
  <2>1. k = "ss" \/ place = "open" BY <1>4, <1>8, KindsUsed DEF Awaited
  <2>2. Answers(k, place, at) = << >>
    <3>1. CASE k = "ss" BY <3>1 DEF Answers, Reply
    <3>2. CASE place = "open"
      <4>1. at \notin {"ahead", "ahead_lost"} BY <1>3, <3>2 DEF ServerAt, Idle, Half, Writes, Ahead, Streams
      <4> QED BY <3>2, <4>1 DEF Answers
    <3> QED BY <2>1, <3>1, <3>2
  <2> DEFINE m == y + n
  <2>3. /\ m \in Nat /\ y <= m /\ m <= z /\ wire.s2c = Seg(Data, y, z)
        /\ buf = Seg(Data, y, m) /\ Rest(wire.s2c, n) = Seg(Data, m, z)
    <3> DEFINE e == Data
    <3>1. wire.s2c = << >> \o Seg(e, y, z) BY <1>5, <2>2
    <3> HIDE DEF e
    <3>2. IsPiece(Seg(e, y, z), e, y, z) BY <1>5, SegType
    <3>3. wire.s2c = Seg(e, y, z) BY <3>1, <3>2, ConcatEmptySeq DEF IsPiece
    <3>4. n \in 0 .. z - y /\ n \in Nat BY <1>5, <1>6, <3>2, <3>3 DEF IsPiece
    <3>5. Cuts(e, y, z, n) BY <1>5, <3>4, SegRead
    <3> QED BY <1>5, <3>3, <3>4, <3>5 DEF Cuts, e
  <2>4. Read(R(c, buf)) = R(c, buf)
    <3> HIDE DEF buf
    <3> QED BY <1>8, ReadPlain
  <2>5. /\ c' = c /\ IsWire(wire') /\ wire'.s2c = Rest(wire.s2c, n) /\ wire'.c2a = wire.c2a \o buf
        /\ wire'.a2c = wire.a2c /\ wire'.c2s = wire.c2s /\ wire'.s2r = wire.s2r /\ wire'.r2s = wire.r2s
    <3> HIDE DEF buf
    <3> QED BY <1>0, <1>7, <2>4
  <2> HIDE DEF buf, m
  <2>6. Downwards(g, m)'
    <3>1. wire'.c2a = wire.c2a \o Seg(Data, y, m) BY <2>3, <2>5
    <3> HIDE DEF Data
    <3> QED BY <1>0, <1>1, <1>4, <2>3, <3>1, DownMore
  <2>7. ClientAt(k, place, k4, k5)' BY <1>0, <1>3, <2>5, ClientSame
  <2>8. ServerAt(k, place, at, k1, k3, k4)' BY <1>0, <1>3, <2>5, ServerSame
  <2>9. Backwards(k, place, at, m, z)'
    <3>1. Answers(k, place, at)' = << >> BY <1>0, <2>2, <2>5, RequestSame
    <3>2. wire'.s2c = << >> \o Seg(Data, m, z)
      <4> DEFINE e == Data
      <4>1. wire'.s2c = Seg(e, m, z) BY <2>3, <2>5
      <4> HIDE DEF e
      <4>2. IsPiece(Seg(e, m, z), e, m, z) BY <1>5, <2>3, SegType
      <4>3. << >> \o Seg(e, m, z) = Seg(e, m, z) BY <4>2, ConcatEmptySeq DEF IsPiece
      <4> QED BY <4>1, <4>3 DEF e
    <3> HIDE DEF Data
    <3> QED BY <1>0, <1>5, <1>c, <2>3, <2>5, <3>1, <3>2 DEF Backwards
  <2>10. Late(m)' BY <1>2, <2>3, <2>7, <2>8, <2>9 DEF Late, LateAt
  <2>11. Records' /\ Ends' BY <1>0, <2>5, CfgSame DEF Records, Ends
  <2> QED BY <1>0, <1>1, <1>c, <2>3, <2>6, <2>10, <2>11 DEF HandshakeInv
<1>9. ASSUME c.awaits # {} PROVE HandshakeInv'
  <2>1. place # "open" /\ k # "ss" /\ c.awaits = Awaited(k) BY <1>4, <1>9 DEF Awaited
  <2>2. at \in {"ahead", "ahead_lost"} \/ (at = "stream" /\ place = "sent")
    <3> SUFFICES ASSUME ~(at \in {"ahead", "ahead_lost"} \/ (at = "stream" /\ place = "sent")) PROVE FALSE
      OBVIOUS
    <3>1. Answers(k, place, at) = << >> BY DEF Answers
    <3>2. at # "stream" BY <1>3, <2>1 DEF ServerAt, Idle, Half, Writes, Ahead, Streams
    <3>3. app.back = 0 BY <1>3, <3>2 DEF ServerAt
    <3>4. y = 0 /\ z = 0 BY <1>5, <3>3
    <3> DEFINE e == Data
    <3>5. wire.s2c = << >> \o Seg(e, 0, 0) BY <1>5, <3>1, <3>4
    <3> HIDE DEF e
    <3>6. Seg(e, 0, 0) = << >> BY SegEmpty
    <3>7. wire.s2c = << >> BY <3>5, <3>6
    <3> QED BY <1>6, <3>7
  <2>k. k \in {"connect", "req4", "req5", "greet", "auth"} BY <1>4, <2>1, KindsUsed
  <2>p. PICK kind, w : kind = (CASE k = "connect" -> "ok" [] k = "greet" -> "method" [] k = "auth" -> "authok"
                                 [] OTHER -> "granted")
                       /\ w = (IF k = "greet" THEN Carried("greet") ELSE "none")
    OBVIOUS
  <2>3. wire.s2c = Front(kind, w, Data, y, z)
    <3>1. Answers(k, place, at) = Reply(k) BY <2>2 DEF Answers
    <3>2. Reply(k) = Msg(kind, w) BY <2>k, <2>p DEF Reply
    <3> QED BY <1>5, <3>1, <3>2 DEF Front
  <2>4. Reads(wire.s2c, n, kind, w, Data, y, z)
    <3> DEFINE e == Data
    <3> HIDE DEF e
    <3>1. n \in 1 .. Len(Front(kind, w, e, y, z)) BY <1>6, <2>3 DEF e
    <3>2. Reads(Front(kind, w, e, y, z), n, kind, w, e, y, z) BY <1>1, <1>5, <3>1, ReadFront
    <3> QED BY <2>3, <3>2 DEF e
  <2>5. CASE n = 1
    <3>1. buf = << <<kind, w, 1>> >> BY <2>4, <2>5 DEF Reads
    <3>2. LET x == << <<kind, w, 1>> >> IN x # << >> /\ Cause(x) = "split" /\ \A q : ~Starts(x, q)
      BY ParseHalf
    <3>3. buf # << >> /\ Cause(buf) = "split" /\ \A q : ~Starts(buf, q) BY <3>1, <3>2
    <3>4. Read(R(c, buf)) = R(Ended(c, Cause(buf)), buf)
      <4> HIDE DEF buf
      <4> QED BY <1>0, <1>4, <2>1, <3>3, ReadHalf
    <3> DEFINE why == "split"
    <3>5. Read(R(c, buf)) = R(Ended(c, why), buf) BY <3>3, <3>4
    <3>6. Reason(why) BY DEF Reason
    <3> HIDE DEF why
    <3>7. ClientEnded(Ended(c, why), c, why) BY <1>0, EndedClient
    <3>8. c' = Ended(c, why) /\ wire' = Taken("s2c", n)
      <4>1. R(Ended(c, why), buf).conn = Ended(c, why) BY DEF R
      <4>2. Ended(c, why).closed = TRUE BY <3>7 DEF ClientEnded
      <4> HIDE DEF buf
      <4> QED BY <1>6, <3>5, <4>1, <4>2 DEF buf
    <3>9. IsWire(wire') /\ SameWires(wire', wire, {"s2c"}) BY <1>0, <3>8, WireStep DEF Records
    <3> QED BY <1>0, <3>6, <3>8, <3>9, ClientEndsLate
  <2>6. CASE n # 1
    <3> DEFINE m == y + (n - 2)
    <3>1. m \in Nat /\ y <= m /\ m <= z /\ buf = Front(kind, w, Data, y, m) /\ Rest(wire.s2c, n) = Seg(Data, m, z)
      BY <2>4, <2>6 DEF Reads
    <3>2. Parsed(buf, kind, w, Seg(Data, y, m))
      <4> DEFINE e == Data
      <4> HIDE DEF e, buf, m
      <4>1. Parsed(Front(kind, w, e, y, m), kind, w, Seg(e, y, m)) BY <1>1, <3>1, ParseFront
      <4> QED BY <3>1, <4>1 DEF e
    <3> HIDE DEF buf, m
    <3>3. CASE k \in LastKinds
      <4>1. k \in {"connect", "req4", "req5"} /\ kind = (IF k = "connect" THEN "ok" ELSE "granted") /\ w = "none"
        BY <2>k, <2>p, <3>3 DEF LastKinds
      <4> DEFINE x == [c EXCEPT !.awaits = {}]  rest == Seg(Data, y, m)
      <4>2. Read(R(c, buf)) = R(x, rest)
        <5> HIDE DEF rest
        <5>1. Parsed(buf, IF k = "connect" THEN "ok" ELSE "granted", "none", rest) BY <3>2, <4>1 DEF rest
        <5> QED BY <1>0, <2>1, <4>1, <5>1, ReadLast
      <4>3. /\ IsClient(x) /\ x.closed = c.closed /\ x.why = c.why /\ x.reads = c.reads
            /\ x.channel = c.channel /\ x.request_ = c.request_ /\ x.pending_data_ = c.pending_data_
            /\ x.awaits = {} /\ x.upstream_ = c.upstream_
        <5> DEFINE v == {}
        <5>1. x = [c EXCEPT !.awaits = v] OBVIOUS
        <5> HIDE DEF v, x
        <5>2. /\ IsClient(x) /\ x.closed = c.closed /\ x.why = c.why /\ x.reads = c.reads
              /\ x.channel = c.channel /\ x.request_ = c.request_ /\ x.pending_data_ = c.pending_data_
              /\ x.awaits = v /\ x.upstream_ = c.upstream_
          BY <1>0, <5>1 DEF IsClient
        <5> QED BY <5>2 DEF v
      <4> HIDE DEF x
      <4>4. /\ c' = x /\ IsWire(wire') /\ wire'.s2c = Rest(wire.s2c, n) /\ wire'.c2a = wire.c2a \o rest
            /\ wire'.a2c = wire.a2c /\ wire'.c2s = wire.c2s /\ wire'.s2r = wire.s2r /\ wire'.r2s = wire.r2s
        <5> HIDE DEF rest
        <5> QED BY <1>0, <1>7, <4>2, <4>3
      <4>5. Downwards(g, m)'
        <5> HIDE DEF Data
        <5> QED BY <1>0, <1>1, <1>4, <3>1, <4>4, DownMore
      <4>6. at = "stream" /\ place = "sent" BY <1>3, <2>2, <4>1 DEF ServerAt, Idle, Half, Writes, Ahead, Streams
      <4>7. ClientAt(k, "open", k4, k5)'
        <5>1. \A t : Queue(k, "sent", t) = t /\ Queue(k, "open", t) = t BY <1>4, <3>3, QueueLast
        <5>2. Queue(k, "open", PayloadTail(k4, k5))' = PayloadTail(k4, k5)
          <6>1. \A pl, t : Queue(k, pl, t)' = Queue(k, pl, t) BY <1>0, <4>3, <4>4, RequestSame
          <6> QED BY <1>c, <5>1, <6>1
        <5>3. c'.upstream_ = PayloadTail(k4, k5) BY <1>4, <4>3, <4>4, <4>6, <5>1
        <5>4. Reading6(k5, k5)' BY <1>0, <1>4, <1>c, <4>3, <4>4 DEF Reading6
        <5> QED BY <1>0, <1>4, <1>c, <3>3, <4>3, <4>4, <5>2, <5>3, <5>4 DEF ClientAt
      <4>8. ServerAt(k, "open", at, k1, k3, k4)'
        <5>1. Streams(k, place, at, k1, k3, k4) BY <1>3, <4>6 DEF ServerAt, Idle, Half, Writes, Ahead
        <5>2. Streams(k, "open", at, k1, k3, k4)' BY <1>0, <1>c, <4>3, <4>4, <5>1 DEF Streams
        <5>3. Knows(k, at)' = Knows(k, at) BY <1>0, CfgSame
        <5> QED BY <1>0, <1>3, <4>6, <5>2, <5>3 DEF ServerAt
      <4>9. Backwards(k, "open", at, m, z)'
        <5>1. Answers(k, "open", at)' = << >> BY <4>6 DEF Answers
        <5>2. wire'.s2c = << >> \o Seg(Data, m, z)
          <6> DEFINE e == Data
          <6>1. wire'.s2c = Seg(e, m, z) BY <3>1, <4>4
          <6> HIDE DEF e
          <6>2. IsPiece(Seg(e, m, z), e, m, z) BY <1>5, <3>1, SegType
          <6>3. << >> \o Seg(e, m, z) = Seg(e, m, z) BY <6>2, ConcatEmptySeq DEF IsPiece
          <6> QED BY <6>1, <6>3 DEF e
        <5> HIDE DEF Data
        <5> QED BY <1>0, <1>5, <1>c, <3>1, <4>4, <5>1, <5>2 DEF Backwards
      <4>10. Late(m)' BY <1>2, <3>1, <4>7, <4>8, <4>9 DEF Late, LateAt
      <4>11. Records' /\ Ends' BY <1>0, <4>3, <4>4, CfgSame DEF Records, Ends
      <4> QED BY <1>0, <1>1, <1>c, <3>1, <4>5, <4>10, <4>11 DEF HandshakeInv
    <3>4. CASE k \notin LastKinds
      <4>1. k \in {"greet", "auth"} BY <1>4, <3>4, KindsUsed
      <4>2. Ahead(k, place, at) BY <1>3, <2>2, <3>4 DEF ServerAt, Idle, Half, Writes, Streams
      <4>3. app.back = 0 BY <1>3, <4>2 DEF ServerAt, Ahead
      <4>4. y = 0 /\ z = 0 /\ m = 0 BY <1>5, <3>1, <4>3
      <4>5. Seg(Data, 0, 0) = << >>
        <5> HIDE DEF Data
        <5> QED BY SegEmpty
      <4> DEFINE q == NextKind(k)  x == NextMessage(c, q)
      <4>6. Read(R(c, buf)) = R(x, << >>)
        <5>1. Parsed(buf, IF k = "greet" THEN "method" ELSE "authok",
                          IF k = "greet" THEN Carried("greet") ELSE "none", << >>)
          BY <2>p, <3>2, <4>1, <4>4, <4>5
        <5> QED BY <1>0, <1>4, <2>1, <4>1, <5>1, ReadNext
      <4>7. /\ IsClient(x) /\ x.closed = c.closed /\ x.why = c.why /\ x.reads = c.reads
            /\ x.channel = c.channel /\ x.request_ = c.request_ /\ x.pending_data_ = c.pending_data_
            /\ x.awaits = Awaited(q) /\ x.upstream_ = << Msg(q, Carried(q)) >> \o Tail(c.upstream_)
        <5> DEFINE u == << Msg(q, Carried(q)) >> \o Tail(c.upstream_)  v == Awaited(q)
        <5>1. x = [c EXCEPT !.upstream_ = u, !.awaits = v] BY DEF NextMessage
        <5> HIDE DEF u, v, x
        <5>2. /\ IsClient(x) /\ x.closed = c.closed /\ x.why = c.why /\ x.reads = c.reads
              /\ x.channel = c.channel /\ x.request_ = c.request_ /\ x.pending_data_ = c.pending_data_
              /\ x.awaits = v /\ x.upstream_ = u
          BY <1>0, <5>1 DEF IsClient
        <5> QED BY <5>2 DEF u, v
      <4> HIDE DEF x
      <4>8. /\ c' = x /\ IsWire(wire') /\ wire'.s2c = Rest(wire.s2c, n) /\ wire'.c2a = wire.c2a \o << >>
            /\ wire'.a2c = wire.a2c /\ wire'.c2s = wire.c2s /\ wire'.s2r = wire.s2r /\ wire'.r2s = wire.r2s
        BY <1>0, <1>7, <4>6, <4>7
      <4>9. Downwards(g, y)'
        <5>1. wire'.c2a = wire.c2a \o Seg(Data, y, y) BY <4>4, <4>5, <4>8
        <5>2. y <= y OBVIOUS
        <5> HIDE DEF Data
        <5> QED BY <1>0, <1>1, <1>4, <5>1, <5>2, DownMore
      <4>10. q \in {"auth", "req5"} /\ q \in UsedKinds /\ (q = "auth" => k = "greet" /\ AuthRequired)
             /\ (q = "req5" /\ AuthRequired => k = "auth")
        BY <1>0, <1>4, <4>1 DEF NextKind, UsedKinds
      <4>11. << Msg(q, Carried(q)) >> \o Tail(c.upstream_) = Queue(q, "unsent", tail)
        <5>1. c.upstream_ = Holes(k, tail) BY <1>4, <4>2 DEF Ahead, Queue
        <5>2. /\ k = "greet" /\ AuthRequired => IsQueue(Holes(k, tail), << >>, << << >> >> \o tail)
              /\ k = "greet" /\ ~AuthRequired => IsQueue(Holes(k, tail), << >>, tail)
              /\ k = "auth" => IsQueue(Holes(k, tail), << >>, tail)
          BY <1>4, QueueFront
        <5>3. Tail(c.upstream_) = IF q = "auth" THEN << << >> >> \o tail ELSE tail
          <6>1. CASE q = "auth" BY <4>10, <5>1, <5>2, <6>1 DEF IsQueue
          <6>2. CASE q = "req5" BY <4>1, <4>10, <5>1, <5>2, <6>2 DEF IsQueue, NextKind
          <6> QED BY <4>10, <6>1, <6>2
        <5>4. Tail(c.upstream_) = Holes(q, tail) BY <4>10, <5>3 DEF Holes
        <5> HIDE DEF q, tail
        <5> QED BY <5>4 DEF Queue
      <4>k. PICK p \in {"auth", "req5"} : p = q BY <4>10
      <4>12. ClientAt(p, "unsent", k4, k5)'
        <5>1. k4 = 0 BY <1>4, <3>4
        <5>2. Queue(p, "unsent", PayloadTail(k4, k5))' = Queue(p, "unsent", PayloadTail(k4, k5))
          <6>1. \A pl, t : Queue(p, pl, t)' = Queue(p, pl, t) BY <1>0, <4>7, <4>8, RequestSame
          <6> QED BY <1>c, <6>1
        <5>3. c'.upstream_ = Queue(p, "unsent", tail) /\ c'.awaits = Awaited(p) BY <4>7, <4>8, <4>11, <4>k
        <5>4. Reading6(k5, k5)' BY <1>0, <1>4, <1>c, <4>7, <4>8 DEF Reading6
        <5> QED BY <1>0, <1>4, <1>c, <4>7, <4>8, <4>10, <4>k, <5>1, <5>2, <5>3, <5>4 DEF ClientAt
      <4>13. PICK to \in {"reads", "lost"} : to = IF at = "ahead" THEN "reads" ELSE "lost" OBVIOUS
      <4>14. ServerAt(p, "unsent", to, k1, k3, k4)'
        <5>1. Nothing' = Nothing BY <1>0, <4>8 DEF Nothing
        <5>2. Idle(p, "unsent", to, k4)' BY <1>0, <4>2, <4>8, <4>10, <4>13, <4>k, <5>1 DEF Idle, Ahead, Reader
        <5>3. Knows(p, to)' = Knows(p, to) BY <1>0, CfgSame
        <5>4. Knows(k, at) /\ at # "reads" BY <1>3, <4>2 DEF ServerAt, Ahead
        <5>7. to = "lost" => p = "req5" BY <4>2, <4>13, <4>k DEF Ahead
        <5>5. Knows(p, to) BY <4>1, <4>10, <4>13, <4>k, <5>4, <5>7 DEF Knows
        <5>6. ~s.closed => s.why = IF to = "lost" THEN "spurious" ELSE "none"
          BY <1>3, <4>2, <4>13 DEF ServerAt, Ahead
        <5> QED BY <1>0, <4>3, <4>13, <5>2, <5>3, <5>5, <5>6 DEF ServerAt
      <4>15. Backwards(p, "unsent", to, y, z)'
        <5>1. Answers(p, "unsent", to)' = << >> BY <4>13 DEF Answers
        <5>2. << >> \o << >> = << >> OBVIOUS
        <5>3. wire'.s2c = << >> \o Seg(Data, y, z) BY <3>1, <4>4, <4>5, <4>8, <5>2
        <5> HIDE DEF Data
        <5> QED BY <1>0, <1>5, <1>c, <4>8, <5>1, <5>3 DEF Backwards
      <4>16. Late(y)'
        <5>1. LateAt(p, "unsent", to, k1, k3, k4, k5, y, z)' BY <1>2, <4>12, <4>13, <4>14, <4>15 DEF LateAt
        <5> QED BY <5>1 DEF Late
      <4>17. Records' /\ Ends' BY <1>0, <4>7, <4>8, CfgSame DEF Records, Ends
      <4> QED BY <1>0, <1>1, <1>c, <4>9, <4>16, <4>17 DEF HandshakeInv
    <3> QED BY <3>3, <3>4
  <2> QED BY <2>5, <2>6
<1> QED BY <1>8, <1>9

-----------------------------------------------------------------------------
(* The server. *)

\* A step of the server that goes on.
LEMMA ServerFrame ==
  ASSUME HandshakeInv, ~s.closed, cfg' = cfg, app' = app, c' = c, IsServer(s'), s'.closed = FALSE,
         IsWire(wire'), wire'.a2c = wire.a2c, wire'.c2a = wire.c2a,
         NEW g \in Nat, NEW y \in Nat, Downwards(g, y),
         NEW k, NEW place, NEW k4, NEW k5, ClientAt(k, place, k4, k5),
         NEW at \in {"reads", "lost", "half", "writes", "ahead", "ahead_lost", "stream"},
         NEW k1 \in Nat, NEW k3 \in Nat, NEW z \in Nat,
         ServerAt(k, place, at, k1, k3, k4)', Backwards(k, place, at, y, z)'
  PROVE  HandshakeInv'
<1>0. /\ ConfigOK /\ Records /\ app.sent \in Nat /\ app.back \in Nat /\ Ends
  BY DEF HandshakeInv
<1>1. Records' BY <1>0 DEF Records
<1>2. ConfigOK' /\ \A w : Reason(w)' = Reason(w) BY <1>0, CfgSame
<1>3. Ends' BY <1>0, <1>2 DEF Ends
<1>4. Downwards(g, y)' BY DEF Downwards, Data
<1>5. ClientAt(k, place, k4, k5)' BY ClientSame
<1>6. k4 \in Nat /\ k5 \in Nat BY DEF ClientAt
<1>7. LateAt(k, place, at, k1, k3, k4, k5, y, z)' BY <1>5, <1>6 DEF LateAt
<1>8. Late(y)' BY <1>7 DEF Late
<1> QED BY <1>0, <1>1, <1>2, <1>3, <1>4, <1>8 DEF HandshakeInv

\* The way back, while the destination has not sent anything.
LEMMA BackQuiet ==
  ASSUME cfg' = cfg, app' = app, c' = c, NEW k, NEW place, NEW at, NEW to, NEW y, NEW z,
         Backwards(k, place, at, y, z), Answers(k, place, to) = Answers(k, place, at),
         ~c.closed => wire'.s2c = wire.s2c, wire'.r2s = wire.r2s
  PROVE  Backwards(k, place, to, y, z)'
<1>1. Answers(k, place, to)' = Answers(k, place, to) BY RequestSame
<1> QED BY <1>1 DEF Backwards, Data

LEMMA BackAnswer ==
  ASSUME cfg' = cfg, app' = app, c' = c, NEW k, NEW place, NEW at, NEW to, NEW y \in Nat, NEW z,
         Backwards(k, place, at, y, z), Answers(k, place, at) = << >>, app.back = 0,
         Answers(k, place, to) = Reply(k), wire'.s2c = wire.s2c \o Reply(k), wire'.r2s = wire.r2s
  PROVE  Backwards(k, place, to, y, z)'
<1>1. Answers(k, place, to)' = Reply(k) BY RequestSame
<1> SUFFICES ASSUME ~c.closed
             PROVE  /\ z \in Nat /\ y <= z /\ z <= app.back
                    /\ wire'.s2c = Reply(k) \o Seg(Data, y, z)
                    /\ wire.r2s = Seg(Data, z, app.back)
  BY <1>1 DEF Backwards, Data
<1>2. /\ z \in Nat /\ y <= z /\ z <= app.back /\ wire.s2c = << >> \o Seg(Data, y, z)
      /\ wire.r2s = Seg(Data, z, app.back)
  BY DEF Backwards
<1>3. y = 0 /\ z = 0 BY <1>2
<1>4. Seg(Data, 0, 0) = << >>
  <2> HIDE DEF Data
  <2> QED BY SegEmpty
<1>5. wire.s2c = << >>
  <2>1. << >> \o << >> = << >> OBVIOUS
  <2> QED BY <1>2, <1>3, <1>4, <2>1
<1>6. << >> \o Reply(k) = Reply(k) /\ Reply(k) \o << >> = Reply(k) BY DEF Reply, Msg
<1> QED BY <1>2, <1>3, <1>4, <1>5, <1>6

\* The server begins to connect, m chunks of payload in its hands.
IsStreaming(q, p, dest, rest) ==
  /\ IsServer(q) /\ q.closed = p.closed /\ q.why = p.why /\ q.stage = "stream"
  /\ q.request_ = dest /\ q.channel = "connecting" /\ q.upstream_ = rest
  /\ q.handshake_pending_buf_ = << >>

LEMMA StreamingIs ==
  ASSUME NEW p, IsServer(p), NEW dest, NEW rest
  PROVE  IsStreaming(Streaming(p, dest, rest), p, dest, rest)
<1> DEFINE h == << >>
           q == [p EXCEPT !.stage = "stream", !.request_ = dest, !.channel = "connecting", !.upstream_ = rest,
                          !.handshake_pending_buf_ = h]
           t == [p EXCEPT !.stage = "stream", !.request_ = dest]
<1>1. Streaming(p, dest, rest) = q BY DEF Streaming
<1>2. q = [t EXCEPT !.channel = "connecting", !.upstream_ = rest, !.handshake_pending_buf_ = h] OBVIOUS
<1>3. t = [p EXCEPT !.stage = "stream", !.request_ = dest] OBVIOUS
<1> HIDE DEF h, q, t
<1>4. t = [closed |-> p.closed, why |-> p.why, stage |-> "stream",
           handshake_pending_buf_ |-> p.handshake_pending_buf_,
           chunk |-> p.chunk, request_ |-> dest, channel |-> p.channel, upstream_ |-> p.upstream_]
  BY <1>3 DEF IsServer
<1>5. q = [closed |-> p.closed, why |-> p.why, stage |-> "stream", handshake_pending_buf_ |-> h,
           chunk |-> p.chunk, request_ |-> dest, channel |-> "connecting", upstream_ |-> rest]
  BY <1>2, <1>4
<1>6. IsServer(q) BY <1>5 DEF IsServer
<1> QED BY <1>1, <1>5, <1>6 DEF IsStreaming, h

LEMMA StreamingInv ==
  ASSUME HandshakeInv, s.closed = FALSE, cfg' = cfg, app' = app, c' = c,
         NEW g \in Nat, NEW y \in Nat, Downwards(g, y),
         NEW k, NEW at, NEW k1, NEW k3, NEW k4, NEW k5, NEW z,
         LateAt(k, "sent", at, k1, k3, k4, k5, y, z),
         k \in LastKinds, at \in {"reads", "half", "writes"}, wire.s2r = << >>,
         k = "connect" /\ cfg.auth_required => cfg.credentials = "right",
         NEW m \in Nat, m <= k4, s' = Streaming(s, c.request_, Seg(Payload, 0, m)),
         IsWire(wire'), SameWires(wire', wire, {"c2s", "s2c"}), wire'.c2s = Seg(Payload, m, k4),
         wire'.s2c = wire.s2c \o Reply(k)
  PROVE  HandshakeInv'
<1>1. /\ wire'.a2c = wire.a2c /\ wire'.c2a = wire.c2a /\ wire'.s2r = wire.s2r /\ wire'.r2s = wire.r2s
  BY DEF SameWires
<1>2. /\ ClientAt(k, "sent", k4, k5) /\ ServerAt(k, "sent", at, k1, k3, k4)
      /\ Backwards(k, "sent", at, y, z) /\ z \in Nat /\ k4 \in Nat
  BY DEF LateAt
<1> DEFINE rest == Seg(Payload, 0, m)  dest == c.request_
<1>3. IsStreaming(s', s, dest, rest)
  <2>1. IsServer(s) BY DEF HandshakeInv, Records
  <2> HIDE DEF dest, rest
  <2>2. IsStreaming(Streaming(s, dest, rest), s, dest, rest) BY <2>1, StreamingIs
  <2> QED BY <2>2 DEF dest, rest
<1>4. /\ s'.closed = FALSE /\ s'.why = "none" /\ s'.stage = "stream" /\ IsServer(s')
      /\ s'.request_ = c.request_ /\ s'.channel = "connecting" /\ s'.upstream_ = Seg(Payload, 0, m)
      /\ s'.handshake_pending_buf_ = << >>
  BY <1>2, <1>3 DEF IsStreaming, ServerAt
<1>5. Payload' = Payload /\ Knows(k, "stream")' = Knows(k, "stream") BY CfgSame
<1>6. Knows(k, "stream")
  BY <1>2 DEF Knows, ServerAt, LastKinds
<1>7. app.back = 0 BY <1>2 DEF ServerAt
<1>8. ServerAt(k, "sent", "stream", 0, m, k4)'
  <2>1. Seg(Payload, 0, 0) = << >>
    <3> DEFINE e == Payload
    <3> HIDE DEF e
    <3>1. Seg(e, 0, 0) = << >> BY SegEmpty
    <3> QED BY <3>1 DEF e
  <2>2. Streams(k, "sent", "stream", 0, m, k4)'
    BY <1>1, <1>4, <1>5, <2>1 DEF Streams
  <2> QED BY <1>4, <1>5, <1>6, <2>2 DEF ServerAt
<1>9. Backwards(k, "sent", "stream", y, z)'
  <2>1. Answers(k, "sent", at) = << >> /\ Answers(k, "sent", "stream") = Reply(k) BY DEF Answers
  <2> QED BY <1>1, <1>2, <1>7, <2>1, BackAnswer
<1> QED BY <1>1, <1>2, <1>4, <1>8, <1>9, ServerFrame

\* The server is about to answer, with m chunks that came behind the message.
LEMMA WritesInv ==
  ASSUME HandshakeInv, s.closed = FALSE, cfg' = cfg, app' = app, c' = c,
         NEW g \in Nat, NEW y \in Nat, Downwards(g, y),
         NEW k, NEW k1, NEW k3, NEW k4, NEW k5, NEW z,
         LateAt(k, "sent", "reads", k1, k3, k4, k5, y, z),
         k \in {"greet", "auth", "req4", "req5"}, Idle(k, "sent", "reads", k4), Knows(k, "writes"),
         NEW m \in Nat, m <= k4,
         IsServer(s'), s'.closed = FALSE, s'.why = s.why, s'.stage = Writer(k), s'.upstream_ = s.upstream_,
         s'.channel = s.channel, s'.handshake_pending_buf_ = Seg(Payload, 0, m),
         k \in LastKinds => s'.request_ = c.request_,
         IsWire(wire'), SameWires(wire', wire, {"c2s", "s2c"}), wire'.c2s = Seg(Payload, m, k4),
         ~c.closed => wire'.s2c = wire.s2c
  PROVE  HandshakeInv'
<1>1. /\ wire'.a2c = wire.a2c /\ wire'.c2a = wire.c2a /\ wire'.s2r = wire.s2r /\ wire'.r2s = wire.r2s
  BY DEF SameWires
<1>2. /\ ClientAt(k, "sent", k4, k5) /\ ServerAt(k, "sent", "reads", k1, k3, k4)
      /\ Backwards(k, "sent", "reads", y, z) /\ z \in Nat /\ k4 \in Nat /\ k1 \in Nat
  BY DEF LateAt
<1>3. Payload' = Payload /\ Knows(k, "writes")' = Knows(k, "writes") BY CfgSame
<1>4. Writes(k, "sent", "writes", m, k4)'
  BY <1>1, <1>3 DEF Writes, Idle, Nothing, Writer
<1>5. s.why = "none" /\ app.back = 0 BY <1>2 DEF ServerAt
<1>6. ServerAt(k, "sent", "writes", k1, m, k4)' BY <1>3, <1>4, <1>5 DEF ServerAt
<1>7. Backwards(k, "sent", "writes", y, z)'
  <2>1. Answers(k, "sent", "writes") = Answers(k, "sent", "reads") BY DEF Answers
  <2> QED BY <1>1, <1>2, <2>1, BackQuiet
<1> QED BY <1>1, <1>2, <1>6, <1>7, ServerFrame

\* Reading behind the first half of a message.
ReadsHalf(x, n, k, w, e, b) ==
  /\ n - 1 \in Nat /\ n - 1 <= b /\ Rest(x, n) = Seg(e, n - 1, b)
  /\ << <<k, w, 1>> >> \o First(x, n) = Front(k, w, e, 0, n - 1)

LEMMA ReadHalfFront ==
  ASSUME NEW k, NEW w, NEW e, NEW b \in Nat, NEW n, n \in 1 .. Len(HalfFront(k, w, e, b))
  PROVE  ReadsHalf(HalfFront(k, w, e, b), n, k, w, e, b)
<1> DEFINE l == Led(k, w, e, 0)  x == HalfFront(k, w, e, b)  j == n - 1
<1>0. 0 \in Nat /\ 1 \in Nat /\ 2 \in Nat /\ 0 <= b /\ b - 0 = b /\ 2 + b \in Nat /\ 1 <= 2 + b /\ 2 <= 2 + b OBVIOUS
<1>b. Begins(k, w, e, 0, b) BY <1>0, FrontIs
<1>1. x = Seg(l, 1, 2 + b) /\ Seg(l, 2, 2 + b) = Seg(e, 0, b) /\ l[1] = <<k, w, 1>>
  <2>1. l[1] = <<k, w, 1>> BY DEF Led
  <2> QED BY <1>0, <1>b, <2>1 DEF Begins, HalfFront
<1> HIDE DEF l, x
<1>2. IsPiece(Seg(l, 1, 2 + b), l, 1, 2 + b) BY <1>0, SegType
<1>3. n \in 1 .. b + 1 /\ n \in 0 .. (2 + b) - 1 /\ j \in Nat /\ j <= b /\ j \in 0 .. b - 0 /\ j \in 0 .. (2 + b) - 2
      /\ 1 + n = 2 + j /\ 0 + j = j /\ n \in Nat
  BY <1>0, <1>1, <1>2 DEF IsPiece, x
<1>4. Cuts(l, 1, 2 + b, n) BY <1>0, <1>3, SegRead
<1>5. Cuts(l, 2, 2 + b, j)
  <2> HIDE DEF j
  <2> QED BY <1>0, <1>3, SegRead
<1>6. Cuts(e, 0, b, j)
  <2> HIDE DEF j
  <2> QED BY <1>0, <1>3, SegRead
<1>7. Rest(x, n) = Seg(e, j, b)
  <2>1. Rest(x, n) = Seg(l, 1 + n, 2 + b) BY <1>1, <1>4 DEF Cuts
  <2>2. Rest(Seg(l, 2, 2 + b), j) = Seg(l, 2 + j, 2 + b) BY <1>5 DEF Cuts
  <2>3. Rest(Seg(e, 0, b), j) = Seg(e, 0 + j, b) BY <1>6 DEF Cuts
  <2> HIDE DEF j
  <2> QED BY <1>1, <1>3, <2>1, <2>2, <2>3
<1>8. << <<k, w, 1>> >> \o First(x, n) = Front(k, w, e, 0, j)
  <2>1. First(x, n) = Seg(l, 1, 2 + j)
    <3>1. First(x, n) = Seg(l, 1, 1 + n) BY <1>1, <1>4 DEF Cuts
    <3> HIDE DEF j
    <3> QED BY <1>3, <3>1
  <2>2. Seg(l, 0, 1) = << l[1] >> BY DEF Seg
  <2> HIDE DEF j
  <2>3. 0 <= 1 /\ 1 <= 2 + j /\ 2 + j \in Nat /\ j - 0 = j /\ 0 <= j BY <1>3
  <2>4. Seg(l, 0, 1) \o Seg(l, 1, 2 + j) = Seg(l, 0, 2 + j) BY <1>0, <2>3, SegCat
  <2>5. Begins(k, w, e, 0, j) BY <1>0, <1>3, <2>3, FrontIs
  <2>6. Front(k, w, e, 0, j) = Seg(l, 0, 2 + j) BY <2>3, <2>5 DEF Begins, l
  <2> QED BY <1>1, <2>1, <2>2, <2>4, <2>6
<1> QED BY <1>3, <1>7, <1>8 DEF ReadsHalf, x

\* What a read of the server does to the streams.
LEMMA ServerWires ==
  ASSUME IsWire(wire), NEW n, NEW r, wire' = [Taken("c2s", n) EXCEPT !.s2c = @ \o r]
  PROVE  /\ IsWire(wire') /\ SameWires(wire', wire, {"c2s", "s2c"})
         /\ wire'.c2s = Rest(wire.c2s, n) /\ wire'.s2c = wire.s2c \o r
BY DEF IsWire, Taken, SameWires

\* A read that ends it.
LEMMA ServerRefuses ==
  ASSUME HandshakeInv, s.closed = FALSE, cfg' = cfg, app' = app, c' = c,
         NEW g \in Nat, NEW y \in Nat, Downwards(g, y), Late(y),
         NEW why, s' = Ended(s, why), Reason(IF s.why = "none" THEN why ELSE s.why),
         NEW n, wire' = [Taken("c2s", n) EXCEPT !.s2c = @ \o Replies(s')],
         s.stage # "stream", ~c.closed => wire.s2c = << >>
  PROVE  HandshakeInv'
<1>0. IsWire(wire) /\ IsServer(s) BY DEF HandshakeInv, Records
<1>1. ServerEnded(Ended(s, why), s, why) BY <1>0, EndedServer
<1>2. Replies(s') = << >> BY <1>1 DEF Replies, ServerEnded
<1>3. /\ IsWire(wire') /\ SameWires(wire', wire, {"c2s", "s2c"}) /\ wire'.s2c = wire.s2c \o Replies(s')
  <2> DEFINE r == Replies(s')
  <2> HIDE DEF r
  <2>1. wire' = [Taken("c2s", n) EXCEPT !.s2c = @ \o r] BY DEF r
  <2>2. IsWire(wire') /\ SameWires(wire', wire, {"c2s", "s2c"}) /\ wire'.s2c = wire.s2c \o r
    BY <1>0, <2>1, ServerWires
  <2> QED BY <2>2 DEF r
<1>4. ~c.closed => wire'.s2c = wire.s2c
  <2>1. << >> \o << >> = << >> OBVIOUS
  <2> QED BY <1>2, <1>3, <2>1
<1> QED BY <1>3, <1>4, ServerEndsInv

\* The handler of the read that is armed for a message.
LEMMA OnReadIs ==
  ASSUME NEW p, NEW buf, NEW k, p.stage = Reader(k)
  PROVE  /\ k = "ss" => OnRead(p, buf) = ReadHandshake(p, buf)
         /\ k = "connect" => OnRead(p, buf) = {OnReadHandshakeViaHttps(p, buf)}
         /\ k \in {"greet", "req4"} => OnRead(p, buf) = {OnReadHandshakeViaSocks(p, buf)}
         /\ k = "auth" => OnRead(p, buf) = {OnReadSocks5UsernamePasswordAuth(p, buf)}
         /\ k = "req5" => OnRead(p, buf) = {OnReadHandshakeViaSocks5(p, buf)}
BY DEF OnRead, Reader

\* What a message asks for is understood.
LEMMA Understood ==
  ASSUME ConfigOK, NEW k, k \in UsedKinds
  PROVE  /\ k \in {"greet", "auth", "req5"} <=> CIPHER_METHOD_IS_SOCKS5(cfg.method)
         /\ k = "connect" <=> cfg.method = "https"
         /\ k \in LastKinds => Carried(k) = c.request_
         /\ Carried("greet") = (IF AuthRequired THEN "auth" ELSE "noauth")
         /\ Carried("auth") = cfg.credentials
BY DEF ConfigOK, AllMethods, UsedKinds, CIPHER_METHOD_IS_SOCKS5, Carried, LastKinds

\* A message of the client, or the half of one, is read.
LEMMA IdleReads ==
  ASSUME HandshakeInv, s.closed = FALSE, cfg' = cfg, app' = app, c' = c,
         NEW g \in Nat, NEW y \in Nat, Downwards(g, y),
         NEW k, NEW k1, NEW k3, NEW k4, NEW k5, NEW z,
         LateAt(k, "sent", "reads", k1, k3, k4, k5, y, z), Idle(k, "sent", "reads", k4),
         ~c.closed => wire.s2c = << >>,
         NEW n, n \in 1 .. Len(wire.c2s), s' \in OnRead(s, First(wire.c2s, n)),
         wire' = [Taken("c2s", n) EXCEPT !.s2c = @ \o Replies(s')]
  PROVE  HandshakeInv'
<1>0. ConfigOK /\ IsWire(wire) /\ IsServer(s) BY DEF HandshakeInv, Records
<1>1. /\ ClientAt(k, "sent", k4, k5) /\ ServerAt(k, "sent", "reads", k1, k3, k4)
      /\ Backwards(k, "sent", "reads", y, z) /\ k4 \in Nat /\ k5 \in Nat /\ z \in Nat /\ k1 \in Nat /\ k3 \in Nat
      /\ Knows(k, "reads") /\ s.why = "none" /\ k \in UsedKinds /\ Wanted(c.request_) /\ Late(y)
      /\ (k \notin LastKinds => k4 = 0) /\ app.back = 0
  <2>1. /\ ClientAt(k, "sent", k4, k5) /\ ServerAt(k, "sent", "reads", k1, k3, k4)
        /\ Backwards(k, "sent", "reads", y, z) /\ k4 \in Nat /\ k5 \in Nat /\ z \in Nat /\ k1 \in Nat /\ k3 \in Nat
    BY DEF LateAt
  <2>2. Late(y) BY DEF Late
  <2>3. Knows(k, "reads") /\ s.why = "none" /\ app.back = 0 BY <2>1 DEF ServerAt
  <2>4. k \in UsedKinds /\ Wanted(c.request_) /\ (k \notin LastKinds => k4 = 0) BY <2>1 DEF ClientAt
  <2> QED BY <2>1, <2>2, <2>3, <2>4
<1>2. /\ s.stage = Reader(k) /\ wire.c2s = Front(k, Carried(k), Payload, 0, k4) /\ Nothing
      /\ (k = "ss" => s.chunk = << >>)
  BY DEF Idle
<1> DEFINE e == Payload  w == Carried(k)  buf == First(wire.c2s, n)
<1>3. Reads(wire.c2s, n, k, w, e, 0, k4)
  <2>1. 0 \in Nat /\ 0 <= k4 BY <1>1
  <2> HIDE DEF e, w
  <2>2. n \in 1 .. Len(Front(k, w, e, 0, k4)) BY <1>2 DEF e, w
  <2>3. Reads(Front(k, w, e, 0, k4), n, k, w, e, 0, k4) BY <1>1, <2>1, <2>2, ReadFront
  <2> QED BY <1>2, <2>3 DEF e, w
<1>k. k \in {"ss", "connect", "req4", "req5", "greet", "auth"} BY <1>1, KindsUsed
<1>s. s.stage # "stream" BY <1>2, <1>k DEF Reader
<1>o. /\ k = "ss" => OnRead(s, buf) = ReadHandshake(s, buf)
      /\ k = "connect" => OnRead(s, buf) = {OnReadHandshakeViaHttps(s, buf)}
      /\ k \in {"greet", "req4"} => OnRead(s, buf) = {OnReadHandshakeViaSocks(s, buf)}
      /\ k = "auth" => OnRead(s, buf) = {OnReadSocks5UsernamePasswordAuth(s, buf)}
      /\ k = "req5" => OnRead(s, buf) = {OnReadHandshakeViaSocks5(s, buf)}
  <2> HIDE DEF buf
  <2> QED BY <1>2, OnReadIs
<1>u. /\ k \in {"greet", "auth", "req5"} <=> CIPHER_METHOD_IS_SOCKS5(cfg.method)
      /\ k = "connect" <=> cfg.method = "https"
      /\ k \in LastKinds => Carried(k) = c.request_
      /\ Carried("greet") = (IF AuthRequired THEN "auth" ELSE "noauth")
      /\ Carried("auth") = cfg.credentials
  BY <1>0, <1>1, Understood
<1>v. c.request_ # "none" BY <1>1 DEF Wanted
<1>r. ASSUME NEW why, s' = Ended(s, why), Reason(why) PROVE HandshakeInv'
  BY <1>1, <1>r, <1>s, ServerRefuses
<1>w. /\ IsWire(wire') /\ SameWires(wire', wire, {"c2s", "s2c"}) /\ wire'.c2s = Rest(wire.c2s, n)
      /\ wire'.s2c = wire.s2c \o Replies(s')
  <2> DEFINE r == Replies(s')
  <2> HIDE DEF r
  <2>1. wire' = [Taken("c2s", n) EXCEPT !.s2c = @ \o r] BY DEF r
  <2>2. IsWire(wire') /\ SameWires(wire', wire, {"c2s", "s2c"}) /\ wire'.c2s = Rest(wire.c2s, n) /\ wire'.s2c = wire.s2c \o r
    BY <1>0, <2>1, ServerWires
  <2> QED BY <2>2 DEF r
<1>4. CASE n = 1
  <2>1. buf = << <<k, w, 1>> >> /\ Rest(wire.c2s, n) = << <<k, w, 2>> >> \o Seg(e, 0, k4) BY <1>3, <1>4 DEF Reads
  <2>2. LET x == << <<k, w, 1>> >> IN x # << >> /\ Cause(x) = "split" /\ \A kind : ~Starts(x, kind)
    <3> HIDE DEF w
    <3> QED BY ParseHalf
  <2>3. Cause(buf) = "split" /\ \A kind : ~Starts(buf, kind) BY <2>1, <2>2
  <2>4. CASE k # "ss"
    <3> HIDE DEF buf
    <3>1. s' = Ended(s, "split")
      BY <1>k, <1>o, <1>u, <2>3, <2>4 DEF OnReadHandshakeViaHttps, OnReadHandshakeViaSocks, buf,
         OnReadSocks5UsernamePasswordAuth, OnReadHandshakeViaSocks5
    <3>2. Reason("split") BY DEF Reason
    <3> QED BY <1>r, <3>1, <3>2
  <2>5. CASE k = "ss"
    <3>1. s.chunk \o buf = buf
      <4>1. << >> \o << <<k, w, 1>> >> = << <<k, w, 1>> >> OBVIOUS
      <4> QED BY <1>2, <2>1, <2>5, <4>1
    <3>2. s' = [s EXCEPT !.chunk = buf]
      <4> HIDE DEF buf
      <4> QED BY <1>o, <2>3, <2>5, <3>1 DEF ReadHandshake, buf
    <3> HIDE DEF buf
    <3>3. /\ IsServer(s') /\ s'.closed = s.closed /\ s'.why = s.why /\ s'.stage = s.stage /\ s'.chunk = buf
          /\ s'.handshake_pending_buf_ = s.handshake_pending_buf_ /\ s'.channel = s.channel
          /\ s'.request_ = s.request_ /\ s'.upstream_ = s.upstream_
      BY <1>0, <3>2 DEF IsServer
    <3>4. Replies(s') = << >> BY <1>s, <3>3 DEF Replies
    <3>5. /\ wire'.a2c = wire.a2c /\ wire'.c2a = wire.c2a /\ wire'.s2r = wire.s2r /\ wire'.r2s = wire.r2s
      BY <1>w DEF SameWires
    <3>6. Carried(k) = c.request_ BY <1>u, <2>5 DEF LastKinds
    <3>7. ServerAt(k, "sent", "half", k1, k3, k4)'
      <4>1. Nothing' BY <1>2, <3>3, <3>5 DEF Nothing
      <4>2. Payload' = Payload /\ Knows(k, "half")' = Knows(k, "half") BY CfgSame
      <4>3. Half(k, "sent", "half", k4)' BY <1>2, <1>w, <2>1, <2>5, <3>3, <3>6, <4>1, <4>2 DEF Half, Reader
      <4>4. Knows(k, "half") BY <2>5 DEF Knows
      <4> QED BY <1>1, <3>3, <4>2, <4>3, <4>4 DEF ServerAt
    <3>8. Backwards(k, "sent", "half", y, z)'
      <4>1. ~c.closed => wire'.s2c = wire.s2c
        <5>1. << >> \o << >> = << >> OBVIOUS
        <5> QED BY <1>w, <3>4, <5>1
      <4>2. Answers(k, "sent", "half") = Answers(k, "sent", "reads") BY DEF Answers
      <4> QED BY <1>1, <3>5, <4>1, <4>2, BackQuiet
    <3> QED BY <1>1, <1>w, <3>3, <3>5, <3>7, <3>8, ServerFrame
  <2> QED BY <2>4, <2>5
<1>5. CASE n # 1
  <2> DEFINE m == 0 + (n - 2)
  <2>1. m \in Nat /\ m <= k4 /\ buf = Front(k, w, e, 0, m) /\ Rest(wire.c2s, n) = Seg(e, m, k4)
    <3> HIDE DEF e, w
    <3> QED BY <1>3, <1>5 DEF Reads
  <2>2. Parsed(buf, k, w, Seg(e, 0, m))
    <3> HIDE DEF e, w, m, buf
    <3>1. 0 \in Nat /\ 0 <= m BY <2>1
    <3>2. Parsed(Front(k, w, e, 0, m), k, w, Seg(e, 0, m)) BY <2>1, <3>1, ParseFront
    <3> QED BY <2>1, <3>2
  <2> HIDE DEF m
  <2>3. Starts(buf, k) /\ What(buf) = w /\ Behind(buf) = Seg(e, 0, m) BY <2>2 DEF Parsed
  <2>q. ASSUME Replies(s') = << >> PROVE ~c.closed => wire'.s2c = wire.s2c
    <3>1. << >> \o << >> = << >> OBVIOUS
    <3> QED BY <1>w, <2>q, <3>1
  <2>d. wire'.c2s = Seg(Payload, m, k4) BY <1>w, <2>1
  <2>t. ASSUME s' = Streaming(s, c.request_, Seg(Payload, 0, m)), k \in LastKinds, Replies(s') = Reply(k),
               k = "connect" /\ cfg.auth_required => cfg.credentials = "right"
        PROVE  HandshakeInv'
    <3>1. wire'.s2c = wire.s2c \o Reply(k) BY <1>w, <2>t
    <3>2. wire.s2r = << >> BY <1>2 DEF Nothing
    <3>3. "reads" \in {"reads", "half", "writes"} OBVIOUS
    <3> QED BY <1>w, <2>1, <2>d, <2>t, <3>1, <3>2, <3>3, StreamingInv
  <2>p. ASSUME NEW rq, s' = [s EXCEPT !.stage = Writer(k), !.request_ = rq, !.handshake_pending_buf_ = Seg(Payload, 0, m)],
               k \in LastKinds => rq = c.request_, k \in {"greet", "auth", "req4", "req5"}, Knows(k, "writes")
        PROVE  HandshakeInv'
    <3> DEFINE x == Seg(Payload, 0, m)  st == Writer(k)
    <3>0. st # "stream" BY <2>p DEF Writer
    <3>1. s' = [s EXCEPT !.stage = st, !.request_ = rq, !.handshake_pending_buf_ = x] BY <2>p
    <3> HIDE DEF x, st
    <3>2. /\ IsServer(s') /\ s'.closed = s.closed /\ s'.why = s.why /\ s'.stage = st
          /\ s'.handshake_pending_buf_ = x /\ s'.channel = s.channel
          /\ s'.request_ = rq /\ s'.upstream_ = s.upstream_
      BY <1>0, <3>1 DEF IsServer
    <3>3. Replies(s') = << >> BY <3>0, <3>2 DEF Replies
    <3>4. ~c.closed => wire'.s2c = wire.s2c BY <2>q, <3>3
    <3>5. /\ IsServer(s') /\ s'.closed = FALSE /\ s'.why = s.why /\ s'.stage = Writer(k)
          /\ s'.upstream_ = s.upstream_ /\ s'.channel = s.channel
          /\ s'.handshake_pending_buf_ = Seg(Payload, 0, m)
          /\ k \in LastKinds => s'.request_ = c.request_
      BY <2>p, <3>2 DEF x, st
    <3> QED BY <1>w, <2>1, <2>d, <2>p, <3>4, <3>5, WritesInv
  <2>b. s = [s EXCEPT !.request_ = s.request_] BY <1>0 DEF IsServer
  <2>a. Reason("auth") <=> Mismatch BY DEF Reason
  <2> HIDE DEF buf
  <2>4. CASE k = "ss"
    <3>1. s.chunk \o buf = buf
      <4>1. << >> \o Front(k, w, e, 0, m) = Front(k, w, e, 0, m)
        <5> DEFINE l == Led(k, w, e, 0)
        <5>1. 0 \in Nat /\ 0 <= m BY <2>1
        <5>2. Begins(k, w, e, 0, m)
          <6> HIDE DEF e, w
          <6> QED BY <2>1, <5>1, FrontIs
        <5>3. Front(k, w, e, 0, m) = Seg(l, 0, 2 + (m - 0)) BY <5>2 DEF Begins
        <5>4. 2 + (m - 0) \in Nat /\ 0 <= 2 + (m - 0) BY <2>1
        <5> DEFINE b == 2 + (m - 0)
        <5> HIDE DEF l, b
        <5>5. IsPiece(Seg(l, 0, b), l, 0, b) BY <5>1, <5>4, SegType DEF b
        <5>6. << >> \o Seg(l, 0, b) = Seg(l, 0, b) BY <5>5, ConcatEmptySeq DEF IsPiece
        <5> QED BY <5>3, <5>6 DEF b
      <4> QED BY <1>2, <2>1, <2>4, <4>1
    <3>2. s' = Streaming(s, c.request_, Seg(Payload, 0, m))
      BY <1>2, <1>o, <1>u, <1>v, <2>3, <2>4, <3>1 DEF ReadHandshake, LastKinds, buf
    <3>3. Replies(s') = Reply(k)
      <4>1. cfg.method # "https" BY <1>u, <2>4
      <4> QED BY <2>4, <4>1 DEF Replies, Reply
    <3> QED BY <2>4, <2>t, <3>2, <3>3 DEF LastKinds
  <2>5. CASE k = "connect"
    <3>1. s' = IF cfg.auth_required /\ cfg.credentials # "right" THEN Ended(s, "auth")
               ELSE Streaming(s, c.request_, Seg(Payload, 0, m))
      BY <1>o, <1>u, <1>v, <2>3, <2>5 DEF OnReadHandshakeViaHttps, VerifyProxyAuthorizationIdentity, LastKinds, buf
    <3>2. CASE cfg.auth_required /\ cfg.credentials # "right"
      <4>1. Mismatch BY <1>u, <2>5, <3>2 DEF Mismatch
      <4> QED BY <1>r, <2>a, <3>1, <3>2, <4>1
    <3>3. CASE ~(cfg.auth_required /\ cfg.credentials # "right")
      <4>1. s' = Streaming(s, c.request_, Seg(Payload, 0, m)) BY <3>1, <3>3
      <4>2. s'.stage = "stream"
        <5> DEFINE rest == Seg(Payload, 0, m)  dest == c.request_
        <5> HIDE DEF rest, dest
        <5>1. IsStreaming(Streaming(s, dest, rest), s, dest, rest) BY <1>0, StreamingIs
        <5> QED BY <4>1, <5>1 DEF IsStreaming, rest, dest
      <4>3. Replies(s') = Reply(k) BY <1>u, <2>5, <4>2 DEF Replies, Reply
      <4> QED BY <2>5, <2>t, <3>3, <4>1, <4>3 DEF LastKinds
    <3> QED BY <3>2, <3>3
  <2>6. CASE k = "greet"
    <3>1. s' = IF w # (IF cfg.auth_required THEN "auth" ELSE "noauth") THEN Ended(s, "auth")
               ELSE [s EXCEPT !.stage = "write_method", !.handshake_pending_buf_ = Seg(Payload, 0, m)]
      BY <1>o, <1>u, <2>3, <2>6 DEF OnReadHandshakeViaSocks, buf
    <3>2. CASE w # (IF cfg.auth_required THEN "auth" ELSE "noauth")
      <4>1. Mismatch BY <1>0, <1>u, <2>6, <3>2 DEF Mismatch, AuthRequired, ConfigOK
      <4> QED BY <1>r, <2>a, <3>1, <3>2, <4>1
    <3>3. CASE ~(w # (IF cfg.auth_required THEN "auth" ELSE "noauth"))
      <4> DEFINE x == Seg(Payload, 0, m)
      <4>1. s' = [s EXCEPT !.stage = "write_method", !.handshake_pending_buf_ = x] BY <3>1, <3>3
      <4> HIDE DEF x
      <4>2. s' = [s EXCEPT !.stage = "write_method", !.request_ = s.request_, !.handshake_pending_buf_ = x]
        BY <1>0, <4>1 DEF IsServer
      <4>3. Writer(k) = "write_method" /\ k \notin LastKinds BY <2>6 DEF Writer, LastKinds
      <4>4. Knows(k, "writes") BY <1>0, <1>u, <2>6, <3>3 DEF Knows, ConfigOK, AuthRequired
      <4>5. s' = [s EXCEPT !.stage = Writer(k), !.request_ = s.request_, !.handshake_pending_buf_ = Seg(Payload, 0, m)]
        BY <4>2, <4>3 DEF x
      <4> QED BY <2>6, <2>p, <4>3, <4>4, <4>5
    <3> QED BY <3>2, <3>3
  <2>7. CASE k = "auth"
    <3>0. AuthRequired /\ cfg.auth_required = AuthRequired BY <1>1, <2>7, KindsUsed DEF Knows
    <3>1. s' = IF w # "right" THEN Ended(s, "auth")
               ELSE [s EXCEPT !.stage = "write_auth", !.handshake_pending_buf_ = Seg(Payload, 0, m)]
      BY <1>o, <1>u, <2>3, <2>7 DEF OnReadSocks5UsernamePasswordAuth, buf
    <3>2. CASE w # "right"
      <4>1. Mismatch BY <1>0, <1>u, <2>7, <3>0, <3>2 DEF Mismatch, AuthRequired, ConfigOK
      <4> QED BY <1>r, <2>a, <3>1, <3>2, <4>1
    <3>3. CASE ~(w # "right")
      <4> DEFINE x == Seg(Payload, 0, m)
      <4>1. s' = [s EXCEPT !.stage = "write_auth", !.handshake_pending_buf_ = x] BY <3>1, <3>3
      <4> HIDE DEF x
      <4>2. s' = [s EXCEPT !.stage = "write_auth", !.request_ = s.request_, !.handshake_pending_buf_ = x]
        BY <1>0, <4>1 DEF IsServer
      <4>3. Writer(k) = "write_auth" /\ k \notin LastKinds BY <2>7 DEF Writer, LastKinds
      <4>4. Knows(k, "writes") BY <1>u, <2>7, <3>0, <3>3 DEF Knows
      <4>5. s' = [s EXCEPT !.stage = Writer(k), !.request_ = s.request_, !.handshake_pending_buf_ = Seg(Payload, 0, m)]
        BY <4>2, <4>3 DEF x
      <4> QED BY <2>7, <2>p, <4>3, <4>4, <4>5
    <3> QED BY <3>2, <3>3
  <2>8. CASE k \in {"req4", "req5"}
    <3>1. k \in LastKinds /\ w = c.request_ /\ Writer(k) = "write_reply" BY <1>u, <2>8 DEF LastKinds, Writer
    <3>2. s' = [s EXCEPT !.stage = Writer(k), !.request_ = c.request_, !.handshake_pending_buf_ = Seg(Payload, 0, m)]
      BY <1>o, <1>u, <1>v, <2>3, <2>8, <3>1 DEF OnReadHandshakeViaSocks, OnReadHandshakeViaSocks5, buf
    <3>3. Knows(k, "writes") BY <1>1, <2>8 DEF Knows
    <3> QED BY <2>8, <2>p, <3>2, <3>3
  <2> QED BY <1>k, <2>4, <2>5, <2>6, <2>7, <2>8
<1> QED BY <1>4, <1>5

\* A server that has been written to, or has gone on, is past the beginning.
LEMMA ServerLate ==
  ASSUME HandshakeInv,
         \/ wire.c2s # << >> \/ s.channel # "none" \/ c.channel = "connected"
         \/ s.stage \notin {"ss", "https", "socks"}
  PROVE  \E g, y \in Nat : Downwards(g, y) /\ Late(y)
<1>1. PICK g, y \in Nat : Downwards(g, y) /\ (Early(y) \/ Late(y)) BY DEF HandshakeInv
<1>2. CASE Early(y)
  <2>1. Untouched /\ c.channel # "connected" BY <1>2 DEF Early
  <2>2. wire.c2s = << >> /\ s = InitialServer BY <2>1 DEF Untouched
  <2>3. s.channel = "none" /\ s.stage \in {"ss", "https", "socks"} BY <2>2 DEF InitialServer
  <2> QED BY <2>1, <2>2, <2>3
<1> QED BY <1>1, <1>2

\* Before the destination is there nothing is on its way back but the replies.
LEMMA Quiet ==
  ASSUME NEW k, NEW place, NEW at, NEW y \in Nat, NEW z,
         Backwards(k, place, at, y, z), Answers(k, place, at) = << >>, app.back = 0
  PROVE  ~c.closed => wire.s2c = << >>
<1> SUFFICES ASSUME ~c.closed PROVE wire.s2c = << >> OBVIOUS
<1>1. z \in Nat /\ y <= z /\ z <= app.back /\ wire.s2c = << >> \o Seg(Data, y, z)
  BY DEF Backwards
<1>2. y = 0 /\ z = 0 BY <1>1
<1>3. Seg(Data, 0, 0) = << >>
  <2> HIDE DEF Data
  <2> QED BY SegEmpty
<1>4. << >> \o << >> = << >> OBVIOUS
<1> QED BY <1>1, <1>2, <1>3, <1>4

\* The second half of the request of a shadowsocks client is read.
LEMMA HalfReads ==
  ASSUME HandshakeInv, s.closed = FALSE, cfg' = cfg, app' = app, c' = c,
         NEW g \in Nat, NEW y \in Nat, Downwards(g, y),
         NEW k, NEW k1, NEW k3, NEW k4, NEW k5, NEW z,
         LateAt(k, "sent", "half", k1, k3, k4, k5, y, z), Half(k, "sent", "half", k4),
         ~c.closed => wire.s2c = << >>,
         NEW n, n \in 1 .. Len(wire.c2s), s' \in OnRead(s, First(wire.c2s, n)),
         wire' = [Taken("c2s", n) EXCEPT !.s2c = @ \o Replies(s')]
  PROVE  HandshakeInv'
<1>0. ConfigOK /\ IsWire(wire) /\ IsServer(s) BY DEF HandshakeInv, Records
<1>1. /\ ClientAt(k, "sent", k4, k5) /\ ServerAt(k, "sent", "half", k1, k3, k4) /\ k4 \in Nat
      /\ s.why = "none" /\ k \in UsedKinds /\ Wanted(c.request_) /\ Late(y)
  <2>1. ClientAt(k, "sent", k4, k5) /\ ServerAt(k, "sent", "half", k1, k3, k4) /\ k4 \in Nat BY DEF LateAt
  <2>2. Late(y) BY DEF Late
  <2>3. s.why = "none" BY <2>1 DEF ServerAt
  <2>4. k \in UsedKinds /\ Wanted(c.request_) BY <2>1 DEF ClientAt
  <2> QED BY <2>1, <2>2, <2>3, <2>4
<1>2. /\ k = "ss" /\ s.stage = "ss" /\ s.chunk = << <<"ss", c.request_, 1>> >> /\ wire.s2r = << >>
      /\ wire.c2s = HalfFront("ss", c.request_, Payload, k4)
  BY DEF Half, HalfFront, Nothing
<1> DEFINE e == Payload  w == c.request_  buf == First(wire.c2s, n)  q == "ss"  m == n - 1
           all == s.chunk \o buf
<1>3. m \in Nat /\ m <= k4 /\ Rest(wire.c2s, n) = Seg(e, m, k4) /\ all = Front(q, w, e, 0, m)
  <2>1. n \in 1 .. Len(HalfFront(q, w, e, k4)) BY <1>2
  <2>2. ReadsHalf(HalfFront(q, w, e, k4), n, q, w, e, k4)
    <3> HIDE DEF e, w, q
    <3> QED BY <1>1, <2>1, ReadHalfFront
  <2>3. wire.c2s = HalfFront(q, w, e, k4) /\ s.chunk = << <<q, w, 1>> >> BY <1>2
  <2> HIDE DEF e, w, q
  <2> QED BY <2>2, <2>3 DEF ReadsHalf
<1> HIDE DEF m
<1>4. Starts(all, "ss") /\ What(all) = w /\ Behind(all) = Seg(e, 0, m)
  <2> HIDE DEF e, w, q, all
  <2>1. 0 \in Nat /\ 0 <= m BY <1>3
  <2>2. Parsed(Front(q, w, e, 0, m), q, w, Seg(e, 0, m)) BY <1>3, <2>1, ParseFront
  <2> QED BY <1>3, <2>2 DEF Parsed, q
<1>5. w # "none" BY <1>1 DEF Wanted
<1>6. s' \in {Streaming(s, w, Seg(e, 0, m)), Ended(s, "split")}
  <2>1. s' \in ReadHandshake(s, buf)
    <3> HIDE DEF buf
    <3>1. s.stage = Reader("ss") BY <1>2 DEF Reader
    <3>2. OnRead(s, buf) = ReadHandshake(s, buf) BY <3>1, OnReadIs
    <3> QED BY <3>2 DEF buf
  <2> HIDE DEF e, w, buf
  <2> QED BY <1>4, <1>5, <2>1 DEF ReadHandshake
<1>7. CASE s' = Ended(s, "split")
  <2>1. Reason("split") BY DEF Reason
  <2> QED BY <1>1, <1>2, <1>7, <2>1, ServerRefuses
<1>8. CASE s' = Streaming(s, w, Seg(e, 0, m))
  <2> DEFINE r == Replies(s')
  <2>1. r = << >> /\ Reply(k) = << >>
    <3>1. cfg.method # "https" BY <1>0, <1>1, <1>2, Understood
    <3> QED BY <1>2, <3>1 DEF Replies, Reply
  <2>2. wire' = [Taken("c2s", n) EXCEPT !.s2c = @ \o r] OBVIOUS
  <2>3. IsWire(wire') /\ SameWires(wire', wire, {"c2s", "s2c"}) /\ wire'.c2s = Rest(wire.c2s, n) /\ wire'.s2c = wire.s2c \o r
    <3> HIDE DEF r
    <3> QED BY <1>0, <2>2, ServerWires
  <2>4. wire'.c2s = Seg(Payload, m, k4) /\ wire'.s2c = wire.s2c \o Reply(k) BY <1>3, <2>1, <2>3
  <2>5. k \in LastKinds /\ ~(k = "connect") BY <1>2 DEF LastKinds
  <2>6. "half" \in {"reads", "half", "writes"} OBVIOUS
  <2> QED BY <1>2, <1>3, <1>8, <2>3, <2>4, <2>5, <2>6, StreamingInv
<1> QED BY <1>6, <1>7, <1>8

LEMMA ServerReadsInv == ASSUME HandshakeInv, ServerReads PROVE HandshakeInv'
<1>0. /\ ConfigOK /\ IsWire(wire) /\ IsServer(s) /\ s.closed = FALSE /\ s.stage \in Reading
      /\ cfg' = cfg /\ app' = app /\ c' = c
  BY DEF HandshakeInv, Records, ServerReads
<1>1. PICK n \in 1 .. Len(wire.c2s) : /\ s' \in OnRead(s, First(wire.c2s, n))
                                      /\ wire' = [Taken("c2s", n) EXCEPT !.s2c = @ \o Replies(s')]
  BY DEF ServerReads
<1>2. wire.c2s # << >> BY <1>1
<1>3. PICK g, y \in Nat : Downwards(g, y) /\ Late(y) BY <1>2, ServerLate
<1>4. PICK k, place, at, k1, k3, k4, k5, z : LateAt(k, place, at, k1, k3, k4, k5, y, z)
  BY <1>3 DEF Late
<1>5. ClientAt(k, place, k4, k5) /\ ServerAt(k, place, at, k1, k3, k4) /\ Backwards(k, place, at, y, z)
  BY <1>4 DEF LateAt
<1>6. k \in UsedKinds /\ place \in {"unsent", "sent", "open"} /\ Wanted(c.request_) /\ k4 \in Nat BY <1>5 DEF ClientAt
<1>7. ~(at = "stream") => app.back = 0 BY <1>5 DEF ServerAt
<1>8. CASE Idle(k, place, at, k4)
  <2>1. place = "sent" /\ at \in {"reads", "lost"} BY <1>0, <1>2, <1>8 DEF Idle
  <2>2. Answers(k, place, at) = << >> BY <2>1 DEF Answers
  <2>3. ~c.closed => wire.s2c = << >> BY <1>5, <1>7, <2>1, <2>2, Quiet
  <2>4. CASE at = "reads"
    <3>1. LateAt(k, "sent", "reads", k1, k3, k4, k5, y, z) /\ Idle(k, "sent", "reads", k4) BY <1>4, <1>8, <2>1, <2>4
    <3> QED BY <1>0, <1>1, <1>3, <2>3, <3>1, IdleReads
  <2>5. CASE at = "lost"
    <3>1. k = "req5" /\ s.stage = "socks" /\ wire.c2s = Front(k, Carried(k), Payload, 0, k4)
      BY <1>0, <1>8, <2>1, <2>5 DEF Idle
    <3>2. s.why = "spurious" BY <1>0, <1>5, <2>5 DEF ServerAt
    <3> DEFINE buf == First(wire.c2s, n)  w == Carried(k)  e == Payload
    <3>3. ~Starts(buf, "greet")
      <4>0. 0 \in Nat /\ 0 <= k4 BY <1>6
      <4>1. Reads(Front(k, w, e, 0, k4), n, k, w, e, 0, k4)
        <5>1. n \in 1 .. Len(Front(k, w, e, 0, k4)) BY <1>1, <3>1
        <5> HIDE DEF w, e
        <5> QED BY <1>6, <4>0, <5>1, ReadFront
      <4>2. wire.c2s = Front(k, w, e, 0, k4) BY <3>1
      <4> HIDE DEF w, e
      <4>3. CASE n = 1
        <5>1. LET x == << <<k, w, 1>> >> IN x # << >> /\ Cause(x) = "split" /\ \A kind : ~Starts(x, kind) BY ParseHalf
        <5> QED BY <4>1, <4>2, <4>3, <5>1 DEF Reads
      <4>4. CASE n # 1
        <5> DEFINE m == 0 + (n - 2)
        <5>1. m \in Nat /\ 0 <= m /\ buf = Front(k, w, e, 0, m) BY <4>1, <4>2, <4>4 DEF Reads
        <5> HIDE DEF m, buf
        <5>2. Parsed(Front(k, w, e, 0, m), k, w, Seg(e, 0, m)) BY <4>0, <5>1, ParseFront
        <5> QED BY <3>1, <5>1, <5>2 DEF Parsed
      <4> QED BY <4>3, <4>4
    <3>4. CIPHER_METHOD_IS_SOCKS5(cfg.method) BY <1>0, <1>6, <3>1, Understood
    <3> DEFINE why == Cause(buf)
    <3>5. s' = Ended(s, why)
      <4>1. s.stage = Reader("greet") BY <3>1 DEF Reader
      <4> HIDE DEF buf
      <4>2. OnRead(s, buf) = {OnReadHandshakeViaSocks(s, buf)} BY <4>1, OnReadIs
      <4> QED BY <1>1, <3>3, <3>4, <4>2 DEF OnReadHandshakeViaSocks, buf
    <3>6. Reason(IF s.why = "none" THEN why ELSE s.why) BY <3>2 DEF Reason
    <3>7. s.stage # "stream" BY <3>1
    <3> HIDE DEF why
    <3> QED BY <1>0, <1>1, <1>3, <2>3, <3>5, <3>6, <3>7, ServerRefuses
  <2> QED BY <2>1, <2>4, <2>5
<1>9. CASE Half(k, place, at, k4)
  <2>1. place = "sent" /\ at = "half" BY <1>9 DEF Half
  <2>2. Answers(k, place, at) = << >> BY <2>1 DEF Answers
  <2>3. ~c.closed => wire.s2c = << >> BY <1>5, <1>7, <2>1, <2>2, Quiet
  <2>4. LateAt(k, "sent", "half", k1, k3, k4, k5, y, z) /\ Half(k, "sent", "half", k4) BY <1>4, <1>9, <2>1
  <2> QED BY <1>0, <1>1, <1>3, <2>3, <2>4, HalfReads
<1>10. ~Writes(k, place, at, k3, k4) BY <1>0 DEF Writes, Writer, Reading
<1>11. ~Ahead(k, place, at) BY <1>0, <1>2 DEF Ahead
<1>12. ~Streams(k, place, at, k1, k3, k4) BY <1>0 DEF Streams, Reading
<1> QED BY <1>5, <1>8, <1>9, <1>10, <1>11, <1>12 DEF ServerAt

LEMMA ServerEndsStep == ASSUME HandshakeInv, ServerEnds PROVE HandshakeInv'
<1>0. /\ ~s.closed /\ c.closed /\ c.channel = "connected" /\ s' = Ended(s, "peer")
      /\ cfg' = cfg /\ app' = app /\ c' = c /\ wire' = wire /\ IsWire(wire)
  BY DEF HandshakeInv, Records, ServerEnds
<1>1. PICK g, y \in Nat : Downwards(g, y) /\ Late(y) BY <1>0, ServerLate
<1>2. IsWire(wire') /\ SameWires(wire', wire, {"c2s", "s2c"}) BY <1>0 DEF SameWires
<1> QED BY <1>0, <1>1, <1>2, ServerEndsInv

LEMMA ServerReadsNothingInv == ASSUME HandshakeInv, ServerReadsNothing PROVE HandshakeInv'
<1>0. /\ IsWire(wire) /\ IsServer(s) /\ s.closed = FALSE /\ s.stage \in {"auth", "request"}
      /\ s.why = "none" /\ cfg' = cfg /\ app' = app /\ c' = c /\ wire' = wire
      /\ s' = IF s.stage = "request" THEN [s EXCEPT !.stage = "socks", !.why = "spurious"]
              ELSE Ended(s, "spurious")
  BY DEF HandshakeInv, Records, ServerReadsNothing
<1>1. PICK g, y \in Nat : Downwards(g, y) /\ Late(y) BY <1>0, ServerLate
<1>2. CASE s.stage = "auth"
  <2>1. IsWire(wire') /\ SameWires(wire', wire, {"c2s", "s2c"}) BY <1>0 DEF SameWires
  <2>2. Reason("spurious") BY DEF Reason
  <2>3. s' = Ended(s, "spurious") BY <1>0, <1>2
  <2> QED BY <1>0, <1>1, <2>1, <2>2, <2>3, ServerEndsInv
<1>3. CASE s.stage = "request"
  <2>1. PICK k, place, at, k1, k3, k4, k5, z : LateAt(k, place, at, k1, k3, k4, k5, y, z)
    BY <1>1 DEF Late
  <2>2. /\ ClientAt(k, place, k4, k5) /\ ServerAt(k, place, at, k1, k3, k4) /\ Backwards(k, place, at, y, z)
        /\ k1 \in Nat /\ k3 \in Nat /\ z \in Nat
    BY <2>1 DEF LateAt
  <2>3. s' = [s EXCEPT !.stage = "socks", !.why = "spurious"] BY <1>0, <1>3
  <2>4. /\ IsServer(s') /\ s'.closed = FALSE /\ s'.stage = "socks" /\ s'.why = "spurious"
        /\ s'.upstream_ = s.upstream_ /\ s'.handshake_pending_buf_ = s.handshake_pending_buf_
        /\ s'.channel = s.channel /\ s'.chunk = s.chunk
    BY <1>0, <2>3 DEF IsServer
  <2>5. k \in UsedKinds BY <2>2 DEF ClientAt
  <2>6. /\ Carried(k)' = Carried(k) /\ Payload' = Payload /\ NextKind(k)' = NextKind(k)
        /\ (\A to : Knows(k, to)' = Knows(k, to)) /\ Nothing' = Nothing
    BY <1>0, <2>4, CfgSame, RequestSame DEF Nothing
  <2>7. CASE Idle(k, place, at, k4)
    <3>1. at = "reads" /\ k = "req5" BY <1>0, <1>3, <2>2, <2>5, <2>7, KindsUsed DEF Idle, ServerAt, Reader
    <3>2. Idle(k, place, "lost", k4)' BY <1>0, <2>4, <2>6, <2>7, <3>1 DEF Idle
    <3>3. Knows(k, "lost") BY <2>2, <3>1 DEF ServerAt, Knows
    <3>4. ServerAt(k, place, "lost", k1, k3, k4)' BY <1>0, <2>2, <2>4, <2>6, <3>1, <3>2, <3>3 DEF ServerAt
    <3>5. Answers(k, place, "lost") = Answers(k, place, at) BY <3>1 DEF Answers
    <3>6. Backwards(k, place, "lost", y, z)' BY <1>0, <2>2, <3>5, BackQuiet
    <3>7. "lost" \in {"reads", "lost", "half", "writes", "ahead", "ahead_lost", "stream"} OBVIOUS
    <3> QED BY <1>0, <1>1, <2>2, <2>4, <3>4, <3>6, <3>7, ServerFrame
  <2>8. CASE Ahead(k, place, at)
    <3>1. at = "ahead" /\ NextKind(k) = "req5" BY <1>0, <1>3, <2>2, <2>8 DEF Ahead, ServerAt, Reader, NextKind
    <3>2. Ahead(k, place, "ahead_lost")' BY <1>0, <2>4, <2>6, <2>8, <3>1 DEF Ahead
    <3>3. Knows(k, "ahead_lost") BY <2>2, <3>1 DEF ServerAt, Knows
    <3>4. ServerAt(k, place, "ahead_lost", k1, k3, k4)' BY <1>0, <2>2, <2>4, <2>6, <3>1, <3>2, <3>3 DEF ServerAt
    <3>5. Answers(k, place, "ahead_lost") = Answers(k, place, at) BY <3>1 DEF Answers
    <3>6. Backwards(k, place, "ahead_lost", y, z)' BY <1>0, <2>2, <3>5, BackQuiet
    <3>7. "ahead_lost" \in {"reads", "lost", "half", "writes", "ahead", "ahead_lost", "stream"} OBVIOUS
    <3> QED BY <1>0, <1>1, <2>2, <2>4, <3>4, <3>6, <3>7, ServerFrame
  <2>9. ~Half(k, place, at, k4) BY <1>3 DEF Half
  <2>10. ~Writes(k, place, at, k3, k4) BY <1>3 DEF Writes, Writer
  <2>11. ~Streams(k, place, at, k1, k3, k4) BY <1>3 DEF Streams
  <2> QED BY <2>2, <2>7, <2>8, <2>9, <2>10, <2>11 DEF ServerAt
<1> QED BY <1>0, <1>2, <1>3

\* An answer goes out before the last: nothing came behind the message.
LEMMA AnswersInv ==
  ASSUME HandshakeInv, s.closed = FALSE, cfg' = cfg, app' = app, c' = c,
         NEW g \in Nat, NEW y \in Nat, Downwards(g, y),
         NEW k, NEW place, NEW at, NEW k1, NEW k3, NEW k4, NEW k5, NEW z,
         LateAt(k, place, at, k1, k3, k4, k5, y, z), Writes(k, place, at, k3, k4), k \in {"greet", "auth"},
         s' \in Goes(s, Reader(NextKind(k))), wire' = Sends("s2c", Reply(k))
  PROVE  HandshakeInv'
<1>0. IsWire(wire) /\ IsServer(s) BY DEF HandshakeInv, Records
<1>1. /\ ClientAt(k, place, k4, k5) /\ ServerAt(k, place, at, k1, k3, k4) /\ Backwards(k, place, at, y, z)
      /\ k1 \in Nat /\ k3 \in Nat /\ z \in Nat /\ k4 \in Nat
  BY DEF LateAt
<1>2. k4 = 0 /\ k \in UsedKinds BY <1>1 DEF ClientAt, LastKinds
<1>3. /\ at = "writes" /\ place = "sent" /\ k3 \in Nat /\ k3 <= k4 /\ s.handshake_pending_buf_ = Seg(Payload, 0, k3)
      /\ s.upstream_ = << >> /\ s.channel = "none" /\ wire.s2r = << >> /\ wire.c2s = Seg(Payload, k3, k4)
  BY DEF Writes
<1>4. k3 = 0 BY <1>2, <1>3
<1>5. Seg(Payload, 0, 0) = << >>
  <2> DEFINE e == Payload
  <2> HIDE DEF e
  <2>1. Seg(e, 0, 0) = << >> BY SegEmpty
  <2> QED BY <2>1 DEF e
<1>6. s.handshake_pending_buf_ = << >> /\ wire.c2s = << >> BY <1>2, <1>3, <1>4, <1>5
<1> DEFINE st == Reader(NextKind(k))  h == << >>
<1>7. s' = [s EXCEPT !.stage = st, !.handshake_pending_buf_ = h]
  <2> HIDE DEF st
  <2> QED BY <1>6 DEF Goes, st
<1>8. /\ IsServer(s') /\ s'.closed = FALSE /\ s'.why = s.why /\ s'.stage = st
      /\ s'.handshake_pending_buf_ = << >> /\ s'.channel = s.channel /\ s'.upstream_ = s.upstream_
  <2> HIDE DEF st, h
  <2>1. /\ IsServer(s') /\ s'.closed = FALSE /\ s'.why = s.why /\ s'.stage = st
        /\ s'.handshake_pending_buf_ = h /\ s'.channel = s.channel /\ s'.upstream_ = s.upstream_
    BY <1>0, <1>7 DEF IsServer
  <2> QED BY <2>1 DEF h
<1>9. /\ IsWire(wire') /\ wire'.s2c = wire.s2c \o Reply(k) /\ wire'.a2c = wire.a2c /\ wire'.c2a = wire.c2a
      /\ wire'.c2s = wire.c2s /\ wire'.s2r = wire.s2r /\ wire'.r2s = wire.r2s
  <2> DEFINE r == Reply(k)  d == "s2c"
  <2> HIDE DEF r
  <2>1. wire' = Sends(d, r) BY DEF r
  <2>2. IsWire(wire') /\ wire'[d] = wire[d] \o r /\ SameWires(wire', wire, {d}) BY <1>0, <2>1, WireStep
  <2> QED BY <2>2 DEF SameWires, r
<1>10. NextKind(k)' = NextKind(k) /\ \A to : Knows(k, to)' = Knows(k, to) BY CfgSame
<1>11. Ahead(k, place, "ahead")' BY <1>3, <1>6, <1>8, <1>9, <1>10 DEF Ahead, Nothing
<1>12. Knows(k, "ahead") BY <1>1, <1>3 DEF ServerAt, Knows
<1>13. s.why = "none" /\ app.back = 0 BY <1>1, <1>3 DEF ServerAt
<1>14. ServerAt(k, place, "ahead", k1, k3, k4)' BY <1>8, <1>10, <1>11, <1>12, <1>13 DEF ServerAt
<1>15. Answers(k, place, at) = << >> /\ Answers(k, place, "ahead") = Reply(k) BY <1>3 DEF Answers
<1>16. Backwards(k, place, "ahead", y, z)' BY <1>1, <1>9, <1>13, <1>15, BackAnswer
<1>17. "ahead" \in {"reads", "lost", "half", "writes", "ahead", "ahead_lost", "stream"} OBVIOUS
<1> QED BY <1>1, <1>8, <1>9, <1>14, <1>16, <1>17, ServerFrame

\* A server that is about to answer.
LEMMA WritingIs ==
  ASSUME HandshakeInv, s.stage \in {"write_method", "write_auth", "write_reply"}
  PROVE  \E g, y \in Nat : \E k, place, at, k1, k3, k4, k5, z :
            /\ Downwards(g, y) /\ LateAt(k, place, at, k1, k3, k4, k5, y, z) /\ Writes(k, place, at, k3, k4)
            /\ k \in UsedKinds /\ k \in {"greet", "auth", "req4", "req5"} /\ s.stage = Writer(k)
            /\ Knows(k, "writes")
<1>1. PICK g, y \in Nat : Downwards(g, y) /\ Late(y) BY ServerLate
<1>2. PICK k, place, at, k1, k3, k4, k5, z : LateAt(k, place, at, k1, k3, k4, k5, y, z) BY <1>1 DEF Late
<1>3. ClientAt(k, place, k4, k5) /\ ServerAt(k, place, at, k1, k3, k4) BY <1>2 DEF LateAt
<1>4. k \in UsedKinds BY <1>3 DEF ClientAt
<1>5. ~Idle(k, place, at, k4) BY DEF Idle, Reader
<1>6. ~Half(k, place, at, k4) BY DEF Half
<1>7. ~Ahead(k, place, at) BY DEF Ahead, Reader
<1>8. ~Streams(k, place, at, k1, k3, k4) BY DEF Streams
<1>9. Writes(k, place, at, k3, k4) BY <1>3, <1>5, <1>6, <1>7, <1>8 DEF ServerAt
<1>10. k \in {"greet", "auth", "req4", "req5"} /\ s.stage = Writer(k) /\ at = "writes" BY <1>9 DEF Writes
<1>11. Knows(k, "writes") BY <1>3, <1>10 DEF ServerAt
<1> QED BY <1>1, <1>2, <1>4, <1>9, <1>10, <1>11

LEMMA WriteMethodSelectResponseInv == ASSUME HandshakeInv, WriteMethodSelectResponse PROVE HandshakeInv'
<1>0. /\ s.closed = FALSE /\ s.stage = "write_method" /\ cfg' = cfg /\ app' = app /\ c' = c /\ ConfigOK
      /\ s' \in Goes(s, IF cfg.auth_required THEN "auth" ELSE "request")
      /\ wire' = Sends("s2c", Msg("method", IF cfg.auth_required THEN "auth" ELSE "noauth"))
  BY DEF HandshakeInv, Records, WriteMethodSelectResponse
<1>1. PICK g, y \in Nat : \E k, place, at, k1, k3, k4, k5, z :
            /\ Downwards(g, y) /\ LateAt(k, place, at, k1, k3, k4, k5, y, z) /\ Writes(k, place, at, k3, k4)
            /\ k \in UsedKinds /\ k \in {"greet", "auth", "req4", "req5"} /\ s.stage = Writer(k)
            /\ Knows(k, "writes")
  BY <1>0, WritingIs
<1>2. PICK k, place, at, k1, k3, k4, k5, z :
            /\ Downwards(g, y) /\ LateAt(k, place, at, k1, k3, k4, k5, y, z) /\ Writes(k, place, at, k3, k4)
            /\ k \in UsedKinds /\ k \in {"greet", "auth", "req4", "req5"} /\ s.stage = Writer(k)
            /\ Knows(k, "writes")
  BY <1>1
<1>3. k = "greet" BY <1>0, <1>2 DEF Writer
<1>4. cfg.auth_required = AuthRequired BY <1>2, <1>3 DEF Knows
<1>5. Reader(NextKind(k)) = (IF cfg.auth_required THEN "auth" ELSE "request") BY <1>3, <1>4 DEF Reader, NextKind
<1>6. Reply(k) = Msg("method", IF cfg.auth_required THEN "auth" ELSE "noauth") BY <1>3, <1>4 DEF Reply, Carried
<1> QED BY <1>0, <1>2, <1>3, <1>5, <1>6, AnswersInv

LEMMA WriteUsernamePasswordAuthResponseInv ==
  ASSUME HandshakeInv, WriteUsernamePasswordAuthResponse PROVE HandshakeInv'
<1>0. /\ s.closed = FALSE /\ s.stage = "write_auth" /\ cfg' = cfg /\ app' = app /\ c' = c
      /\ s' \in Goes(s, "request") /\ wire' = Sends("s2c", Msg("authok", "none"))
  BY DEF HandshakeInv, Records, WriteUsernamePasswordAuthResponse
<1>1. PICK g, y \in Nat : \E k, place, at, k1, k3, k4, k5, z :
            /\ Downwards(g, y) /\ LateAt(k, place, at, k1, k3, k4, k5, y, z) /\ Writes(k, place, at, k3, k4)
            /\ k \in UsedKinds /\ k \in {"greet", "auth", "req4", "req5"} /\ s.stage = Writer(k)
            /\ Knows(k, "writes")
  BY <1>0, WritingIs
<1>2. PICK k, place, at, k1, k3, k4, k5, z :
            /\ Downwards(g, y) /\ LateAt(k, place, at, k1, k3, k4, k5, y, z) /\ Writes(k, place, at, k3, k4)
            /\ k \in UsedKinds /\ k \in {"greet", "auth", "req4", "req5"} /\ s.stage = Writer(k)
            /\ Knows(k, "writes")
  BY <1>1
<1>3. k = "auth" BY <1>0, <1>2 DEF Writer
<1>4. Reader(NextKind(k)) = "request" /\ Reply(k) = Msg("authok", "none") BY <1>3 DEF Reader, NextKind, Reply
<1> QED BY <1>0, <1>2, <1>3, <1>4, AnswersInv

LEMMA WriteHandshakeResponseInv == ASSUME HandshakeInv, WriteHandshakeResponse PROVE HandshakeInv'
<1>0. /\ s.closed = FALSE /\ s.stage = "write_reply" /\ cfg' = cfg /\ app' = app /\ c' = c /\ IsWire(wire)
      /\ s' = Streaming(s, s.request_, s.handshake_pending_buf_) /\ wire' = Sends("s2c", Msg("granted", "none"))
  BY DEF HandshakeInv, Records, WriteHandshakeResponse
<1>1. PICK g, y \in Nat : \E k, place, at, k1, k3, k4, k5, z :
            /\ Downwards(g, y) /\ LateAt(k, place, at, k1, k3, k4, k5, y, z) /\ Writes(k, place, at, k3, k4)
            /\ k \in UsedKinds /\ k \in {"greet", "auth", "req4", "req5"} /\ s.stage = Writer(k)
            /\ Knows(k, "writes")
  BY <1>0, WritingIs
<1>2. PICK k, place, at, k1, k3, k4, k5, z :
            /\ Downwards(g, y) /\ LateAt(k, place, at, k1, k3, k4, k5, y, z) /\ Writes(k, place, at, k3, k4)
            /\ k \in UsedKinds /\ k \in {"greet", "auth", "req4", "req5"} /\ s.stage = Writer(k)
            /\ Knows(k, "writes")
  BY <1>1
<1>3. k \in {"req4", "req5"} /\ k \in LastKinds BY <1>0, <1>2 DEF Writer, LastKinds
<1>4. Reply(k) = Msg("granted", "none") BY <1>3 DEF Reply
<1>5. /\ at = "writes" /\ place = "sent" /\ k3 \in Nat /\ k3 <= k4 /\ s.handshake_pending_buf_ = Seg(Payload, 0, k3)
      /\ wire.s2r = << >> /\ wire.c2s = Seg(Payload, k3, k4) /\ s.request_ = c.request_
  BY <1>0, <1>2, <1>3 DEF Writes
<1>6. /\ IsWire(wire') /\ SameWires(wire', wire, {"s2c"}) /\ wire'.s2c = wire.s2c \o Reply(k)
  <2> DEFINE r == Reply(k)  d == "s2c"
  <2>1. wire' = Sends(d, r) BY <1>0, <1>4
  <2> HIDE DEF r
  <2>2. IsWire(wire') /\ wire'[d] = wire[d] \o r /\ SameWires(wire', wire, {d}) BY <1>0, <2>1, WireStep
  <2> QED BY <2>2 DEF r
<1>7. SameWires(wire', wire, {"c2s", "s2c"}) /\ wire'.c2s = Seg(Payload, k3, k4) BY <1>5, <1>6 DEF SameWires
<1>8. s' = Streaming(s, c.request_, Seg(Payload, 0, k3)) BY <1>0, <1>5
<1>9. LateAt(k, "sent", "writes", k1, k3, k4, k5, y, z) BY <1>2, <1>5
<1>10. "writes" \in {"reads", "half", "writes"} /\ ~(k = "connect") BY <1>3
<1> QED BY <1>0, <1>2, <1>3, <1>5, <1>6, <1>7, <1>8, <1>9, <1>10, StreamingInv

\* A server with a channel streams.
LEMMA StreamsIs ==
  ASSUME HandshakeInv, s.channel \in {"connecting", "connected"}
  PROVE  \E g, y \in Nat : \E k, place, k1, k3, k4, k5, z :
            /\ Downwards(g, y) /\ LateAt(k, place, "stream", k1, k3, k4, k5, y, z)
            /\ Streams(k, place, "stream", k1, k3, k4)
<1>1. PICK g, y \in Nat : Downwards(g, y) /\ Late(y) BY ServerLate
<1>2. PICK k, place, at, k1, k3, k4, k5, z : LateAt(k, place, at, k1, k3, k4, k5, y, z) BY <1>1 DEF Late
<1>3. ServerAt(k, place, at, k1, k3, k4) BY <1>2 DEF LateAt
<1>4. ~Idle(k, place, at, k4) BY DEF Idle, Nothing
<1>5. ~Half(k, place, at, k4) BY DEF Half, Nothing
<1>6. ~Writes(k, place, at, k3, k4) BY DEF Writes
<1>7. ~Ahead(k, place, at) BY DEF Ahead, Nothing
<1>8. Streams(k, place, at, k1, k3, k4) BY <1>3, <1>4, <1>5, <1>6, <1>7 DEF ServerAt
<1>9. at = "stream" BY <1>8 DEF Streams
<1> QED BY <1>1, <1>2, <1>8, <1>9

LEMMA ServerConnectsInv == ASSUME HandshakeInv, ServerConnects PROVE HandshakeInv'
<1>0. /\ IsWire(wire) /\ IsServer(s) /\ s.closed = FALSE /\ s.channel = "connecting"
      /\ cfg' = cfg /\ app' = app /\ c' = c
  BY DEF HandshakeInv, Records, ServerConnects
<1>1. CASE s' = Ended(s, "connect") /\ UNCHANGED wire
  <2>1. PICK g, y \in Nat : Downwards(g, y) /\ Late(y) BY <1>0, ServerLate
  <2>2. IsWire(wire') /\ SameWires(wire', wire, {"c2s", "s2c"}) /\ wire' = wire BY <1>0, <1>1 DEF SameWires
  <2>3. PICK k, place, at, k1, k3, k4, k5, z : LateAt(k, place, at, k1, k3, k4, k5, y, z) BY <2>1 DEF Late
  <2>4. s.why \in {"none", "spurious"} BY <1>0, <2>3 DEF LateAt, ServerAt
  <2>5. Reason(IF s.why = "none" THEN "connect" ELSE s.why) BY <2>4 DEF Reason
  <2> QED BY <1>0, <1>1, <2>1, <2>2, <2>5, ServerEndsInv
<1>2. CASE s' = [s EXCEPT !.channel = "connected", !.upstream_ = << >>] /\ wire' = Sends("s2r", s.upstream_)
  <2>1. PICK g, y \in Nat : \E k, place, k1, k3, k4, k5, z :
            /\ Downwards(g, y) /\ LateAt(k, place, "stream", k1, k3, k4, k5, y, z)
            /\ Streams(k, place, "stream", k1, k3, k4)
    BY <1>0, StreamsIs
  <2>2. PICK k, place, k1, k3, k4, k5, z :
            /\ Downwards(g, y) /\ LateAt(k, place, "stream", k1, k3, k4, k5, y, z)
            /\ Streams(k, place, "stream", k1, k3, k4)
    BY <2>1
  <2>3. /\ ClientAt(k, place, k4, k5) /\ ServerAt(k, place, "stream", k1, k3, k4)
        /\ Backwards(k, place, "stream", y, z) /\ k4 \in Nat /\ z \in Nat
    BY <2>2 DEF LateAt
  <2>4. /\ place \in {"sent", "open"} /\ k \in LastKinds /\ s.stage = "stream" /\ s.request_ = c.request_
        /\ s.handshake_pending_buf_ = << >> /\ k1 \in Nat /\ k3 \in Nat /\ k1 <= k3 /\ k3 <= k4
        /\ wire.s2r = Seg(Payload, 0, k1) /\ s.upstream_ = Seg(Payload, k1, k3)
        /\ wire.c2s = Seg(Payload, k3, k4)
    BY <1>0, <2>2 DEF Streams
  <2> DEFINE h == << >>
  <2>5. /\ IsServer(s') /\ s'.closed = FALSE /\ s'.why = s.why /\ s'.stage = s.stage
        /\ s'.handshake_pending_buf_ = s.handshake_pending_buf_ /\ s'.channel = "connected"
        /\ s'.request_ = s.request_ /\ s'.upstream_ = << >>
    <3>1. s' = [s EXCEPT !.channel = "connected", !.upstream_ = h] BY <1>2
    <3> HIDE DEF h
    <3>2. /\ IsServer(s') /\ s'.closed = FALSE /\ s'.why = s.why /\ s'.stage = s.stage
          /\ s'.handshake_pending_buf_ = s.handshake_pending_buf_ /\ s'.channel = "connected"
          /\ s'.request_ = s.request_ /\ s'.upstream_ = h
      BY <1>0, <3>1 DEF IsServer
    <3> QED BY <3>2 DEF h
  <2>6. /\ IsWire(wire') /\ wire'.s2r = wire.s2r \o s.upstream_ /\ wire'.a2c = wire.a2c /\ wire'.c2a = wire.c2a
        /\ wire'.c2s = wire.c2s /\ wire'.s2c = wire.s2c /\ wire'.r2s = wire.r2s
    <3> DEFINE r == s.upstream_  d == "s2r"
    <3>1. wire' = Sends(d, r) BY <1>2
    <3> HIDE DEF r
    <3>2. IsWire(wire') /\ wire'[d] = wire[d] \o r /\ SameWires(wire', wire, {d}) BY <1>0, <3>1, WireStep
    <3> QED BY <3>2 DEF SameWires, r
  <2>7. wire'.s2r = Seg(Payload, 0, k3) /\ Seg(Payload, k3, k3) = << >>
    <3> DEFINE e == Payload
    <3>1. wire'.s2r = Seg(e, 0, k1) \o Seg(e, k1, k3) BY <2>4, <2>6
    <3> HIDE DEF e
    <3>2. Seg(e, 0, k1) \o Seg(e, k1, k3) = Seg(e, 0, k3)
      <4>1. 0 \in Nat /\ 0 <= k1 /\ k1 <= k3 BY <2>4
      <4> QED BY <2>4, <4>1, SegCat
    <3>3. Seg(e, k3, k3) = << >>
      <4>1. k3 <= k3 BY <2>4
      <4> QED BY <2>4, <4>1, SegEmpty
    <3> QED BY <3>1, <3>2, <3>3 DEF e
  <2>8. Payload' = Payload /\ Knows(k, "stream")' = Knows(k, "stream") BY <1>0, CfgSame
  <2>9. Streams(k, place, "stream", k3, k3, k4)'
    <3>1. k3 <= k3 BY <2>4
    <3> QED BY <1>0, <2>4, <2>5, <2>6, <2>7, <2>8, <3>1 DEF Streams
  <2>10. ServerAt(k, place, "stream", k3, k3, k4)' BY <1>0, <2>3, <2>5, <2>8, <2>9 DEF ServerAt
  <2>11. Backwards(k, place, "stream", y, z)' BY <1>0, <2>3, <2>6, BackQuiet
  <2>12. "stream" \in {"reads", "lost", "half", "writes", "ahead", "ahead_lost", "stream"} OBVIOUS
  <2> QED BY <1>0, <2>2, <2>3, <2>4, <2>5, <2>6, <2>10, <2>11, <2>12, ServerFrame
<1> QED BY <1>1, <1>2 DEF ServerConnects

\* What a reply and the payload behind it make.
Extends(r, e, a, b, d) == (r \o Seg(e, a, b)) \o Seg(e, b, d) = r \o Seg(e, a, d)

LEMMA ReplyGrows ==
  ASSUME NEW r, r = << >> \/ (\E q, w : r = Msg(q, w)),
         NEW e, NEW a, NEW b, NEW d, a \in Nat, b \in Nat, d \in Nat, a <= b, b <= d
  PROVE  Extends(r, e, a, b, d)
<1>1. CASE r = << >>
  <2>0. a <= d OBVIOUS
  <2>1. IsPiece(Seg(e, a, b), e, a, b) /\ IsPiece(Seg(e, a, d), e, a, d) BY <2>0, SegType
  <2>2. << >> \o Seg(e, a, b) = Seg(e, a, b) /\ << >> \o Seg(e, a, d) = Seg(e, a, d)
    BY <2>1, ConcatEmptySeq DEF IsPiece
  <2>3. Seg(e, a, b) \o Seg(e, b, d) = Seg(e, a, d) BY SegCat
  <2> QED BY <1>1, <2>2, <2>3 DEF Extends
<1>2. ASSUME NEW q, NEW w, r = Msg(q, w) PROVE Extends(r, e, a, b, d)
  <2>1. Grows(q, w, e, a, b, d) BY FrontGrows
  <2> QED BY <1>2, <2>1 DEF Grows, Front, Extends
<1> QED BY <1>1, <1>2

LEMMA AnswersAre ==
  ASSUME NEW k, NEW place, NEW at
  PROVE  LET r == Answers(k, place, at) IN r = << >> \/ \E q, w : r = Msg(q, w)
<1>1. Reply(k) = << >> \/ \E q, w : Reply(k) = Msg(q, w) BY DEF Reply
<1> QED BY <1>1 DEF Answers

\* All of a piece is read.
LEMMA SegAll ==
  ASSUME NEW e, NEW a, NEW b, a \in Nat, b \in Nat, a <= b
  PROVE  Rest(Seg(e, a, b), Len(Seg(e, a, b))) = Seg(e, b, b)
<1> DEFINE n == Len(Seg(e, a, b))
<1>1. IsPiece(Seg(e, a, b), e, a, b) BY SegType
<1>2. n = b - a BY <1>1 DEF IsPiece
<1> HIDE DEF n
<1>3. n \in 0 .. b - a /\ a + n = b BY <1>2
<1>4. Cuts(e, a, b, n) BY <1>3, SegRead
<1> QED BY <1>3, <1>4 DEF Cuts, n

LEMMA ServerRelaysInv == ASSUME HandshakeInv, ServerRelays PROVE HandshakeInv'
<1>0. /\ IsWire(wire) /\ IsServer(s) /\ s.closed = FALSE /\ s.channel = "connected"
      /\ cfg' = cfg /\ app' = app /\ c' = c /\ s' = s /\ app.back \in Nat
  BY DEF HandshakeInv, Records, ServerRelays
<1>1. PICK g, y \in Nat : \E k, place, k1, k3, k4, k5, z :
            /\ Downwards(g, y) /\ LateAt(k, place, "stream", k1, k3, k4, k5, y, z)
            /\ Streams(k, place, "stream", k1, k3, k4)
  BY <1>0, StreamsIs
<1>2. PICK k, place, k1, k3, k4, k5, z :
            /\ Downwards(g, y) /\ LateAt(k, place, "stream", k1, k3, k4, k5, y, z)
            /\ Streams(k, place, "stream", k1, k3, k4)
  BY <1>1
<1>3. /\ ClientAt(k, place, k4, k5) /\ ServerAt(k, place, "stream", k1, k3, k4)
      /\ Backwards(k, place, "stream", y, z) /\ k4 \in Nat /\ z \in Nat
  BY <1>2 DEF LateAt
<1>4. /\ place \in {"sent", "open"} /\ k \in LastKinds /\ s.stage = "stream" /\ s.request_ = c.request_
      /\ s.handshake_pending_buf_ = << >> /\ k1 \in Nat /\ k3 \in Nat /\ k3 <= k4 /\ k1 = k3
      /\ wire.s2r = Seg(Payload, 0, k1) /\ s.upstream_ = Seg(Payload, k1, k3)
      /\ wire.c2s = Seg(Payload, k3, k4)
  BY <1>0, <1>2 DEF Streams
<1>5. Payload' = Payload /\ Knows(k, "stream")' = Knows(k, "stream") /\ Data' = Data BY <1>0, CfgSame DEF Data
<1>6. "stream" \in {"reads", "lost", "half", "writes", "ahead", "ahead_lost", "stream"} OBVIOUS
<1>7. CASE wire' = [Taken("c2s", Len(wire.c2s)) EXCEPT !.s2r = @ \o wire.c2s]
  <2>1. /\ IsWire(wire') /\ wire'.s2r = wire.s2r \o wire.c2s /\ wire'.a2c = wire.a2c /\ wire'.c2a = wire.c2a
        /\ wire'.c2s = Rest(wire.c2s, Len(wire.c2s)) /\ wire'.s2c = wire.s2c /\ wire'.r2s = wire.r2s
    BY <1>0, <1>7 DEF IsWire, Taken
  <2>2. wire'.s2r = Seg(Payload, 0, k4) /\ wire'.c2s = Seg(Payload, k4, k4) /\ s.upstream_ = Seg(Payload, k4, k4)
    <3> DEFINE e == Payload
    <3>1. wire'.s2r = Seg(e, 0, k3) \o Seg(e, k3, k4) /\ wire'.c2s = Rest(Seg(e, k3, k4), Len(Seg(e, k3, k4)))
          /\ s.upstream_ = Seg(e, k3, k3)
      BY <1>4, <2>1
    <3> HIDE DEF e
    <3>0. 0 \in Nat /\ 0 <= k3 /\ k3 <= k4 /\ k3 <= k3 /\ k4 <= k4 BY <1>3, <1>4
    <3>2. Seg(e, 0, k3) \o Seg(e, k3, k4) = Seg(e, 0, k4) BY <1>3, <1>4, <3>0, SegCat
    <3>3. Seg(e, k3, k3) = << >> /\ Seg(e, k4, k4) = << >>
      <4>1. Seg(e, k3, k3) = << >> BY <1>4, <3>0, SegEmpty
      <4>2. Seg(e, k4, k4) = << >> BY <1>3, <3>0, SegEmpty
      <4> QED BY <4>1, <4>2
    <3>4. Rest(Seg(e, k3, k4), Len(Seg(e, k3, k4))) = Seg(e, k4, k4) BY <1>3, <1>4, SegAll
    <3> QED BY <3>1, <3>2, <3>3, <3>4 DEF e
  <2>3. Streams(k, place, "stream", k4, k4, k4)'
    <3>1. k4 <= k4 BY <1>3
    <3> QED BY <1>0, <1>3, <1>4, <1>5, <2>2, <3>1 DEF Streams
  <2>4. ServerAt(k, place, "stream", k4, k4, k4)' BY <1>0, <1>3, <1>5, <2>3 DEF ServerAt
  <2>5. Backwards(k, place, "stream", y, z)' BY <1>0, <1>3, <2>1, BackQuiet
  <2> QED BY <1>0, <1>2, <1>3, <1>6, <2>1, <2>4, <2>5, ServerFrame
<1>8. CASE wire' = [Taken("r2s", Len(wire.r2s)) EXCEPT !.s2c = @ \o wire.r2s]
  <2>1. /\ IsWire(wire') /\ wire'.s2r = wire.s2r /\ wire'.a2c = wire.a2c /\ wire'.c2a = wire.c2a
        /\ wire'.r2s = Rest(wire.r2s, Len(wire.r2s)) /\ wire'.s2c = wire.s2c \o wire.r2s /\ wire'.c2s = wire.c2s
    BY <1>0, <1>8 DEF IsWire, Taken
  <2>2. ServerAt(k, place, "stream", k1, k3, k4)' BY <1>0, <1>3, <2>1, ServerSame
  <2>4. PICK b \in Nat : b = app.back BY <1>0
  <2>5. Backwards(k, place, "stream", y, b)'
    <3>1. Answers(k, place, "stream")' = Answers(k, place, "stream") BY <1>0, RequestSame
    <3>2. ASSUME ~c.closed
          PROVE  /\ y <= b /\ b <= b
                 /\ wire'.s2c = Answers(k, place, "stream") \o Seg(Data, y, b)
                 /\ wire'.r2s = Seg(Data, b, b)
      <4> DEFINE e == Data  r == Answers(k, place, "stream")
      <4>0. r = << >> \/ \E q, w : r = Msg(q, w) BY AnswersAre
      <4>1. /\ y <= z /\ z <= b /\ wire.s2c = r \o Seg(e, y, z) /\ wire.r2s = Seg(e, z, b)
        BY <1>3, <2>4, <3>2 DEF Backwards
      <4>2. b \in Nat BY <2>4
      <4> HIDE DEF e, r
      <4>6. Extends(r, e, y, z, b) BY <1>3, <4>0, <4>1, <4>2, ReplyGrows
      <4>3. (r \o Seg(e, y, z)) \o Seg(e, z, b) = r \o Seg(e, y, b) BY <4>6 DEF Extends
      <4>4. Rest(Seg(e, z, b), Len(Seg(e, z, b))) = Seg(e, b, b) BY <1>3, <4>1, <4>2, SegAll
      <4>5. y <= b /\ b <= b BY <1>3, <4>1, <4>2
      <4> QED BY <2>1, <4>1, <4>3, <4>4, <4>5 DEF e, r
    <3> QED BY <1>0, <1>5, <2>4, <3>1, <3>2 DEF Backwards
  <2> QED BY <1>0, <1>2, <1>3, <1>4, <1>6, <2>1, <2>2, <2>4, <2>5, ServerFrame
<1> QED BY <1>7, <1>8 DEF ServerRelays

LEMMA InitHandshake == Init => HandshakeInv
<1> SUFFICES ASSUME Init PROVE HandshakeInv OBVIOUS
<1>1. ConfigOK BY MethodsAssumption, FrontsAssumption, DestinationsAssumption DEF Init, ConfigOK
<1>2. c = InitialClient /\ s = InitialServer /\ app.sent = 0 /\ app.back = 0 /\ app.got = << >>
      /\ app.next = (CASE cfg.front = "redir" -> "data" [] cfg.front = "socks5" -> "greet" [] OTHER -> "request")
      /\ wire.a2c = << >> /\ wire.c2a = << >> /\ wire.c2s = << >> /\ wire.s2c = << >> /\ wire.s2r = << >> /\ wire.r2s = << >>
  BY DEF Init
<1>3. Records
  <2>1. IsClient(c) /\ c.closed = FALSE BY <1>2 DEF InitialClient, IsClient
  <2>2. IsServer(s) /\ s.closed = FALSE
    <3> DEFINE st == CASE cfg.method = "ss" -> "ss" [] cfg.method = "https" -> "https" [] OTHER -> "socks"
    <3>1. s = [closed |-> FALSE, why |-> "none", stage |-> st, handshake_pending_buf_ |-> << >>, chunk |-> << >>,
               request_ |-> "none", channel |-> "none", upstream_ |-> << >>]
      BY <1>2 DEF InitialServer
    <3> HIDE DEF st
    <3> QED BY <3>1 DEF IsServer
  <2>3. IsApp(app)
    <3> DEFINE n == CASE cfg.front = "redir" -> "data" [] cfg.front = "socks5" -> "greet" [] OTHER -> "request"
    <3>1. app = [sent |-> 0, back |-> 0, got |-> << >>, next |-> n] BY DEF Init
    <3> HIDE DEF n
    <3> QED BY <3>1 DEF IsApp
  <2>4. IsWire(wire) BY DEF Init, IsWire
  <2> QED BY <2>1, <2>2, <2>3, <2>4 DEF Records
<1>4. Ends BY <1>2 DEF Ends, InitialClient, InitialServer
<1>5. Downwards(0, 0)
  <2>1. Seg(Data, 0, 0) = << >>
    <3> HIDE DEF Data
    <3> QED BY SegEmpty
  <2> QED BY <1>2, <2>1 DEF Downwards
<1>6. Early(0)
  <2>1. Seg(Data, 0, app.sent) = << >>
    <3> HIDE DEF Data
    <3> QED BY <1>2, SegEmpty
  <2>3. Unread BY <1>2, <2>1 DEF Unread
  <2>4. c.channel # "connected" /\ c.upstream_ = << >> /\ c.awaits = {} BY <1>2 DEF InitialClient
  <2> QED BY <1>2, <2>3, <2>4 DEF Early, Untouched
<1>7. 0 \in Nat OBVIOUS
<1> QED BY <1>1, <1>2, <1>3, <1>4, <1>5, <1>6, <1>7 DEF HandshakeInv

LEMMA SameHandshake == ASSUME HandshakeInv, UNCHANGED vars PROVE HandshakeInv'
<1>0. cfg' = cfg /\ app' = app /\ c' = c /\ s' = s /\ wire' = wire BY DEF vars
<1>1. PICK g, y \in Nat : Downwards(g, y) /\ (Early(y) \/ Late(y)) BY DEF HandshakeInv
<1>2. Downwards(g, y)' BY <1>0, <1>1 DEF Downwards, Data
<1>3. ASSUME Early(y) PROVE Early(y)'
  <2>1. Untouched' BY <1>0, <1>3 DEF Early, Untouched, InitialServer
  <2>2. Unread => Unread' BY <1>0, CfgSame DEF Unread, InitialClient, Asked, All
  <2>3. Greeted => Greeted' BY <1>0, CfgSame DEF Greeted, InitialClient, Asked, All
  <2>4. Requesting => Requesting' BY <1>0, CfgSame DEF Requesting
  <2>5. \A k6 : Reading6(0, k6) => Reading6(0, k6)' BY <1>0, CfgSame DEF Reading6, All
  <2> QED BY <1>0, <1>3, <2>1, <2>2, <2>3, <2>4, <2>5 DEF Early
<1>4. ASSUME Late(y) PROVE Late(y)'
  <2>1. PICK k, place, at, k1, k3, k4, k5, z : LateAt(k, place, at, k1, k3, k4, k5, y, z) BY <1>4 DEF Late
  <2>2. /\ ClientAt(k, place, k4, k5) /\ ServerAt(k, place, at, k1, k3, k4) /\ Backwards(k, place, at, y, z)
    BY <2>1 DEF LateAt
  <2>3. ClientAt(k, place, k4, k5)' BY <1>0, <2>2, ClientSame
  <2>4. ServerAt(k, place, at, k1, k3, k4)' BY <1>0, <2>2, ServerSame
  <2>5. Backwards(k, place, at, y, z)' BY <1>0, <2>2, BackSame
  <2>6. LateAt(k, place, at, k1, k3, k4, k5, y, z)' BY <2>1, <2>3, <2>4, <2>5 DEF LateAt
  <2> QED BY <2>6 DEF Late
<1>5. Early(y)' \/ Late(y)' BY <1>1, <1>3, <1>4
<1>6. ConfigOK' /\ Records' /\ Ends' /\ app'.sent \in Nat /\ app'.back \in Nat
  <2>1. ConfigOK /\ Records /\ Ends /\ app.sent \in Nat /\ app.back \in Nat BY DEF HandshakeInv
  <2> QED BY <1>0, <2>1, CfgSame DEF Records, Ends
<1> QED BY <1>1, <1>2, <1>5, <1>6 DEF HandshakeInv

LEMMA NextHandshake == HandshakeInv /\ [Next]_vars => HandshakeInv'
<1> SUFFICES ASSUME HandshakeInv, [Next]_vars PROVE HandshakeInv' OBVIOUS
<1>1. CASE AppSends BY <1>1, AppSendsInv
<1>2. CASE AppReads BY <1>2, AppReadsInv
<1>3. CASE RemoteSends BY <1>3, RemoteSendsInv
<1>4. CASE ReadMethodSelect BY <1>4, ReadMethodSelectInv
<1>5. CASE ReadSocks5Handshake BY <1>5, ReadSocks5HandshakeInv
<1>6. CASE OnResolve BY <1>6, OnResolveInv
<1>7. CASE ReadStream BY <1>7, ReadStreamInv
<1>8. CASE connected BY <1>8, connectedInv
<1>9. CASE connect_failed BY <1>9, connect_failedInv
<1>10. CASE WriteUpstreamInPipe BY <1>10, WriteUpstreamInPipeInv
<1>11. CASE ReadUpstream BY <1>11, ReadUpstreamInv
<1>12. CASE disconnected BY <1>12, disconnectedInv
<1>13. CASE ServerReads BY <1>13, ServerReadsInv
<1>14. CASE WriteMethodSelectResponse BY <1>14, WriteMethodSelectResponseInv
<1>15. CASE WriteUsernamePasswordAuthResponse BY <1>15, WriteUsernamePasswordAuthResponseInv
<1>16. CASE WriteHandshakeResponse BY <1>16, WriteHandshakeResponseInv
<1>17. CASE ServerConnects BY <1>17, ServerConnectsInv
<1>18. CASE ServerRelays BY <1>18, ServerRelaysInv
<1>19. CASE ServerEnds BY <1>19, ServerEndsStep
<1>20. CASE ServerReadsNothing BY <1>20, ServerReadsNothingInv
<1>21. CASE UNCHANGED vars BY <1>21, SameHandshake
<1> QED BY <1>1, <1>2, <1>3, <1>4, <1>5, <1>6, <1>7, <1>8, <1>9, <1>10, <1>11, <1>12, <1>13, <1>14,
        <1>15, <1>16, <1>17, <1>18, <1>19, <1>20, <1>21
        DEF Next, ClientSteps, ServerSteps

\* Client, server and application are at corresponding places of the handshakes,
\* and the streams between them hold what the one has sent and the other has not
\* read, for every method, front and destination.
THEOREM HandshakeInvariant == Spec => []HandshakeInv
BY InitHandshake, NextHandshake, PTL DEF Spec

LEMMA InvAgreement == HandshakeInv => Agreement
<1> SUFFICES ASSUME HandshakeInv, s.stage = "stream"
             PROVE  /\ s.request_ \in Meant
                    /\ cfg.auth_required /\ (cfg.method = "https" \/ CIPHER_METHOD_IS_SOCKS5(cfg.method))
                         => cfg.credentials = "right"
  BY DEF Agreement
<1>1. PICK g, y \in Nat : Downwards(g, y) /\ Late(y) BY ServerLate
<1>2. PICK k, place, at, k1, k3, k4, k5, z : LateAt(k, place, at, k1, k3, k4, k5, y, z) BY <1>1 DEF Late
<1>3. ClientAt(k, place, k4, k5) /\ ServerAt(k, place, at, k1, k3, k4) BY <1>2 DEF LateAt
<1>4. k \in UsedKinds /\ Wanted(c.request_) BY <1>3 DEF ClientAt
<1>5. ~Idle(k, place, at, k4) BY DEF Idle, Reader
<1>6. ~Half(k, place, at, k4) BY DEF Half
<1>7. ~Ahead(k, place, at) BY DEF Ahead, Reader
<1>8. ~Writes(k, place, at, k3, k4) BY DEF Writes, Writer
<1>9. Streams(k, place, at, k1, k3, k4) BY <1>3, <1>5, <1>6, <1>7, <1>8 DEF ServerAt
<1>10. at = "stream" /\ k \in LastKinds /\ s.request_ = c.request_ BY <1>9 DEF Streams
<1>11. Knows(k, "stream") BY <1>3, <1>10 DEF ServerAt
<1>12. ConfigOK BY DEF HandshakeInv
<1>13. (k = "connect" <=> cfg.method = "https") /\ (k = "req5" <=> CIPHER_METHOD_IS_SOCKS5(cfg.method))
  BY <1>4, <1>10, <1>12, Understood DEF LastKinds
<1>14. cfg.auth_required /\ (cfg.method = "https" \/ CIPHER_METHOD_IS_SOCKS5(cfg.method)) => cfg.credentials = "right"
  BY <1>11, <1>12, <1>13 DEF Knows, AuthRequired, ConfigOK
<1> QED BY <1>4, <1>10, <1>14 DEF Wanted

\* A server connects only for a client that showed the credentials it asks for,
\* and to the destination the application asked the client for, wherever the
\* reads of either end and whatever is configured (Agreement).
THEOREM AgreementCorrect == Spec => []Agreement
BY HandshakeInvariant, InvAgreement, PTL

\* A connection ends before its time only for a reason: with credentials that
\* match, a destination that can be reached and carried, and no message split or
\* read too early, client and server understand each other (EndedForAReason).
THEOREM EndsCorrect == Spec => []EndedForAReason
<1>1. HandshakeInv => EndedForAReason BY DEF HandshakeInv, Ends, EndedForAReason, Reason
<1> QED BY <1>1, HandshakeInvariant, PTL

-----------------------------------------------------------------------------
(* The payload. *)

\* Induction on the numbers, for sets.
LEMMA Induction ==
  ASSUME NEW S, 0 \in S, \A n \in Nat : n \in S => n + 1 \in S
  PROVE  Nat \subseteq S
<1> DEFINE Less == {p \in Nat \X Nat : p[1] < p[2]}  X == Nat \ S
<1>1. SUFFICES ASSUME X # {} PROVE FALSE OBVIOUS
<1>2. IsWellFoundedOn(Less, Nat) BY NatLessThanWellFounded DEF OpToRel
<1>3. X \subseteq Nat OBVIOUS
<1> HIDE DEF X, Less
<1>4. PICK x \in X : \A y \in X : ~(<<y, x>> \in Less) BY WFMin, <1>1, <1>2, <1>3
<1>5. x \in Nat /\ x \notin S BY <1>4 DEF X
<1>6. x - 1 \in Nat BY <1>5
<1>7. x - 1 \in S
  <2>1. <<x - 1, x>> \in Less BY <1>5, <1>6 DEF Less
  <2> QED BY <1>4, <1>6, <2>1 DEF X
<1>8. (x - 1) + 1 \in S BY <1>6, <1>7
<1> QED BY <1>5, <1>8

\* A longer piece, by one token.
LEMMA SegAppend ==
  ASSUME NEW e, NEW a, NEW b, a \in Nat, b \in Nat, a <= b
  PROVE  Append(Seg(e, a, b), e[b + 1]) = Seg(e, a, b + 1)
<1> DEFINE x == Seg(e, a, b)  T == Elements(e)  v == e[b + 1]
<1>1. IsPiece(x, e, a, b) BY SegType
<1>2. v \in T BY DEF Elements
<1>3. b + 1 \in Nat /\ a <= b + 1 /\ (b + 1) - a = (b - a) + 1 OBVIOUS
<1> HIDE DEF x, T
<1>4. x \in Seq(T) /\ Len(x) = b - a /\ \A i \in 1 .. b - a : x[i] = e[a + i] BY <1>1 DEF IsPiece, T
<1>5. /\ Append(x, v) \in Seq(T) /\ Len(Append(x, v)) = (b - a) + 1
      /\ \A i \in 1 .. b - a : Append(x, v)[i] = x[i]
      /\ Append(x, v)[(b - a) + 1] = v
  <2> HIDE DEF v
  <2>1. /\ Append(x, v) \in Seq(T) /\ Len(Append(x, v)) = Len(x) + 1
        /\ \A i \in 1 .. Len(x) : Append(x, v)[i] = x[i]
        /\ Append(x, v)[Len(x) + 1] = v
    BY <1>2, <1>4, AppendProperties
  <2> QED BY <1>4, <2>1
<1> DEFINE z == Append(x, v)
<1>6. ASSUME NEW i \in 1 .. (b + 1) - a PROVE z[i] = e[a + i]
  <2>1. CASE i \in 1 .. b - a BY <1>4, <1>5, <2>1
  <2>2. CASE i = (b - a) + 1
    <3>1. a + i = b + 1 BY <2>2
    <3>2. z[i] = v BY <1>5, <2>2
    <3> QED BY <3>1, <3>2
  <2>3. i \in 1 .. b - a \/ i = (b - a) + 1 BY <1>3
  <2> QED BY <2>1, <2>2, <2>3
<1>7. z \in Seq(T) /\ Len(z) = (b + 1) - a BY <1>3, <1>5
<1> HIDE DEF z
<1>8. IsPiece(z, e, a, b + 1) BY <1>6, <1>7 DEF IsPiece, T
<1>9. z = Seg(e, a, b + 1) BY <1>3, <1>8, SegIs
<1> QED BY <1>9 DEF z, x

\* What Kinds keeps of a sequence that begins with tokens of other kinds.
Kept(x, kinds, j, n) == Kinds(x, kinds) = Seg(x, j, n)

LEMMA KindsAre ==
  ASSUME NEW x, NEW kinds, NEW n, n \in Nat, Len(x) = n, NEW j, j \in Nat, j <= n,
         \A i \in 1 .. j : x[i][1] \notin kinds, \A i \in j + 1 .. n : x[i][1] \in kinds
  PROVE  Kept(x, kinds, j, n)
<1> DEFINE at(k) == IF k <= j THEN j ELSE k
           g == [k \in 0 .. n |-> Seg(x, j, at(k))]
           f == CHOOSE f : f = [k \in 0 .. Len(x) |->
                                  IF k = 0 THEN << >>
                                  ELSE IF x[k][1] \in kinds THEN Append(f[k - 1], x[k]) ELSE f[k - 1]]
<1>1. ASSUME NEW k \in 0 .. n
      PROVE  g[k] = IF k = 0 THEN << >> ELSE IF x[k][1] \in kinds THEN Append(g[k - 1], x[k]) ELSE g[k - 1]
  <2>1. CASE k = 0
    <3>1. at(k) = j BY <2>1
    <3>2. j <= j OBVIOUS
    <3>3. Seg(x, j, j) = << >> BY <3>2, SegEmpty
    <3> QED BY <2>1, <3>1, <3>3
  <2>2. CASE k # 0 /\ k <= j
    <3>1. k \in 1 .. j /\ k - 1 \in 0 .. n /\ at(k) = j /\ at(k - 1) = j BY <2>2
    <3>2. x[k][1] \notin kinds BY <3>1
    <3>3. g[k] = Seg(x, j, j) /\ g[k - 1] = Seg(x, j, j) BY <3>1
    <3> QED BY <2>2, <3>2, <3>3
  <2>3. CASE k > j
    <3>1. k \in j + 1 .. n /\ k - 1 \in 0 .. n /\ at(k) = k /\ at(k - 1) = k - 1 /\ k # 0
          /\ k - 1 \in Nat /\ j <= k - 1 /\ (k - 1) + 1 = k
      BY <2>3
    <3>2. x[k][1] \in kinds BY <3>1
    <3>3. g[k] = Seg(x, j, k) /\ g[k - 1] = Seg(x, j, k - 1) BY <3>1
    <3>4. Append(Seg(x, j, k - 1), x[k]) = Seg(x, j, k)
      <4> DEFINE b == k - 1
      <4>1. b \in Nat /\ j <= b /\ b + 1 = k BY <3>1
      <4> HIDE DEF b
      <4>2. Append(Seg(x, j, b), x[b + 1]) = Seg(x, j, b + 1) BY <4>1, SegAppend
      <4> QED BY <4>1, <4>2 DEF b
    <3> HIDE DEF g
    <3> QED BY <3>1, <3>2, <3>3, <3>4
  <2> QED BY <2>1, <2>2, <2>3
<1>2. \E h : h = [k \in 0 .. n |-> IF k = 0 THEN << >>
                                   ELSE IF x[k][1] \in kinds THEN Append(h[k - 1], x[k]) ELSE h[k - 1]]
  <2>1. g = [k \in 0 .. n |-> g[k]] OBVIOUS
  <2> HIDE DEF g
  <2>2. g = [k \in 0 .. n |-> IF k = 0 THEN << >>
                              ELSE IF x[k][1] \in kinds THEN Append(g[k - 1], x[k]) ELSE g[k - 1]]
    BY <1>1, <2>1
  <2> QED BY <2>2
<1>3. f = [k \in 0 .. n |-> IF k = 0 THEN << >>
                            ELSE IF x[k][1] \in kinds THEN Append(f[k - 1], x[k]) ELSE f[k - 1]]
  BY <1>2
<1>4. Kinds(x, kinds) = f[n] BY DEF Kinds
<1> HIDE DEF f
<1>5. ASSUME NEW k \in 0 .. n
      PROVE  f[k] = IF k = 0 THEN << >> ELSE IF x[k][1] \in kinds THEN Append(f[k - 1], x[k]) ELSE f[k - 1]
  BY <1>3
<1> DEFINE S == {k \in Nat : k <= n => f[k] = g[k]}
<1>6. 0 \in S
  <2> HIDE DEF g
  <2>1. 0 \in 0 .. n /\ 0 \in Nat OBVIOUS
  <2>2. f[0] = << >> /\ g[0] = << >> BY <1>1, <1>5, <2>1
  <2> QED BY <2>1, <2>2
<1>7. ASSUME NEW k \in Nat, k \in S PROVE k + 1 \in S
  <2> HIDE DEF g
  <2>1. CASE k + 1 <= n
    <3>1. k + 1 \in 0 .. n /\ k + 1 # 0 /\ (k + 1) - 1 = k /\ k <= n BY <2>1
    <3>2. f[k] = g[k] BY <1>7, <3>1
    <3> DEFINE l == k + 1
    <3>3. l \in 0 .. n /\ l # 0 /\ l - 1 = k BY <3>1
    <3> HIDE DEF l
    <3>4. f[l] = g[l] BY <1>1, <1>5, <3>2, <3>3
    <3> QED BY <3>4 DEF l
  <2> QED BY <2>1
<1> HIDE DEF S
<1>8. Nat \subseteq S BY <1>6, <1>7, Induction
<1>9. n \in S BY <1>8
<1>10. f[n] = g[n]
  <2> HIDE DEF g
  <2> QED BY <1>9 DEF S
<1>11. n \in 0 .. n /\ at(n) = n OBVIOUS
<1>12. g[n] = Seg(x, j, n) BY <1>11
<1> QED BY <1>4, <1>10, <1>12 DEF Kept

\* The same of a piece.
Keeps(l, a, m, b, kinds) == Kinds(Seg(l, a, b), kinds) = Seg(l, m, b)

LEMMA KindsSeg ==
  ASSUME NEW l, NEW kinds, NEW a, NEW m, NEW b, a \in Nat, m \in Nat, b \in Nat, a <= m, m <= b,
         \A i \in Nat : a < i /\ i <= m => l[i][1] \notin kinds,
         \A i \in Nat : m < i /\ i <= b => l[i][1] \in kinds
  PROVE  Keeps(l, a, m, b, kinds)
<1> DEFINE x == Seg(l, a, b)  n == b - a  j == m - a
<1>0. n \in Nat /\ j \in Nat /\ j <= n /\ a <= b OBVIOUS
<1>1. IsPiece(x, l, a, b) BY <1>0, SegType
<1> HIDE DEF x
<1>2. Len(x) = n /\ \A i \in 1 .. n : x[i] = l[a + i] BY <1>1 DEF IsPiece
<1>3. ASSUME NEW i \in 1 .. j PROVE x[i][1] \notin kinds
  <2>1. i \in 1 .. n /\ a + i \in Nat /\ a < a + i /\ a + i <= m BY <1>0
  <2>2. l[a + i][1] \notin kinds BY <2>1
  <2>3. x[i] = l[a + i] BY <1>2, <2>1
  <2> QED BY <2>2, <2>3
<1>4. ASSUME NEW i \in j + 1 .. n PROVE x[i][1] \in kinds
  <2>1. i \in 1 .. n /\ a + i \in Nat /\ m < a + i /\ a + i <= b BY <1>0
  <2>2. l[a + i][1] \in kinds BY <2>1
  <2>3. x[i] = l[a + i] BY <1>2, <2>1
  <2> QED BY <2>2, <2>3
<1>5. Seg(x, j, n) = Seg(l, m, b)
  <2>1. n - j = b - m BY <1>0
  <2>2. ASSUME NEW i \in 1 .. b - m PROVE x[j + i] = l[m + i]
    <3>1. j + i \in 1 .. n /\ a + (j + i) = m + i BY <1>0
    <3> QED BY <1>2, <3>1
  <2> HIDE DEF n, j
  <2> QED BY <2>1, <2>2 DEF Seg
<1> HIDE DEF n, j
<1>6. Kept(x, kinds, j, n) BY <1>0, <1>2, <1>3, <1>4, KindsAre
<1> QED BY <1>5, <1>6 DEF Keeps, Kept, x

\* All the payload of the application, and no other: behind the request that is
\* forwarded.
Skip == IF cfg.front = "plain" THEN 1 ELSE 0
Delivered(x) == Kinds(x, {"data"}) = Seg(Payload, Skip, All)

LEMMA PayloadTokens ==
  ASSUME app.sent \in Nat, ConfigOK
  PROVE  /\ Skip \in {0, 1} /\ Skip \in Nat /\ Base \in Nat /\ Skip <= Base /\ All \in Nat /\ Skip <= All
         /\ Base <= All /\ All = app.sent + Base
         /\ (cfg.front # "redir" => Base = Skip)
         /\ \A i \in Nat : i # 0 /\ i <= Skip => Payload[i] = <<"forward", cfg.dest, 0>>
         /\ \A i \in Nat : i > Skip => Payload[i] \in {<<"data", i - Base, 0>>, <<"data", i, 0>>}
<1>1. Skip \in {0, 1} /\ Base \in Nat /\ Skip <= Base /\ (cfg.front # "redir" => Base = Skip)
      /\ (cfg.front = "plain" => Base = 1 /\ Skip = 1) /\ (cfg.front # "plain" => Skip = 0)
  BY DEF Base, Skip, ConfigOK
<1> HIDE DEF Base, Skip
<1>2. All \in Nat /\ Base <= All /\ All = app.sent + Base BY <1>1 DEF All
<1>3. ASSUME NEW i \in Nat, i # 0 /\ i <= Skip PROVE Payload[i] = <<"forward", cfg.dest, 0>>
  BY <1>1, <1>3 DEF Payload
<1>4. ASSUME NEW i \in Nat, i > Skip PROVE Payload[i] \in {<<"data", i - Base, 0>>, <<"data", i, 0>>}
  BY <1>1, <1>4 DEF Payload
<1> HIDE DEF All, Payload
<1> QED BY <1>1, <1>2, <1>3, <1>4

\* Payload alone.
LEMMA DeliveredPiece ==
  ASSUME app.sent \in Nat, ConfigOK, NEW b, b \in Nat, b <= Skip
  PROVE  Delivered(Seg(Payload, b, All))
<1>1. /\ Skip \in Nat /\ All \in Nat /\ Skip <= All
      /\ \A i \in Nat : i # 0 /\ i <= Skip => Payload[i] = <<"forward", cfg.dest, 0>>
      /\ \A i \in Nat : i > Skip => Payload[i] \in {<<"data", i - Base, 0>>, <<"data", i, 0>>}
  BY PayloadTokens
<1> DEFINE e == Payload  m == Skip  a == All  ks == {"data"}  d == cfg.dest  g == Base
<1> HIDE DEF e, m, a, d, g
<1>3. ASSUME NEW i \in Nat, b < i /\ i <= m PROVE e[i][1] \notin ks
  <2>1. e[i] = <<"forward", d, 0>> BY <1>1, <1>3 DEF e, m, d
  <2> QED BY <2>1
<1>4. ASSUME NEW i \in Nat, m < i /\ i <= a PROVE e[i][1] \in ks
  <2>1. i > m BY <1>4, <1>1 DEF m
  <2>2. e[i] \in {<<"data", i - g, 0>>, <<"data", i, 0>>} BY <1>1, <2>1 DEF e, m, g
  <2> QED BY <2>2
<1>5. m \in Nat /\ a \in Nat /\ b <= m /\ m <= a BY <1>1 DEF m, a
<1> HIDE DEF ks
<1>6. Keeps(e, b, m, a, ks) BY <1>3, <1>4, <1>5, KindsSeg
<1> QED BY <1>6 DEF Keeps, Delivered, e, m, a, ks

\* A message in front of it, or the second half of one.
LEMMA DeliveredLed ==
  ASSUME app.sent \in Nat, ConfigOK, NEW b, b \in Nat, b <= Skip, NEW q, NEW w, q # "data", NEW o, o \in {0, 1}
  PROVE  Delivered(Seg(Led(q, w, Payload, b), o, 2 + (All - b)))
<1>1. /\ Skip \in Nat /\ All \in Nat /\ Skip <= All
      /\ \A i \in Nat : i # 0 /\ i <= Skip => Payload[i] = <<"forward", cfg.dest, 0>>
      /\ \A i \in Nat : i > Skip => Payload[i] \in {<<"data", i - Base, 0>>, <<"data", i, 0>>}
  BY PayloadTokens
<1> DEFINE e == Payload  l == Led(q, w, e, b)  m == 2 + (Skip - b)  a == 2 + (All - b)  ks == {"data"}  d == cfg.dest
           g == Skip  t == All  f == Base
<1> HIDE DEF e, d, g, t, f
<1>3. /\ g \in Nat /\ t \in Nat /\ g <= t /\ b <= g /\ m = 2 + (g - b) /\ a = 2 + (t - b)
      /\ \A i \in Nat : i # 0 /\ i <= g => e[i] = <<"forward", d, 0>>
      /\ \A i \in Nat : i > g => e[i] \in {<<"data", i - f, 0>>, <<"data", i, 0>>}
  BY <1>1 DEF e, d, g, t, f
<1>4. /\ \A i \in Nat : i = 1 => l[i] = <<q, w, 1>>
      /\ \A i \in Nat : i = 2 => l[i] = <<q, w, 2>>
      /\ \A i \in Nat : i > 2 => l[i] = e[b + (i - 2)]
  BY DEF Led
<1> HIDE DEF l, m, a
<1>5. ASSUME NEW i \in Nat, o < i /\ i <= m PROVE l[i][1] \notin ks
  <2>1. CASE i <= 2
    <3>1. i = 1 \/ i = 2 BY <1>5, <2>1
    <3>2. l[i] = <<q, w, 1>> \/ l[i] = <<q, w, 2>> BY <1>4, <3>1
    <3> QED BY <3>2
  <2>2. CASE i > 2
    <3>1. b + (i - 2) \in Nat /\ b + (i - 2) # 0 /\ b + (i - 2) <= g BY <1>3, <1>5, <2>2
    <3>2. l[i] = <<"forward", d, 0>> BY <1>3, <1>4, <2>2, <3>1
    <3> QED BY <3>2
  <2> QED BY <2>1, <2>2
<1>6. ASSUME NEW i \in Nat, m < i /\ i <= a PROVE l[i][1] \in ks
  <2> DEFINE j == b + (i - 2)
  <2>1. i > 2 /\ j \in Nat /\ j > g BY <1>3, <1>6
  <2>2. l[i] = e[j] BY <1>4, <2>1
  <2> HIDE DEF j
  <2>3. e[j] \in {<<"data", j - f, 0>>, <<"data", j, 0>>} BY <1>3, <2>1
  <2> QED BY <2>2, <2>3
<1>7. o \in Nat /\ m \in Nat /\ a \in Nat /\ o <= m /\ m <= a BY <1>3
<1> HIDE DEF ks
<1>8. Keeps(l, o, m, a, ks) BY <1>5, <1>6, <1>7, KindsSeg
<1>9. Seg(l, m, a) = Seg(e, g, t)
  <2>1. a - m = t - g BY <1>3
  <2>2. ASSUME NEW i \in 1 .. t - g PROVE l[m + i] = e[g + i]
    <3>1. m + i \in Nat /\ m + i > 2 /\ b + ((m + i) - 2) = g + i BY <1>3, <1>7
    <3> QED BY <1>4, <3>1
  <2> QED BY <2>1, <2>2 DEF Seg
<1>10. Kinds(Seg(l, o, a), ks) = Seg(e, g, t) BY <1>8, <1>9 DEF Keeps
<1> QED BY <1>10 DEF Delivered, l, a, ks, e, g, t

LEMMA DeliveredFront ==
  ASSUME app.sent \in Nat, ConfigOK, NEW b, b \in Nat, b <= Skip, NEW q, NEW w, q # "data"
  PROVE  Delivered(Front(q, w, Payload, b, All))
<1> DEFINE e == Payload  t == All
<1>1. t \in Nat /\ b <= t
  <2>1. Skip \in Nat /\ All \in Nat /\ Skip <= All BY PayloadTokens
  <2> HIDE DEF Skip, All
  <2> QED BY <2>1
<1>2. 0 \in {0, 1} OBVIOUS
<1>3. Delivered(Seg(Led(q, w, Payload, b), 0, 2 + (All - b))) BY <1>2, DeliveredLed
<1> HIDE DEF e, t
<1>4. Begins(q, w, e, b, t) BY <1>1, FrontIs
<1> QED BY <1>3, <1>4 DEF Begins, e, t

LEMMA DeliveredHalf ==
  ASSUME app.sent \in Nat, ConfigOK, NEW q, NEW w, q # "data"
  PROVE  Delivered(HalfFront(q, w, Payload, All))
<1> DEFINE e == Payload  t == All  b == 0
<1>1. t \in Nat /\ b \in Nat /\ b <= t /\ b <= Skip
  <2>1. Skip \in Nat /\ All \in Nat /\ Skip <= All BY PayloadTokens
  <2> HIDE DEF Skip, All
  <2> QED BY <2>1
<1>2. 1 \in {0, 1} OBVIOUS
<1> HIDE DEF b
<1>3. Delivered(Seg(Led(q, w, Payload, b), 1, 2 + (All - b))) BY <1>1, <1>2, DeliveredLed
<1> HIDE DEF e, t
<1>4. Begins(q, w, e, b, t) BY <1>1, FrontIs
<1>5. Seg(Led(q, w, e, b), 1, 2 + (t - b)) = HalfFront(q, w, e, t) BY <1>4 DEF Begins, HalfFront, b
<1> QED BY <1>3, <1>5 DEF e, t

\* What the application sent, behind what of it goes twice.
InOrder(x) ==
  Kinds(x, {"data"})
    = [i \in 1 .. Repeated + app.sent |-> <<"data", IF i <= Repeated THEN i ELSE i - Repeated, 0>>]

LEMMA DeliveredInOrder ==
  ASSUME app.sent \in Nat, ConfigOK, c.reads # "method" \/ cfg.front # "redir", NEW x, Delivered(x)
  PROVE  InOrder(x)
<1> DEFINE f == Repeated  b == Base  s0 == Skip  a == All  n == app.sent  e == Payload
<1>1. f \in Nat /\ b \in Nat /\ a = n + b /\ (cfg.front = "plain" => s0 = 1 /\ b = 1 /\ f = 0)
      /\ (cfg.front # "plain" => s0 = 0 /\ b = f)
  BY DEF Repeated, Base, Skip, All, ConfigOK
<1>2. /\ cfg.front = "plain" => \A i \in Nat : i > b => e[i] = <<"data", i - b, 0>>
      /\ cfg.front # "plain" => \A i \in Nat : e[i] = <<"data", IF i > b THEN i - b ELSE i, 0>>
  <2> HIDE DEF b
  <2> QED BY DEF e, Payload, b
<1>3. n \in Nat OBVIOUS
<1>4. Kinds(x, {"data"}) = Seg(e, s0, a) BY DEF Delivered
<1> HIDE DEF f, b, s0, a, n, e
<1>5. a - s0 = f + n BY <1>1, <1>3
<1>6. ASSUME NEW i \in 1 .. f + n PROVE e[s0 + i] = <<"data", IF i <= f THEN i ELSE i - f, 0>>
  <2>0. i \in Nat /\ i >= 1 BY <1>1, <1>3
  <2>1. CASE cfg.front = "plain"
    <3>1. s0 + i = 1 + i /\ 1 + i \in Nat /\ 1 + i > b /\ (1 + i) - b = i /\ ~(i <= f) /\ i - f = i
      BY <1>1, <2>0, <2>1
    <3>2. e[1 + i] = <<"data", i, 0>> BY <1>2, <2>1, <3>1
    <3> QED BY <3>1, <3>2
  <2>2. CASE cfg.front # "plain"
    <3>1. s0 + i = i /\ b = f /\ (i > b) = ~(i <= f) BY <1>1, <2>0, <2>2
    <3>2. e[i] = <<"data", IF i > b THEN i - b ELSE i, 0>> BY <1>2, <2>0, <2>2
    <3> QED BY <3>1, <3>2
  <2> QED BY <2>1, <2>2
<1>7. Seg(e, s0, a) = [i \in 1 .. f + n |-> <<"data", IF i <= f THEN i ELSE i - f, 0>>]
  BY <1>5, <1>6 DEF Seg
<1>8. Kinds(x, {"data"}) = [i \in 1 .. f + n |-> <<"data", IF i <= f THEN i ELSE i - f, 0>>] BY <1>4, <1>7
<1> QED BY <1>8 DEF InOrder, f, n

\* Nothing of a redirected connection has been read.
LEMMA UnreadInOrder ==
  ASSUME app.sent \in Nat, c.reads = "method"
  PROVE  InOrder(<< >> \o Seg(Data, 0, app.sent))
<1> DEFINE n == app.sent  ks == {"data"}  l == Data
<1>1. n \in Nat /\ 0 \in Nat /\ 0 <= 0 /\ 0 <= n /\ \A i \in Nat : ~(0 < i /\ i <= 0) OBVIOUS
<1>2. ASSUME NEW i \in Nat PROVE l[i] = <<"data", i, 0>> BY DEF Data
<1>3. ASSUME NEW i \in Nat PROVE l[i][1] \in ks BY <1>2
<1> HIDE DEF n, l
<1>4. Keeps(l, 0, 0, n, ks)
  <2> HIDE DEF ks
  <2> QED BY <1>1, <1>3, KindsSeg
<1>5. << >> \o Seg(l, 0, n) = Seg(l, 0, n)
  <2>1. IsPiece(Seg(l, 0, n), l, 0, n) BY <1>1, SegType
  <2> QED BY <2>1, ConcatEmptySeq DEF IsPiece
<1>6. Repeated = 0 BY DEF Repeated
<1>7. Seg(l, 0, n) = [i \in 1 .. n |-> <<"data", i, 0>>]
  <2>1. Seg(l, 0, n) = [i \in 1 .. n - 0 |-> l[0 + i]] BY DEF Seg
  <2>2. n - 0 = n BY <1>1
  <2>3. ASSUME NEW i \in 1 .. n PROVE l[0 + i] = <<"data", i, 0>>
    <3>1. 0 + i = i /\ i \in Nat BY <1>1
    <3> QED BY <1>2, <3>1
  <2> QED BY <2>1, <2>2, <2>3
<1>8. [i \in 1 .. 0 + n |-> <<"data", IF i <= 0 THEN i ELSE i - 0, 0>>] = [i \in 1 .. n |-> <<"data", i, 0>>]
  <2>1. 0 + n = n BY <1>1
  <2>2. ASSUME NEW i \in 1 .. n PROVE (IF i <= 0 THEN i ELSE i - 0) = i BY <1>1
  <2> QED BY <2>1, <2>2
<1> QED BY <1>4, <1>5, <1>6, <1>7, <1>8 DEF Keeps, InOrder, n, l

\* The shapes of what is under way: payload up to the n-th, perhaps behind a
\* message or the second half of one.
Form(x, n) ==
  \/ x = Seg(Payload, 0, n)
  \/ \E q, w : q # "data" /\ x = Front(q, w, Payload, 0, n)
  \/ \E q, w : q # "data" /\ x = HalfFront(q, w, Payload, n)

LEMMA FormDelivered ==
  ASSUME app.sent \in Nat, ConfigOK, NEW x, Form(x, All)
  PROVE  Delivered(x)
<1>0. 0 \in Nat /\ 0 <= Skip BY PayloadTokens
<1>1. CASE x = Seg(Payload, 0, All) BY <1>0, <1>1, DeliveredPiece
<1>2. ASSUME NEW q, NEW w, q # "data" /\ x = Front(q, w, Payload, 0, All) PROVE Delivered(x)
  BY <1>0, <1>2, DeliveredFront
<1>3. ASSUME NEW q, NEW w, q # "data" /\ x = HalfFront(q, w, Payload, All) PROVE Delivered(x)
  BY <1>3, DeliveredHalf
<1> QED BY <1>1, <1>2, <1>3 DEF Form

LEMMA FormGrows ==
  ASSUME NEW x, NEW a, NEW b, a \in Nat, b \in Nat, a <= b, Form(x, a)
  PROVE  Form(x \o Seg(Payload, a, b), b)
<1> DEFINE e == Payload
<1>0. 0 \in Nat /\ 0 <= a OBVIOUS
<1>1. CASE x = Seg(e, 0, a)
  <2> HIDE DEF e
  <2>1. Seg(e, 0, a) \o Seg(e, a, b) = Seg(e, 0, b) BY <1>0, SegCat
  <2> QED BY <1>1, <2>1 DEF Form, e
<1>2. ASSUME NEW q, NEW w, q # "data" /\ x = Front(q, w, e, 0, a) PROVE Form(x \o Seg(e, a, b), b)
  <2> HIDE DEF e
  <2>1. Grows(q, w, e, 0, a, b) BY <1>0, FrontGrows
  <2>2. x \o Seg(e, a, b) = Front(q, w, e, 0, b) BY <1>2, <2>1 DEF Grows
  <2> QED BY <1>2, <2>2 DEF Form, e
<1>3. ASSUME NEW q, NEW w, q # "data" /\ x = HalfFront(q, w, e, a) PROVE Form(x \o Seg(e, a, b), b)
  <2> HIDE DEF e
  <2>1. HalfFront(q, w, e, a) \o Seg(e, a, b) = HalfFront(q, w, e, b) BY HalfCat
  <2>2. x \o Seg(e, a, b) = HalfFront(q, w, e, b) BY <1>3, <2>1
  <2> QED BY <1>3, <2>2 DEF Form, e
<1> QED BY <1>1, <1>2, <1>3 DEF Form

\* Nothing more, and nothing before.
LEMMA FormKept ==
  ASSUME NEW x, NEW a, a \in Nat, Form(x, a)
  PROVE  Form(x \o << >>, a)
<1> DEFINE e == Payload
<1>0. a <= a OBVIOUS
<1>1. Form(x \o Seg(e, a, a), a) BY <1>0, FormGrows
<1>2. Seg(e, a, a) = << >>
  <2> HIDE DEF e
  <2> QED BY <1>0, SegEmpty
<1> QED BY <1>1, <1>2

LEMMA FormBegins ==
  ASSUME NEW x, NEW a, a \in Nat, Form(x, a)
  PROVE  Form(<< >> \o x, a)
<1> DEFINE e == Payload
<1>0. 0 \in Nat /\ 0 <= a OBVIOUS
<1>1. \E T : x \in Seq(T)
  <2>1. CASE x = Seg(e, 0, a)
    <3> HIDE DEF e
    <3>1. IsPiece(Seg(e, 0, a), e, 0, a) BY <1>0, SegType
    <3> QED BY <2>1, <3>1 DEF IsPiece
  <2>2. ASSUME NEW q, NEW w, x = Front(q, w, e, 0, a) \/ x = HalfFront(q, w, e, a) PROVE \E T : x \in Seq(T)
    <3> HIDE DEF e
    <3> DEFINE l == Led(q, w, e, 0)  n == 2 + (a - 0)
    <3>1. Begins(q, w, e, 0, a) BY <1>0, FrontIs
    <3>2. x = Seg(l, 0, n) \/ x = Seg(l, 1, n) BY <2>2, <3>1 DEF Begins, HalfFront
    <3>3. n \in Nat /\ 0 <= n /\ 1 <= n /\ 1 \in Nat OBVIOUS
    <3> HIDE DEF l, n
    <3>4. IsPiece(Seg(l, 0, n), l, 0, n) BY <1>0, <3>3, SegType
    <3>5. IsPiece(Seg(l, 1, n), l, 1, n) BY <3>3, SegType
    <3> QED BY <3>2, <3>4, <3>5 DEF IsPiece
  <2> QED BY <2>1, <2>2 DEF Form
<1>2. << >> \o x = x BY <1>1, ConcatEmptySeq
<1> QED BY <1>2

\* The last buffer of a queue.
LastOf(u) == IF u = << >> THEN << >> ELSE u[Len(u)]

LEMMA LastOne == ASSUME NEW a PROVE LastOf(<< a >>) = a /\ << a >> \o << >> = << a >>
BY DEF LastOf

LEMMA LastTwo == ASSUME NEW a, NEW b PROVE LastOf(<< a, b >>) = b
BY DEF LastOf

LEMMA LastThree == ASSUME NEW a, NEW b, NEW d PROVE LastOf(<< a, b, d >>) = d
BY DEF LastOf

LEMMA LastFour == ASSUME NEW a, NEW b, NEW d, NEW e PROVE LastOf(<< a, b, d, e >>) = e
BY DEF LastOf

\* What waits in the client's queue is payload, if its last message is out.
IsLast(q, k, place, k4, k5) ==
  \/ q = Seg(Payload, k4, k5)
  \/ place = "unsent" /\ k4 = k5 /\ q = Msg(k, Carried(k))

LEMMA Queued ==
  ASSUME NEW k, NEW place, NEW k4, NEW k5, k4 \in Nat, k5 \in Nat, k4 <= k5
  PROVE  IsLast(LastOf(Queue(k, place, Chunks(k4, k5))), k, place, k4, k5)
<1> DEFINE tail == Chunks(k4, k5)  h == << >>  m == Msg(k, Carried(k))  x == Seg(Payload, k4, k5)
           u == Queue(k, place, tail)  H == Holes(k, tail)
<1>1. H \in {tail, << h >> \o tail, << h >> \o (<< h >> \o tail)} BY DEF Holes
<1>2. u \in {tail, H, << m >> \o H} /\ (place # "unsent" => u \in {tail, H}) BY DEF Queue
<1>3. CASE k4 = k5
  <2>1. tail = << >> BY <1>3 DEF Chunks
  <2>2. x = << >>
    <3> DEFINE e == Payload
    <3> HIDE DEF e
    <3>1. Seg(e, k4, k5) = << >> BY <1>3, SegEmpty
    <3> QED BY <3>1 DEF e
  <2>3. LastOf(<< >>) = h BY DEF LastOf
  <2> HIDE DEF tail, H, u, m, x
  <2>4. H \in {<< >>, << h >>, << h, h >>}
    <3>1. << h >> \o << >> = << h >> /\ << h >> \o << h >> = << h, h >>
      <4> HIDE DEF h
      <4> QED BY LastOne, Tuples
    <3> QED BY <1>1, <2>1, <3>1
  <2>5. << m >> \o H \in {<< m >>, << m, h >>, << m, h, h >>}
    <3>1. << m >> \o << >> = << m >> /\ << m >> \o << h >> = << m, h >> /\ << m >> \o << h, h >> = << m, h, h >>
      <4> HIDE DEF h
      <4> QED BY LastOne, Tuples
    <3> QED BY <2>4, <3>1
  <2>6. LastOf(<< h >>) = h /\ LastOf(<< h, h >>) = h /\ LastOf(<< m >>) = m /\ LastOf(<< m, h >>) = h
        /\ LastOf(<< m, h, h >>) = h
    <3> HIDE DEF h
    <3> QED BY LastOne, LastTwo, LastThree
  <2>7. CASE u = tail BY <2>1, <2>2, <2>3, <2>7 DEF IsLast, x, u, tail
  <2>8. CASE u = H
    <3>1. LastOf(u) = h BY <2>3, <2>4, <2>6, <2>8
    <3> QED BY <2>2, <3>1 DEF IsLast, x, u, tail
  <2>9. CASE u = << m >> \o H /\ place = "unsent"
    <3>1. LastOf(u) \in {h, m} BY <2>5, <2>6, <2>9
    <3> QED BY <1>3, <2>2, <2>9, <3>1 DEF IsLast, x, u, tail, m
  <2> QED BY <1>2, <2>7, <2>8, <2>9
<1>4. CASE k4 # k5
  <2>1. tail = << x >> BY <1>4 DEF Chunks
  <2> HIDE DEF tail, H, u, m, x, h
  <2>2. H \in {<< x >>, << h, x >>, << h, h, x >>}
    <3>1. << h >> \o << x >> = << h, x >> /\ << h >> \o << h, x >> = << h, h, x >> BY Tuples
    <3> QED BY <1>1, <2>1, <3>1
  <2>3. << m >> \o H \in {<< m, x >>, << m, h, x >>, << m, h, h, x >>}
    <3>1. << m >> \o << x >> = << m, x >> /\ << m >> \o << h, x >> = << m, h, x >> BY Tuples
    <3>2. << m >> \o << h, h, x >> = << m, h, h, x >>
      <4>1. << m >> \o (<< h >> \o (<< h >> \o << x >>)) = << m, h, h, x >> BY Quadruples
      <4>2. << h >> \o << x >> = << h, x >> /\ << h >> \o << h, x >> = << h, h, x >> BY Tuples
      <4> QED BY <4>1, <4>2
    <3> QED BY <2>2, <3>1, <3>2
  <2>4. LastOf(<< x >>) = x /\ LastOf(<< h, x >>) = x /\ LastOf(<< h, h, x >>) = x
        /\ LastOf(<< m, x >>) = x /\ LastOf(<< m, h, x >>) = x /\ LastOf(<< m, h, h, x >>) = x
    BY LastOne, LastTwo, LastThree, LastFour
  <2>5. LastOf(u) = x BY <1>2, <2>1, <2>2, <2>3, <2>4
  <2> QED BY <2>5 DEF IsLast, x, u, tail
<1> QED BY <1>3, <1>4

\* The place in the queue of what the client itself put there last: ahead of
\* the buffer that is there a second time.
Own(u) == IF Len(u) <= Len(Leftover) THEN << >> ELSE u[Len(u) - Len(Leftover)]

LEMMA OwnLast ==
  ASSUME NEW S, NEW u \in Seq(S), << >> \in S
  PROVE  Own(u \o Leftover) = LastOf(u)
<1> DEFINE v == Leftover  w == u \o v
<1>1. v \in Seq(S) BY LeftoverType
<1> HIDE DEF v
<1>2. Len(u) \in Nat /\ Len(v) \in Nat /\ Len(w) = Len(u) + Len(v)
      /\ \A i \in 1 .. Len(u) : w[i] = u[i]
  BY <1>1, ConcatProperties, LenProperties
<1>3. (u = << >>) = (Len(u) = 0) BY EmptySeq
<1>4. Own(w) = IF Len(w) <= Len(v) THEN << >> ELSE w[Len(w) - Len(v)] BY DEF Own, v
<1> HIDE DEF w
<1>5. CASE Len(u) = 0 BY <1>2, <1>3, <1>4, <1>5 DEF LastOf, w, v
<1>6. CASE Len(u) # 0
  <2>1. ~(Len(w) <= Len(v)) /\ Len(w) - Len(v) = Len(u) /\ Len(u) \in 1 .. Len(u) BY <1>2, <1>6
  <2>2. Own(w) = u[Len(u)] BY <1>2, <1>4, <2>1
  <2> QED BY <1>3, <1>6, <2>2 DEF LastOf, w, v
<1> QED BY <1>5, <1>6

LEMMA QueueLeft ==
  ASSUME NEW k, NEW place, NEW k4, NEW k5
  PROVE  Own(Queue(k, place, PayloadTail(k4, k5))) = LastOf(Queue(k, place, Chunks(k4, k5)))
<1> DEFINE h == << >>  m == Msg(k, Carried(k))  x == Seg(Payload, k4, k5)  S == {h, m, x}
           a == Chunks(k4, k5)  v == Leftover  t == a \o v  f == << h >>  r == << m >>
<1>1. h \in S /\ v \in Seq(S) BY LeftoverType
<1>2. a \in Seq(S)
  <2> HIDE DEF h, m, x
  <2>1. << x >> \in Seq(S) /\ << >> \in Seq(S) BY EmptySeq
  <2>2. a = << >> \/ a = << x >> BY DEF Chunks, x
  <2> HIDE DEF a, S
  <2> QED BY <2>1, <2>2
<1>3. f \in Seq(S) /\ r \in Seq(S)
  <2> HIDE DEF h, m, x
  <2> QED OBVIOUS
<1> HIDE DEF h, m, x, S, v, f, r
<1>4. ASSUME NEW y \in Seq(S) PROVE /\ f \o (y \o v) = (f \o y) \o v /\ f \o y \in Seq(S)
                                    /\ r \o (y \o v) = (r \o y) \o v /\ r \o y \in Seq(S)
  <2>1. f \o y \in Seq(S) /\ r \o y \in Seq(S) BY <1>3, ConcatProperties
  <2>2. (f \o y) \o v = f \o (y \o v) BY <1>1, <1>3, ConcatAssociative
  <2>3. (r \o y) \o v = r \o (y \o v) BY <1>1, <1>3, ConcatAssociative
  <2> QED BY <2>1, <2>2, <2>3
<1> HIDE DEF a
<1>5. f \o t = (f \o a) \o v /\ f \o a \in Seq(S) BY <1>2, <1>4
<1>6. f \o (f \o t) = (f \o (f \o a)) \o v /\ f \o (f \o a) \in Seq(S) BY <1>4, <1>5
<1> HIDE DEF t
<1>7. Holes(k, t) = Holes(k, a) \o v /\ Holes(k, a) \in Seq(S)
  <2>1. \A y : Holes(k, y) = CASE k = "greet" -> (IF AuthRequired THEN f \o (f \o y) ELSE f \o y)
                               [] k = "auth" -> f \o y [] OTHER -> y
    BY DEF Holes, f, h
  <2>2. t = a \o v BY DEF t
  <2>3. CASE k = "greet" /\ AuthRequired BY <1>6, <2>1, <2>3
  <2>4. CASE k = "greet" /\ ~AuthRequired BY <1>5, <2>1, <2>4
  <2>5. CASE k = "auth" BY <1>5, <2>1, <2>5
  <2>6. CASE k # "greet" /\ k # "auth" BY <1>2, <2>1, <2>2, <2>6
  <2> QED BY <2>3, <2>4, <2>5, <2>6
<1>8. r \o Holes(k, t) = (r \o Holes(k, a)) \o v /\ r \o Holes(k, a) \in Seq(S) BY <1>4, <1>7
<1>9. Queue(k, place, t) = Queue(k, place, a) \o v /\ Queue(k, place, a) \in Seq(S)
  <2>1. \A y : Queue(k, place, y) = IF place = "unsent" THEN r \o Holes(k, y)
                                    ELSE IF place = "sent" THEN Holes(k, y) ELSE y
    BY DEF Queue, r, m
  <2>2. t = a \o v BY DEF t
  <2> QED BY <1>2, <1>7, <1>8, <2>1, <2>2
<1>10. Own(Queue(k, place, a) \o Leftover) = LastOf(Queue(k, place, a)) BY <1>1, <1>9, OwnLast DEF h
<1>11. PayloadTail(k4, k5) = t BY DEF PayloadTail, t, a, v
<1> QED BY <1>9, <1>10, <1>11 DEF v, a

LEMMA Nothings ==
  << >> \o << >> = << >> /\ << >> \o << >> \o << >> = << >> /\ << >> \o << >> \o << >> \o << >> \o << >> = << >>
OBVIOUS

LEMMA FormNothing == Form(<< >>, 0)
<1> DEFINE e == Payload
<1>1. Seg(e, 0, 0) = << >>
  <2> HIDE DEF e
  <2>1. 0 \in Nat /\ 0 <= 0 OBVIOUS
  <2> QED BY <2>1, SegEmpty
<1> QED BY <1>1 DEF Form

\* What has come to the server, and is still in its hands or before it.
Arrived == wire.s2r \o s.upstream_ \o s.handshake_pending_buf_ \o wire.c2s

LEMMA ArrivedIs ==
  ASSUME ConfigOK, ~s.closed, NEW k, NEW place, NEW at, NEW k1, NEW k3, NEW k4, NEW k5,
         ClientAt(k, place, k4, k5), ServerAt(k, place, at, k1, k3, k4), k4 \in Nat
  PROVE  Form(Arrived, k4) /\ (place = "unsent" => Arrived = << >>)
<1>1. k \in UsedKinds /\ (k \notin LastKinds => k4 = 0) /\ (place = "unsent" => k4 = 0) BY DEF ClientAt
<1>2. k # "data" BY <1>1, KindsUsed
<1>3. ASSUME Nothing, wire.c2s = << >>, k4 = 0 PROVE Form(Arrived, k4) /\ Arrived = << >>
  <2>1. Arrived = << >> BY <1>3, Nothings DEF Arrived, Nothing
  <2> QED BY <1>3, <2>1, FormNothing
<1>4. ASSUME Nothing, Form(wire.c2s, k4) PROVE Form(Arrived, k4)
  <2> DEFINE x == wire.c2s
  <2>1. Arrived = << >> \o x BY <1>4, Nothings DEF Arrived, Nothing
  <2> HIDE DEF x
  <2>2. Form(<< >> \o x, k4) BY <1>4, FormBegins DEF x
  <2> QED BY <2>1, <2>2
<1>5. CASE Idle(k, place, at, k4)
  <2>1. CASE place = "sent"
    <3>1. wire.c2s = Front(k, Carried(k), Payload, 0, k4) /\ Nothing BY <1>5, <2>1 DEF Idle
    <3>2. Form(wire.c2s, k4) BY <1>2, <3>1 DEF Form
    <3> QED BY <1>4, <2>1, <3>1, <3>2
  <2>2. CASE place # "sent"
    <3>1. wire.c2s = << >> /\ Nothing /\ place = "unsent" BY <1>5, <2>2 DEF Idle, ClientAt
    <3> QED BY <1>1, <1>3, <3>1
  <2> QED BY <2>1, <2>2
<1>6. CASE Half(k, place, at, k4)
  <2>1. wire.c2s = HalfFront("ss", c.request_, Payload, k4) /\ Nothing /\ place = "sent" BY <1>6 DEF Half, HalfFront
  <2>2. Form(wire.c2s, k4)
    <3>1. "ss" # "data" OBVIOUS
    <3> QED BY <2>1, <3>1 DEF Form
  <2> QED BY <1>4, <2>1, <2>2
<1>7. CASE Ahead(k, place, at)
  <2>1. wire.c2s = << >> /\ Nothing /\ k \in {"greet", "auth"} BY <1>7 DEF Ahead
  <2>2. k4 = 0 BY <1>1, <2>1 DEF LastKinds
  <2> QED BY <1>3, <2>1, <2>2
<1>8. ASSUME NEW a, NEW b, a \in Nat, b \in Nat, a <= b, b <= k4, wire.s2r = Seg(Payload, 0, a),
             wire.c2s = Seg(Payload, b, k4),
             \/ s.upstream_ = Seg(Payload, a, b) /\ s.handshake_pending_buf_ = << >>
             \/ s.handshake_pending_buf_ = Seg(Payload, a, b) /\ s.upstream_ = << >>
      PROVE  Form(Arrived, k4)
  <2> DEFINE x == wire.s2r  u == s.upstream_  h == s.handshake_pending_buf_  v == wire.c2s  y == x \o u  z == y \o h
  <2>1. Form(x, a) BY <1>8 DEF Form
  <2>2. Arrived = z \o v BY DEF Arrived
  <2>3. Form(z, b)
    <3>1. CASE u = Seg(Payload, a, b) /\ h = << >>
      <4> HIDE DEF x, u, h
      <4>1. Form(x \o Seg(Payload, a, b), b) BY <1>8, <2>1, FormGrows
      <4>2. Form(y, b) BY <3>1, <4>1
      <4> HIDE DEF y
      <4>3. Form(y \o << >>, b) BY <1>8, <4>2, FormKept
      <4> QED BY <3>1, <4>3
    <3>2. CASE h = Seg(Payload, a, b) /\ u = << >>
      <4> HIDE DEF x, u, h
      <4>1. Form(x \o << >>, a) BY <1>8, <2>1, FormKept
      <4>2. Form(y, a) BY <3>2, <4>1
      <4> HIDE DEF y
      <4>3. Form(y \o Seg(Payload, a, b), b) BY <1>8, <4>2, FormGrows
      <4> QED BY <3>2, <4>3
    <3> QED BY <1>8, <3>1, <3>2
  <2>4. v = Seg(Payload, b, k4) BY <1>8
  <2> HIDE DEF z, v
  <2>5. Form(z \o Seg(Payload, b, k4), k4) BY <1>8, <2>3, FormGrows
  <2> QED BY <2>2, <2>4, <2>5
<1>9. CASE Writes(k, place, at, k3, k4)
  <2>1. /\ wire.s2r = << >> /\ s.upstream_ = << >> /\ s.handshake_pending_buf_ = Seg(Payload, 0, k3)
        /\ wire.c2s = Seg(Payload, k3, k4) /\ k3 \in Nat /\ k3 <= k4 /\ place = "sent"
    BY <1>9 DEF Writes
  <2>2. Seg(Payload, 0, 0) = << >>
    <3> DEFINE e == Payload
    <3> HIDE DEF e
    <3>1. 0 \in Nat /\ 0 <= 0 OBVIOUS
    <3>2. Seg(e, 0, 0) = << >> BY <3>1, SegEmpty
    <3> QED BY <3>2 DEF e
  <2>3. 0 \in Nat /\ 0 <= k3 BY <2>1
  <2> QED BY <1>8, <2>1, <2>2, <2>3
<1>10. CASE Streams(k, place, at, k1, k3, k4)
  <2>1. /\ wire.s2r = Seg(Payload, 0, k1) /\ s.upstream_ = Seg(Payload, k1, k3) /\ s.handshake_pending_buf_ = << >>
        /\ wire.c2s = Seg(Payload, k3, k4) /\ k1 \in Nat /\ k3 \in Nat /\ k1 <= k3 /\ k3 <= k4 /\ place # "unsent"
    BY <1>10 DEF Streams
  <2> QED BY <1>8, <2>1
<1> QED BY <1>5, <1>6, <1>7, <1>9, <1>10 DEF ServerAt

LEMMA WholeLate ==
  ASSUME HandshakeInv, ~c.closed, ~s.closed, NEW y, Late(y)
  PROVE  InOrder(Arrived \o Own(c.upstream_) \o c.pending_data_ \o wire.a2c)
<1>0. ConfigOK /\ app.sent \in Nat BY DEF HandshakeInv
<1>1. PICK k, place, at, k1, k3, k4, k5, z : LateAt(k, place, at, k1, k3, k4, k5, y, z) BY DEF Late
<1>2. /\ ClientAt(k, place, k4, k5) /\ ServerAt(k, place, at, k1, k3, k4) /\ k4 \in Nat /\ k5 \in Nat
  BY <1>1 DEF LateAt
<1>3. /\ k \in UsedKinds /\ k4 <= k5 /\ c.upstream_ = Queue(k, place, PayloadTail(k4, k5)) /\ Reading6(k5, k5)
      /\ (place = "unsent" => k4 = 0)
  BY <1>2 DEF ClientAt
<1>4. /\ k5 <= All /\ c.pending_data_ = Seg(Payload, k5, k5) /\ wire.a2c = Seg(Payload, k5, All)
  BY <1>3 DEF Reading6
<1>5. Form(Arrived, k4) /\ (place = "unsent" => Arrived = << >>) BY <1>0, <1>2, ArrivedIs
<1>6. IsLast(Own(c.upstream_), k, place, k4, k5)
  <2>1. IsLast(LastOf(Queue(k, place, Chunks(k4, k5))), k, place, k4, k5) BY <1>2, <1>3, Queued
  <2>2. Own(Queue(k, place, PayloadTail(k4, k5))) = LastOf(Queue(k, place, Chunks(k4, k5))) BY QueueLeft
  <2> QED BY <1>3, <2>1, <2>2
<1> DEFINE A == Arrived  q == Own(c.upstream_)  B == A \o q  C == B \o c.pending_data_  D == C \o wire.a2c
<1>7. Form(B, k5)
  <2>1. CASE q = Seg(Payload, k4, k5)
    <3> HIDE DEF A, q
    <3>1. Form(A \o Seg(Payload, k4, k5), k5) BY <1>2, <1>3, <1>5, FormGrows DEF A
    <3> QED BY <2>1, <3>1
  <2>2. CASE place = "unsent" /\ k4 = k5 /\ q = Msg(k, Carried(k))
    <3>1. A = << >> /\ k5 = 0 BY <1>3, <1>5, <2>2
    <3> DEFINE e == Payload  w == Carried(k)
    <3>2. Front(k, w, e, 0, 0) = Msg(k, w) /\ << >> \o Msg(k, w) = Msg(k, w)
      <4> HIDE DEF w, e
      <4>1. 0 \in Nat OBVIOUS
      <4> QED BY <4>1, FrontAlone
    <3>3. B = Front(k, w, e, 0, k5)
      <4>1. B = A \o q /\ q = Msg(k, w) BY <2>2
      <4> HIDE DEF A, q, w, e, B
      <4> QED BY <3>1, <3>2, <4>1
    <3>4. k # "data" BY <1>3, KindsUsed
    <3> HIDE DEF B
    <3> QED BY <3>3, <3>4 DEF Form
  <2> HIDE DEF A, B
  <2> QED BY <1>6, <2>1, <2>2 DEF IsLast
<1>8. Form(C, k5)
  <2>0. k5 <= k5 BY <1>2
  <2> HIDE DEF B
  <2>1. Form(B \o Seg(Payload, k5, k5), k5) BY <1>2, <1>7, <2>0, FormGrows
  <2> QED BY <1>4, <2>1
<1>9. Form(D, All)
  <2>1. All \in Nat BY <1>0, PayloadTokens
  <2> DEFINE t == All
  <2> HIDE DEF C, t
  <2>2. Form(C \o Seg(Payload, k5, t), t) BY <1>2, <1>4, <1>8, <2>1, FormGrows DEF t
  <2> QED BY <1>4, <2>2 DEF t
<1>10. Delivered(D)
  <2> HIDE DEF D
  <2> QED BY <1>0, <1>9, FormDelivered
<1>11. c.reads # "method" BY <1>2 DEF ClientAt
<1>12. InOrder(D)
  <2> HIDE DEF D
  <2> QED BY <1>0, <1>10, <1>11, DeliveredInOrder
<1> QED BY <1>12

LEMMA WholeEarly ==
  ASSUME HandshakeInv, ~c.closed, ~s.closed, NEW y, Early(y)
  PROVE  InOrder(Arrived \o Own(c.upstream_) \o c.pending_data_ \o wire.a2c)
<1>0. ConfigOK /\ app.sent \in Nat BY DEF HandshakeInv
<1>1. Untouched BY DEF Early
<1>2. /\ s.upstream_ = << >> /\ s.handshake_pending_buf_ = << >> /\ c.upstream_ = << >>
      /\ wire.c2s = << >> /\ wire.s2r = << >>
  BY <1>1 DEF Untouched, InitialServer
<1>3. Arrived \o Own(c.upstream_) = << >>
  <2>1. Own(<< >>) = << >>
    <3>1. << >> \in {<< >>} OBVIOUS
    <3>2. Leftover \in Seq({<< >>}) BY <3>1, LeftoverType
    <3>3. Len(Leftover) \in Nat /\ Len(<< >>) = 0 BY <3>2, LenProperties
    <3> HIDE DEF Leftover
    <3> QED BY <3>3 DEF Own
  <2> QED BY <1>2, <2>1, Nothings DEF Arrived
<1>t. /\ Skip \in Nat /\ All \in Nat /\ Skip <= All /\ 0 <= Skip /\ Skip <= Skip /\ 0 \in Nat
      /\ (cfg.front # "redir" => Base = Skip) /\ (cfg.front # "redir" /\ app.sent = 0 => All = Skip)
  BY <1>0, PayloadTokens
<1>4. CASE Requesting /\ \E k6 \in Nat : Reading6(0, k6)
  <2>1. PICK k6 \in Nat : Reading6(0, k6) BY <1>4
  <2>2. k6 <= All /\ 0 <= k6 /\ c.pending_data_ = Seg(Payload, 0, k6) /\ wire.a2c = Seg(Payload, k6, All)
    BY <2>1 DEF Reading6
  <2>3. Form(<< >> \o Seg(Payload, 0, k6), k6) BY <1>t, <2>2, FormNothing, FormGrows
  <2> DEFINE x == << >> \o Seg(Payload, 0, k6)  t == All
  <2>4. Arrived \o Own(c.upstream_) \o c.pending_data_ \o wire.a2c = x \o Seg(Payload, k6, t) BY <1>3, <2>2
  <2> HIDE DEF x, t
  <2>5. Form(x \o Seg(Payload, k6, t), t) BY <1>t, <2>2, <2>3, FormGrows DEF x, t
  <2> DEFINE z == x \o Seg(Payload, k6, t)
  <2>6. Form(z, All) BY <2>5 DEF t
  <2> HIDE DEF z
  <2>7. Delivered(z) BY <1>0, <2>6, FormDelivered
  <2>8. c.reads # "method" BY <1>4 DEF Requesting
  <2>9. InOrder(z) BY <1>0, <2>7, <2>8, DeliveredInOrder
  <2> QED BY <2>4, <2>9 DEF z
<1>5. CASE Unread /\ cfg.front = "redir"
  <2>1. c.pending_data_ = << >> /\ c.reads = "method" /\ wire.a2c = Seg(Data, 0, app.sent)
    BY <1>5 DEF Unread, InitialClient
  <2>2. Arrived \o Own(c.upstream_) \o c.pending_data_ \o wire.a2c = << >> \o wire.a2c BY <1>3, <2>1, Nothings
  <2> QED BY <1>0, <2>1, <2>2, UnreadInOrder
<1>6. CASE (Unread \/ Greeted) /\ cfg.front # "redir"
  <2>1. c.pending_data_ = << >> BY <1>6 DEF Unread, Greeted, InitialClient
  <2>2. Arrived \o Own(c.upstream_) \o c.pending_data_ \o wire.a2c = << >> \o wire.a2c BY <1>3, <2>1, Nothings
  <2>3. ASSUME NEW b, b \in Nat, b <= Skip, wire.a2c = Seg(Payload, b, All) PROVE Delivered(<< >> \o wire.a2c)
    <3> DEFINE e == Payload  t == All
    <3>1. t \in Nat /\ b <= t
      <4> HIDE DEF Skip, All
      <4> QED BY <1>t, <2>3
    <3> HIDE DEF e, t
    <3>2. IsPiece(Seg(e, b, t), e, b, t) BY <2>3, <3>1, SegType
    <3>3. << >> \o Seg(e, b, t) = Seg(e, b, t) BY <3>2, ConcatEmptySeq DEF IsPiece
    <3>4. Delivered(Seg(Payload, b, All)) BY <1>0, <2>3, DeliveredPiece
    <3> QED BY <2>3, <3>3, <3>4 DEF e, t
  <2>4. ASSUME NEW q, NEW w, q # "data", wire.a2c = Front(q, w, Payload, Skip, All) PROVE Delivered(<< >> \o wire.a2c)
    <3> DEFINE e == Payload  t == All  b == Skip  l == Led(q, w, e, b)  n == 2 + (t - b)
    <3>1. t \in Nat /\ b \in Nat /\ b <= t /\ b <= Skip BY <1>t
    <3>2. n \in Nat /\ 0 <= n
      <4> HIDE DEF t, b
      <4> QED BY <3>1
    <3>3. Delivered(Front(q, w, Payload, b, All))
      <4> HIDE DEF b
      <4> QED BY <1>0, <2>4, <3>1, DeliveredFront
    <3>4. Front(q, w, e, b, t) = Seg(l, 0, n)
      <4> HIDE DEF e, t, b
      <4>1. Begins(q, w, e, b, t) BY <3>1, FrontIs
      <4> QED BY <4>1 DEF Begins
    <3>5. IsPiece(Seg(l, 0, n), l, 0, n)
      <4> HIDE DEF l, n
      <4> QED BY <1>t, <3>2, SegType
    <3>6. << >> \o Seg(l, 0, n) = Seg(l, 0, n)
      <4> HIDE DEF l, n
      <4> QED BY <3>5, ConcatEmptySeq DEF IsPiece
    <3>7. wire.a2c = Front(q, w, e, b, t) BY <2>4
    <3> HIDE DEF l, n
    <3> QED BY <3>3, <3>4, <3>6, <3>7
  <2>5. ASSUME wire.a2c = << >> /\ app.sent = 0
        PROVE  Delivered(Arrived \o Own(c.upstream_) \o c.pending_data_ \o wire.a2c)
    <3>1. wire.a2c = Seg(Payload, Skip, All)
      <4> DEFINE e == Payload  t == All  b == Skip
      <4>1. b \in Nat /\ b <= b /\ t = b BY <1>t, <1>6, <2>5
      <4> HIDE DEF e, t, b
      <4>2. Seg(e, b, b) = << >> BY <4>1, SegEmpty
      <4> QED BY <2>5, <4>1, <4>2 DEF e, t, b
    <3> QED BY <1>t, <2>2, <2>3, <3>1
  <2>6. ASSUME wire.a2c = Msg("greet", "noauth") /\ app.sent = 0
        PROVE  Delivered(Arrived \o Own(c.upstream_) \o c.pending_data_ \o wire.a2c)
    <3> DEFINE e == Payload  t == All  b == Skip  q == "greet"  w == "noauth"
    <3>1. b \in Nat /\ b <= b /\ t = b BY <1>t, <1>6, <2>6
    <3>2. Front(q, w, e, b, b) = Msg(q, w) /\ << >> \o Msg(q, w) = Msg(q, w)
      <4> HIDE DEF e, b, q, w
      <4> QED BY <3>1, FrontAlone
    <3>3. wire.a2c = Front(q, w, e, b, t)
      <4>1. wire.a2c = Msg(q, w) BY <2>6
      <4> HIDE DEF e, t, b, q, w
      <4> QED BY <3>1, <3>2, <4>1
    <3>4. q # "data" OBVIOUS
    <3> HIDE DEF q, w
    <3>5. wire.a2c = Front(q, w, Payload, Skip, All) BY <3>3
    <3>6. Delivered(<< >> \o wire.a2c) BY <2>4, <3>4, <3>5
    <3> QED BY <2>2, <3>6
  <2>7. ASSUME wire.a2c = Front(RequestKind, cfg.dest, Payload, Skip, All)
        PROVE  Delivered(Arrived \o Own(c.upstream_) \o c.pending_data_ \o wire.a2c)
    <3>1. RequestKind # "data" BY DEF RequestKind
    <3> QED BY <2>2, <2>4, <2>7, <3>1
  <2>8. ASSUME wire.a2c = Front("req5", cfg.dest, Payload, Skip, All)
        PROVE  Delivered(Arrived \o Own(c.upstream_) \o c.pending_data_ \o wire.a2c)
    <3>1. "req5" # "data" OBVIOUS
    <3> QED BY <2>2, <2>4, <2>8, <3>1
  <2>10. \/ wire.a2c = << >> /\ app.sent = 0
         \/ wire.a2c = Msg("greet", "noauth") /\ app.sent = 0
         \/ wire.a2c = Front(RequestKind, cfg.dest, Payload, Skip, All)
         \/ wire.a2c = Front("req5", cfg.dest, Payload, Skip, All)
    <3>1. Base = Skip BY <1>t, <1>6
    <3>2. \/ wire.a2c = << >> /\ app.sent = 0
          \/ wire.a2c = Msg("greet", "noauth") /\ app.sent = 0
          \/ wire.a2c = Front(RequestKind, cfg.dest, Payload, Base, All)
          \/ wire.a2c = Front("req5", cfg.dest, Payload, Base, All)
      BY <1>6 DEF Unread, Greeted
    <3> HIDE DEF Skip, All, Payload, Base
    <3> QED BY <3>1, <3>2
  <2> DEFINE z == Arrived \o Own(c.upstream_) \o c.pending_data_ \o wire.a2c
  <2>11. Delivered(z) BY <2>5, <2>6, <2>7, <2>8, <2>10
  <2> HIDE DEF z
  <2>12. InOrder(z) BY <1>0, <1>6, <2>11, DeliveredInOrder
  <2> QED BY <2>12 DEF z
<1> QED BY <1>4, <1>6, <1>5 DEF Early, Greeted

\* What the destination got.
LEMMA GotIs ==
  ASSUME HandshakeInv
  PROVE  \E k1 \in Nat : wire.s2r = Seg(Payload, 0, k1)
<1>1. PICK g, y \in Nat : Downwards(g, y) /\ (Early(y) \/ Late(y)) BY DEF HandshakeInv
<1>2. Seg(Payload, 0, 0) = << >> /\ 0 \in Nat
  <2> DEFINE e == Payload
  <2> HIDE DEF e
  <2>1. 0 \in Nat /\ 0 <= 0 OBVIOUS
  <2>2. Seg(e, 0, 0) = << >> BY <2>1, SegEmpty
  <2> QED BY <2>2 DEF e
<1>3. wire.s2r = << >> \/ \E k1 \in Nat : wire.s2r = Seg(Payload, 0, k1)
  <2>1. CASE Early(y) BY <2>1 DEF Early, Untouched
  <2>2. CASE Late(y)
    <3>1. PICK k, place, at, k1, k3, k4, k5, z : LateAt(k, place, at, k1, k3, k4, k5, y, z) BY <2>2 DEF Late
    <3>2. ServerAt(k, place, at, k1, k3, k4) BY <3>1 DEF LateAt
    <3>3. CASE Idle(k, place, at, k4) BY <3>3 DEF Idle, Nothing
    <3>4. CASE Half(k, place, at, k4) BY <3>4 DEF Half, Nothing
    <3>5. CASE Writes(k, place, at, k3, k4) BY <3>5 DEF Writes
    <3>6. CASE Ahead(k, place, at) BY <3>6 DEF Ahead, Nothing
    <3>7. CASE Streams(k, place, at, k1, k3, k4) BY <3>7 DEF Streams
    <3> QED BY <3>2, <3>3, <3>4, <3>5, <3>6, <3>7 DEF ServerAt
  <2> QED BY <1>1, <2>1, <2>2
<1> QED BY <1>2, <1>3

LEMMA InvPayload == HandshakeInv => PayloadIntact
<1> SUFFICES ASSUME HandshakeInv PROVE PayloadIntact OBVIOUS
<1>0. app.sent \in Nat /\ ConfigOK BY DEF HandshakeInv
<1>1. PICK k1 \in Nat : wire.s2r = Seg(Payload, 0, k1) BY GotIs
<1>2. /\ Skip \in {0, 1} /\ \A i \in Nat : i # 0 /\ i <= Skip => Payload[i] = <<"forward", cfg.dest, 0>>
      /\ \A i \in Nat : i > Skip => Payload[i] \in {<<"data", i - Base, 0>>, <<"data", i, 0>>}
  BY <1>0, PayloadTokens
<1> DEFINE e == Payload  b == Skip
<1>p. /\ IsPiece(wire.s2r, e, 0, k1) /\ DOMAIN wire.s2r = 1 .. k1
  <2> HIDE DEF e
  <2>0. 0 \in Nat /\ 0 <= k1 OBVIOUS
  <2>1. wire.s2r = Seg(e, 0, k1) BY <1>1 DEF e
  <2>2. IsPiece(Seg(e, 0, k1), e, 0, k1) BY <2>0, SegType
  <2>3. DOMAIN Seg(e, 0, k1) = 1 .. k1 BY DEF Seg
  <2> QED BY <2>1, <2>2, <2>3
<1>3. Kinds(wire.s2r, {"data", "forward"}) = wire.s2r
  <2> DEFINE ks == {"data", "forward"}
  <2>1. ASSUME NEW i \in Nat, i # 0 PROVE e[i][1] \in ks
    <3>1. i <= Skip \/ i > Skip BY <1>2
    <3>2. e[i] = <<"forward", cfg.dest, 0>> \/ e[i] \in {<<"data", i - Base, 0>>, <<"data", i, 0>>} BY <1>2, <2>1, <3>1
    <3> QED BY <3>2
  <2>2. wire.s2r = Seg(e, 0, k1) BY <1>1
  <2> HIDE DEF e, ks
  <2>3. 0 \in Nat /\ 0 <= 0 /\ 0 <= k1 /\ \A i \in Nat : ~(0 < i /\ i <= 0) OBVIOUS
  <2>4. Keeps(e, 0, 0, k1, ks) BY <2>1, <2>3, KindsSeg
  <2> QED BY <2>2, <2>4 DEF Keeps, ks
<1>4. ASSUME NEW i \in DOMAIN wire.s2r, wire.s2r[i][1] = "forward" PROVE i = 1
  <2>1. i \in 1 .. k1 BY <1>p
  <2>2. wire.s2r[i] = e[0 + i] /\ 0 + i = i
    <3> HIDE DEF e
    <3>1. i \in 1 .. k1 - 0 BY <2>1
    <3> QED BY <1>p, <2>1, <3>1 DEF IsPiece
  <2>3. i \in Nat BY <2>1
  <2>4. CASE i > b
    <3>1. e[i] \in {<<"data", i - Base, 0>>, <<"data", i, 0>>} BY <1>2, <2>3, <2>4
    <3>2. wire.s2r[i] \in {<<"data", i - Base, 0>>, <<"data", i, 0>>} BY <2>2, <3>1
    <3>3. wire.s2r[i][1] = "data" BY <3>2
    <3> QED BY <1>4, <3>3
  <2>5. CASE ~(i > b) BY <1>2, <2>1, <2>5
  <2> QED BY <2>4, <2>5
<1>5. \A i \in DOMAIN app.got : app.got[i] = <<"data", i, 0>>
  <2>1. PICK g, y \in Nat : Downwards(g, y) BY DEF HandshakeInv
  <2>2. app.got = Seg(Data, 0, g) BY <2>1 DEF Downwards
  <2>3. app.got = [i \in 1 .. g - 0 |-> Data[0 + i]] BY <2>2 DEF Seg
  <2>4. ASSUME NEW i \in 1 .. g - 0 PROVE Data[0 + i] = <<"data", i, 0>> BY DEF Data
  <2> QED BY <2>3, <2>4
<1>6. ASSUME ~c.closed, ~s.closed
      PROVE  InOrder(wire.s2r \o s.upstream_ \o s.handshake_pending_buf_ \o wire.c2s \o Own(c.upstream_)
                       \o c.pending_data_ \o wire.a2c)
  <2>1. PICK g, y \in Nat : Early(y) \/ Late(y) BY DEF HandshakeInv
  <2>2. InOrder(Arrived \o Own(c.upstream_) \o c.pending_data_ \o wire.a2c)
    BY <1>6, <2>1, WholeEarly, WholeLate
  <2> QED BY <2>2 DEF Arrived
<1> QED BY <1>3, <1>4, <1>5, <1>6 DEF PayloadIntact, Own, InOrder

\* The payload of the application is whole and in order, wherever reads end, and
\* no byte of a handshake gets into it; only what the first read of a redirected
\* connection returned goes twice, with ss, and with any other method is queued
\* once.  What the application got is a prefix of what its destination sent
\* (PayloadIntact), for every amount of payload.
THEOREM PayloadCorrect == Spec => []PayloadIntact
BY HandshakeInvariant, InvPayload, PTL

-----------------------------------------------------------------------------
(* The requests of a connection that is kept alive. *)

RequestToken == [place : Nat, request : Nat, host : Hosts, body : Nat, part : Nat]
Connection ==
  [sent : Seq(RequestToken), in : Seq(RequestToken), closed : BOOLEAN, reads : {"request", "no", "stream"},
   channel : {"none", "connecting", "connected"}, host : Hosts \union {"none"},
   http_is_keep_alive_ : BOOLEAN, http_keep_alive_remaining_bytes_ : Nat,
   http_keep_alive_pending_buf_ : Seq(RequestToken), http_keep_alive_previous_buf_ : Seq(RequestToken),
   pending_data_ : Seq(RequestToken), out : Seq([to : Hosts \union {"none"}, token : RequestToken])]

\* A request begins at place p of what was sent, or may begin there.
Boundary(sent, p) == p = Len(sent) + 1 \/ (p \in 1 .. Len(sent) /\ sent[p].part = Head1)

\* What was sent is one request after the other.
Whole(sent) ==
  /\ sent \in Seq(RequestToken) /\ Boundary(sent, 1)
  /\ \A p \in 1 .. Len(sent) :
       /\ sent[p].place = p /\ sent[p].part # Reforged
       /\ sent[p].part = Head1 =>
            /\ \A j \in 0 .. 1 + sent[p].body :
                 /\ p + j <= Len(sent) /\ sent[p + j].part = 1 + j
                 /\ sent[p + j].host = sent[p].host
            /\ Boundary(sent, p + 2 + sent[p].body)

\* buf is what was sent from place a on.
Raw(sent, buf, a) ==
  /\ buf \in Seq(RequestToken) /\ a \in Nat \ {0} /\ a + Len(buf) <= Len(sent) + 1
  /\ \A i \in 1 .. Len(buf) : buf[i] = sent[a + i - 1]

\* buf stands for what was sent from place a to before place b.
Stands(sent, buf, a, b) ==
  /\ buf \in Seq(RequestToken) /\ a \in Nat /\ b \in Nat
  /\ \A i \in 1 .. Len(buf) :
       /\ buf[i].place = IF i = 1 THEN a ELSE EndOf(buf[i - 1])
       /\ buf[i].place \in 1 .. Len(sent) /\ Original(buf[i]) = sent[buf[i].place]
  /\ b = IF Len(buf) = 0 THEN a ELSE EndOf(buf[Len(buf)])

\* From place g on there are m tokens of a body, for host; then a request may begin.
Owes(sent, g, m, host) ==
  /\ \A j \in 0 .. m - 1 : g + j <= Len(sent) /\ sent[g + j].part > Head2 /\ sent[g + j].host = host
  /\ Boundary(sent, g + m)

\* A buffer for host that may go out.
Fit(buf, host) == \A i \in 1 .. Len(buf) : buf[i].host = host /\ buf[i].part \notin {Head1, Head2}

\* A read does not end inside a head.
Even(buf) == buf = << >> \/ buf[Len(buf)].part # Head1

\* What went out went to its host, with its head rewritten.
OutRight(out) ==
  \A i \in 1 .. Len(out) : out[i].to = out[i].token.host /\ out[i].token.part \notin {Head1, Head2}

\* The tokens of what went out.
Tokens(out) == [i \in 1 .. Len(out) |-> out[i].token]

\* Where what is put aside begins.
At(sent, in, put) == Len(sent) + 1 - Len(in) - Len(put)

\* What is gone, what is put aside and what is unread join, and the count of the
\* body is right.
Joined(sent, in, put, gone, m, host) ==
  LET g == At(sent, in, put)
  IN /\ Whole(sent) /\ Stands(sent, gone, 1, g)
     /\ Raw(sent, put, g) /\ Raw(sent, in, g + Len(put))
     /\ Owes(sent, g, m, host) /\ Even(put) /\ (put # << >> => m = 0)

\* The stages of the connection.
Stage(k) ==
  \/ /\ k.reads = "request" /\ k.channel = "none" /\ k.host = "none" /\ k.out = << >> /\ k.pending_data_ = << >>
     /\ k.http_keep_alive_pending_buf_ = << >> /\ k.http_keep_alive_remaining_bytes_ = 0
  \/ k.reads \in {"no", "stream"} /\ k.channel = "connecting" /\ k.http_is_keep_alive_
  \/ k.reads = "stream" /\ k.channel = "connected" /\ k.http_is_keep_alive_ /\ k.pending_data_ = << >>

KaHolds(k) ==
  /\ k \in Connection /\ ~k.closed /\ k.http_keep_alive_previous_buf_ = << >> /\ Stage(k)
  /\ Joined(k.sent, k.in, k.http_keep_alive_pending_buf_, Tokens(k.out) \o k.pending_data_,
            k.http_keep_alive_remaining_bytes_, k.host)
  /\ OutRight(k.out) /\ Fit(k.pending_data_, k.host)

\* The inductive invariant.
KaInv == KaHolds(ka)

\* The first n of a sequence, and the rest.
LEMMA PrefixIs ==
  ASSUME NEW S, NEW seq \in Seq(S), NEW n \in 0 .. Len(seq)
  PROVE  /\ Prefix(seq, n) \in Seq(S) /\ Len(Prefix(seq, n)) = n
         /\ \A i \in 1 .. n : Prefix(seq, n)[i] = seq[i]
<1>1. Len(seq) \in Nat /\ \A i \in 1 .. Len(seq) : seq[i] \in S BY LenProperties
<1>2. n \in Int /\ 1 \in Int /\ \A i \in 1 .. n : seq[i] \in S BY <1>1
<1> DEFINE t == SubSeq(seq, 1, n)
<1>3. /\ t \in Seq(S) /\ Len(t) = IF 1 <= n THEN n - 1 + 1 ELSE 0
      /\ \A i \in 1 .. n - 1 + 1 : t[i] = seq[1 + i - 1]
  <2> HIDE DEF t
  <2> QED BY <1>2, SubSeqProperties DEF t
<1> HIDE DEF t
<1>4. Len(t) = n BY <1>1, <1>3
<1>5. ASSUME NEW i \in 1 .. n PROVE t[i] = seq[i]
  <2>1. i \in 1 .. n - 1 + 1 /\ 1 + i - 1 = i BY <1>1
  <2> QED BY <2>1, <1>3
<1> QED BY <1>3, <1>4, <1>5 DEF Prefix, t

LEMMA SuffixIs ==
  ASSUME NEW S, NEW seq \in Seq(S), NEW n \in 0 .. Len(seq)
  PROVE  /\ Suffix(seq, n) \in Seq(S) /\ Len(Suffix(seq, n)) = Len(seq) - n
         /\ \A i \in 1 .. Len(seq) - n : Suffix(seq, n)[i] = seq[n + i]
<1>1. Len(seq) \in Nat /\ \A i \in 1 .. Len(seq) : seq[i] \in S BY LenProperties
<1>2. n + 1 \in Int /\ Len(seq) \in Int /\ \A i \in n + 1 .. Len(seq) : seq[i] \in S BY <1>1
<1> DEFINE t == SubSeq(seq, n + 1, Len(seq))
<1>3. /\ t \in Seq(S) /\ Len(t) = IF n + 1 <= Len(seq) THEN Len(seq) - (n + 1) + 1 ELSE 0
      /\ \A i \in 1 .. Len(seq) - (n + 1) + 1 : t[i] = seq[n + 1 + i - 1]
  <2> HIDE DEF t
  <2> QED BY <1>2, SubSeqProperties DEF t
<1> HIDE DEF t
<1>4. Len(t) = Len(seq) - n BY <1>1, <1>3
<1>5. ASSUME NEW i \in 1 .. Len(seq) - n PROVE t[i] = seq[n + i]
  <2>1. i \in 1 .. Len(seq) - (n + 1) + 1 /\ n + 1 + i - 1 = n + i BY <1>1
  <2> QED BY <2>1, <1>3
<1> QED BY <1>3, <1>4, <1>5 DEF Suffix, t

\* Two sequences in a row.
LEMMA ConcatIs ==
  ASSUME NEW S, NEW seq \in Seq(S), NEW t \in Seq(S)
  PROVE  /\ seq \o t \in Seq(S) /\ Len(seq \o t) = Len(seq) + Len(t) /\ Len(seq) \in Nat /\ Len(t) \in Nat
         /\ \A i \in 1 .. Len(seq) : (seq \o t)[i] = seq[i]
         /\ \A i \in 1 .. Len(t) : (seq \o t)[Len(seq) + i] = t[i]
<1>1. /\ seq \o t \in Seq(S) /\ Len(seq \o t) = Len(seq) + Len(t) /\ Len(seq) \in Nat /\ Len(t) \in Nat
      /\ \A i \in 1 .. Len(seq) + Len(t) : (seq \o t)[i] = IF i <= Len(seq) THEN seq[i] ELSE t[i - Len(seq)]
  BY ConcatProperties, LenProperties
<1>2. ASSUME NEW i \in 1 .. Len(seq) PROVE (seq \o t)[i] = seq[i]
  <2>1. i \in 1 .. Len(seq) + Len(t) /\ i <= Len(seq) BY <1>1
  <2> QED BY <2>1, <1>1
<1>3. ASSUME NEW i \in 1 .. Len(t) PROVE (seq \o t)[Len(seq) + i] = t[i]
  <2>1. Len(seq) + i \in 1 .. Len(seq) + Len(t) /\ ~(Len(seq) + i <= Len(seq)) /\ Len(seq) + i - Len(seq) = i BY <1>1
  <2> QED BY <2>1, <1>1
<1> QED BY <1>1, <1>2, <1>3

\* A piece of what was sent, cut in two.
LEMMA RawSplit ==
  ASSUME NEW sent \in Seq(RequestToken), NEW seq, NEW a, Raw(sent, seq, a), NEW n \in 0 .. Len(seq)
  PROVE  Raw(sent, Prefix(seq, n), a) /\ Raw(sent, Suffix(seq, n), a + n)
<1> DEFINE p == Prefix(seq, n)  t == Suffix(seq, n)
<1>1. seq \in Seq(RequestToken) /\ a \in Nat \ {0} /\ Len(seq) \in Nat /\ n \in Nat /\ n <= Len(seq)
  BY LenProperties DEF Raw
<1>2. p \in Seq(RequestToken) /\ Len(p) = n /\ \A i \in 1 .. n : p[i] = seq[i] BY <1>1, PrefixIs
<1>3. t \in Seq(RequestToken) /\ Len(t) = Len(seq) - n /\ \A i \in 1 .. Len(seq) - n : t[i] = seq[n + i] BY <1>1, SuffixIs
<1> HIDE DEF p, t
<1>4. a + Len(seq) <= Len(sent) + 1 /\ \A i \in 1 .. Len(seq) : seq[i] = sent[a + i - 1] BY DEF Raw
<1>5. Len(sent) \in Nat BY LenProperties
<1>6. Raw(sent, p, a) BY <1>1, <1>2, <1>4, <1>5 DEF Raw
<1>7. ASSUME NEW i \in 1 .. Len(seq) - n PROVE t[i] = sent[(a + n) + i - 1]
  <2>1. n + i \in 1 .. Len(seq) /\ a + (n + i) - 1 = (a + n) + i - 1 BY <1>1
  <2> QED BY <2>1, <1>3, <1>4
<1>8. Raw(sent, t, a + n) BY <1>1, <1>3, <1>4, <1>5, <1>7 DEF Raw
<1> QED BY <1>6, <1>8 DEF p, t

\* A token that was not rewritten is the application's.
LEMMA OriginalIs ==
  ASSUME NEW t \in RequestToken
  PROVE  /\ t.part # Reforged => Original(t) = t /\ EndOf(t) = t.place + 1
         /\ t.part = Head1 =>
              LET r == [t EXCEPT !.part = Reforged]
              IN  /\ r \in RequestToken /\ Original(r) = t /\ EndOf(r) = t.place + 2
                  /\ r.place = t.place /\ r.host = t.host /\ r.part = Reforged /\ r.body = t.body
BY DEF RequestToken, Original, EndOf, Reforged, Head1

\* A piece of what was sent stands for itself.
LEMMA RawStands ==
  ASSUME NEW sent, Whole(sent), NEW seq, NEW a, Raw(sent, seq, a)
  PROVE  Stands(sent, seq, a, a + Len(seq))
<1>1. /\ seq \in Seq(RequestToken) /\ a \in Nat \ {0} /\ Len(seq) \in Nat /\ Len(sent) \in Nat
      /\ a + Len(seq) <= Len(sent) + 1
  BY LenProperties DEF Raw, Whole
<1>2. ASSUME NEW i \in 1 .. Len(seq)
      PROVE  /\ seq[i].place = a + i - 1 /\ seq[i].place \in 1 .. Len(sent) /\ seq[i] \in RequestToken
             /\ Original(seq[i]) = sent[seq[i].place] /\ EndOf(seq[i]) = a + i
  <2>1. a + i - 1 \in 1 .. Len(sent) /\ seq[i] = sent[a + i - 1] BY <1>1 DEF Raw
  <2>2. seq[i].place = a + i - 1 /\ seq[i].part # Reforged BY <2>1 DEF Whole
  <2>3. seq[i] \in RequestToken BY <1>1, LenProperties
  <2>4. Original(seq[i]) = seq[i] /\ EndOf(seq[i]) = seq[i].place + 1 BY <2>2, <2>3, OriginalIs
  <2>5. a + i - 1 + 1 = a + i BY <1>1
  <2> QED BY <2>1, <2>2, <2>3, <2>4, <2>5
<1>3. ASSUME NEW i \in 1 .. Len(seq) PROVE seq[i].place = IF i = 1 THEN a ELSE EndOf(seq[i - 1])
  <2>1. CASE i = 1 BY <2>1, <1>1, <1>2
  <2>2. CASE i # 1
    <3>1. i - 1 \in 1 .. Len(seq) BY <2>2, <1>1
    <3>2. EndOf(seq[i - 1]) = a + (i - 1) BY <3>1, <1>2
    <3>3. a + (i - 1) = a + i - 1 BY <1>1
    <3> QED BY <3>2, <3>3, <2>2, <1>2
  <2> QED BY <2>1, <2>2
<1>4. a + Len(seq) = IF Len(seq) = 0 THEN a ELSE EndOf(seq[Len(seq)])
  <2>1. CASE Len(seq) = 0 BY <2>1, <1>1
  <2>2. CASE Len(seq) # 0
    <3>1. Len(seq) \in 1 .. Len(seq) BY <2>2, <1>1
    <3> QED BY <3>1, <2>2, <1>2
  <2> QED BY <2>1, <2>2
<1>5. a \in Nat /\ a + Len(seq) \in Nat BY <1>1
<1> QED BY <1>1, <1>2, <1>3, <1>4, <1>5 DEF Stands

\* Two pieces that join.
LEMMA StandsJoin ==
  ASSUME NEW sent, NEW seq, NEW t, NEW a, NEW b, NEW e, Stands(sent, seq, a, b), Stands(sent, t, b, e)
  PROVE  Stands(sent, seq \o t, a, e)
<1> DEFINE r == seq \o t
<1>1. seq \in Seq(RequestToken) /\ t \in Seq(RequestToken) /\ a \in Nat /\ b \in Nat /\ e \in Nat BY DEF Stands
<1>2. /\ r \in Seq(RequestToken) /\ Len(r) = Len(seq) + Len(t) /\ Len(seq) \in Nat /\ Len(t) \in Nat
      /\ \A i \in 1 .. Len(seq) : r[i] = seq[i]
      /\ \A i \in 1 .. Len(t) : r[Len(seq) + i] = t[i]
  BY <1>1, ConcatIs
<1> HIDE DEF r
<1>3. ASSUME NEW i \in 1 .. Len(r)
      PROVE  /\ r[i].place = IF i = 1 THEN a ELSE EndOf(r[i - 1])
             /\ r[i].place \in 1 .. Len(sent) /\ Original(r[i]) = sent[r[i].place]
  <2>1. CASE i <= Len(seq)
    <3>1. i \in 1 .. Len(seq) /\ (i # 1 => i - 1 \in 1 .. Len(seq)) BY <2>1, <1>2
    <3>2. r[i] = seq[i] /\ (i # 1 => r[i - 1] = seq[i - 1]) BY <3>1, <1>2
    <3> QED BY <3>1, <3>2 DEF Stands
  <2>2. CASE ~(i <= Len(seq))
    <3> DEFINE j == i - Len(seq)
    <3>1. j \in 1 .. Len(t) /\ Len(seq) + j = i BY <2>2, <1>2
    <3>2. r[i] = t[j] BY <3>1, <1>2
    <3>3. t[j].place = (IF j = 1 THEN b ELSE EndOf(t[j - 1])) /\ t[j].place \in 1 .. Len(sent)
          /\ Original(t[j]) = sent[t[j].place]
      BY <3>1 DEF Stands
    <3>4. CASE j = 1
      <4>1. i - 1 = Len(seq) BY <3>1, <3>4, <1>2
      <4>2. CASE Len(seq) = 0
        <5>1. b = a /\ i = 1 BY <4>1, <4>2, <1>2 DEF Stands
        <5> QED BY <5>1, <3>2, <3>3, <3>4
      <4>3. CASE Len(seq) # 0
        <5>1. b = EndOf(seq[Len(seq)]) /\ i # 1 BY <4>1, <4>3, <1>2 DEF Stands
        <5>2. Len(seq) \in 1 .. Len(seq) BY <4>3, <1>2
        <5>3. r[i - 1] = seq[Len(seq)] BY <4>1, <5>2, <1>2
        <5> QED BY <5>1, <5>3, <3>2, <3>3, <3>4
      <4> QED BY <4>2, <4>3
    <3>5. CASE j # 1
      <4>1. j - 1 \in 1 .. Len(t) /\ Len(seq) + (j - 1) = i - 1 /\ i # 1 BY <3>1, <3>5, <1>2
      <4>2. r[i - 1] = t[j - 1] BY <4>1, <1>2
      <4> QED BY <4>1, <4>2, <3>2, <3>3, <3>5
    <3> QED BY <3>4, <3>5
  <2> QED BY <2>1, <2>2
<1>4. e = IF Len(r) = 0 THEN a ELSE EndOf(r[Len(r)])
  <2>1. CASE Len(t) = 0
    <3>1. e = b /\ Len(r) = Len(seq) BY <2>1, <1>2 DEF Stands
    <3>2. Len(seq) # 0 => r[Len(seq)] = seq[Len(seq)] BY <1>2
    <3>3. b = IF Len(seq) = 0 THEN a ELSE EndOf(seq[Len(seq)]) BY DEF Stands
    <3> QED BY <3>1, <3>2, <3>3
  <2>2. CASE Len(t) # 0
    <3>1. Len(t) \in 1 .. Len(t) /\ Len(r) # 0 BY <2>2, <1>2
    <3>2. r[Len(r)] = t[Len(t)] BY <3>1, <1>2
    <3>3. e = EndOf(t[Len(t)]) BY <2>2 DEF Stands
    <3> QED BY <3>1, <3>2, <3>3
  <2> QED BY <2>1, <2>2
<1>5. Stands(sent, r, a, e) BY <1>1, <1>2, <1>3, <1>4 DEF Stands
<1> QED BY <1>5 DEF r

\* Nothing stands for nothing.
LEMMA StandsEmpty == ASSUME NEW sent, NEW a \in Nat PROVE Stands(sent, << >>, a, a)
<1>1. << >> \in Seq(RequestToken) /\ Len(<< >>) = 0 OBVIOUS
<1> QED BY <1>1 DEF Stands

\* What was sent from the beginning of a request on.
LEMMA RequestAt ==
  ASSUME NEW sent, Whole(sent), NEW buf, NEW g, Raw(sent, buf, g), buf # << >>, Even(buf), Boundary(sent, g)
  PROVE  LET b == buf[1].body
         IN  /\ buf[1] \in RequestToken /\ b \in Nat /\ buf[1].part = Head1 /\ buf[1].place = g
             /\ Len(buf) \in Nat /\ Len(buf) >= 2 /\ buf[2].part = Head2
             /\ \A j \in 0 .. 1 + b : /\ g + j <= Len(sent) /\ sent[g + j].part = 1 + j
                                      /\ sent[g + j].host = buf[1].host
             /\ Boundary(sent, g + 2 + b)
<1> DEFINE t == buf[1]  b == buf[1].body
<1>1. /\ buf \in Seq(RequestToken) /\ g \in Nat \ {0} /\ Len(buf) \in Nat /\ Len(sent) \in Nat /\ Len(buf) >= 1
      /\ g + Len(buf) <= Len(sent) + 1 /\ \A i \in 1 .. Len(buf) : buf[i] = sent[g + i - 1]
  BY LenProperties, EmptySeq DEF Raw, Whole
<1>2. t \in RequestToken /\ t = sent[g] /\ g \in 1 .. Len(sent)
  <2>1. 1 \in 1 .. Len(buf) /\ g + 1 - 1 = g BY <1>1
  <2>2. t \in RequestToken BY <1>1, <2>1, LenProperties
  <2> QED BY <1>1, <2>1, <2>2
<1>3. t.part = Head1 /\ t.place = g /\ b \in Nat
  <2>1. g # Len(sent) + 1
    <3>1. g \in Nat /\ Len(sent) \in Nat /\ g <= Len(sent) BY <1>1, <1>2
    <3> QED BY <3>1
  <2>2. t.part = Head1 BY <1>2, <2>1 DEF Boundary
  <2>3. t.place = g BY <1>2 DEF Whole
  <2>4. b \in Nat BY <1>2 DEF RequestToken
  <2> QED BY <2>2, <2>3, <2>4
<1>4. /\ \A j \in 0 .. 1 + b : g + j <= Len(sent) /\ sent[g + j].part = 1 + j /\ sent[g + j].host = t.host
      /\ Boundary(sent, g + 2 + b)
  BY <1>2, <1>3 DEF Whole
<1>5. Len(buf) # 1 BY <1>1, <1>3 DEF Even
<1>6. Len(buf) >= 2
  <2> DEFINE n == Len(buf)
  <2>1. n \in Nat /\ n >= 1 /\ n # 1 BY <1>1, <1>5
  <2> HIDE DEF n
  <2>2. n >= 2 BY <2>1
  <2> QED BY <2>2 DEF n
<1>7. buf[2].part = Head2
  <2>1. 2 \in 1 .. Len(buf) /\ g + 2 - 1 = g + 1 /\ 1 \in 0 .. 1 + b BY <1>1, <1>3, <1>6
  <2>2. buf[2] = sent[g + 1] BY <1>1, <2>1
  <2>3. sent[g + 1].part = 1 + 1 BY <1>4, <2>1
  <2> QED BY <2>2, <2>3 DEF Head2
<1> QED BY <1>1, <1>2, <1>3, <1>4, <1>6, <1>7

\* A place of the body.
LEMMA PlaceIn ==
  ASSUME NEW n \in Nat, NEW l \in Nat, NEW b \in Nat, NEW z \in Nat, NEW g \in Nat \ {0}, NEW i \in 2 .. n,
         n + 1 <= l, n <= 1 + b, g + l <= z + 1
  PROVE  i + 1 \in 1 .. l /\ g + (i + 1) - 1 = g + i /\ i \in 0 .. 1 + b /\ g + i \in 1 .. z
OBVIOUS

\* A head rewritten, and n - 1 tokens of the body.
LEMMA ForgedStands ==
  ASSUME NEW sent, Whole(sent), NEW buf, NEW g, Raw(sent, buf, g), buf # << >>, Even(buf), Boundary(sent, g),
         NEW r \in Seq(RequestToken), Len(r) >= 1, Len(r) + 1 <= Len(buf), Len(r) <= 1 + buf[1].body,
         r[1] = [buf[1] EXCEPT !.part = Reforged], \A i \in 2 .. Len(r) : r[i] = buf[i + 1]
  PROVE  Stands(sent, r, g, g + 1 + Len(r)) /\ Fit(r, buf[1].host) /\ r[1].host = buf[1].host
<1> DEFINE b == buf[1].body
<1>1. /\ buf[1] \in RequestToken /\ b \in Nat /\ buf[1].part = Head1 /\ buf[1].place = g
      /\ Len(buf) \in Nat /\ Len(buf) >= 2
      /\ \A j \in 0 .. 1 + b : /\ g + j <= Len(sent) /\ sent[g + j].part = 1 + j
                               /\ sent[g + j].host = buf[1].host
  BY RequestAt
<1>2. /\ g \in Nat \ {0} /\ Len(sent) \in Nat /\ Len(r) \in Nat /\ g + Len(buf) <= Len(sent) + 1
      /\ \A i \in 1 .. Len(buf) : buf[i] = sent[g + i - 1]
  BY LenProperties DEF Raw, Whole
<1>3. /\ r[1] \in RequestToken /\ Original(r[1]) = buf[1] /\ EndOf(r[1]) = g + 2
      /\ r[1].place = g /\ r[1].host = buf[1].host /\ r[1].part = Reforged
  BY <1>1, OriginalIs
<1>10. /\ g \in Nat \ {0} /\ Len(sent) \in Nat /\ Len(r) \in Nat /\ g + Len(buf) <= Len(sent) + 1
       /\ b \in Nat /\ Len(buf) \in Nat /\ Len(buf) >= 2 /\ Len(r) >= 1 /\ Len(r) + 1 <= Len(buf) /\ Len(r) <= 1 + b
  BY <1>1, <1>2
<1>4. buf[1] = sent[g] /\ g \in 1 .. Len(sent)
  <2>1. 1 \in 1 .. Len(buf) /\ g + 1 - 1 = g /\ g \in 1 .. Len(sent) BY <1>10
  <2>2. buf[1] = sent[g + 1 - 1] BY <2>1, <1>2
  <2> QED BY <2>1, <2>2
<1>5. ASSUME NEW i \in 2 .. Len(r)
      PROVE  /\ r[i].place = g + i /\ r[i].place \in 1 .. Len(sent) /\ Original(r[i]) = sent[r[i].place]
             /\ EndOf(r[i]) = g + i + 1 /\ r[i].host = buf[1].host /\ r[i].part = 1 + i
  <2>1. i + 1 \in 1 .. Len(buf) /\ g + (i + 1) - 1 = g + i /\ i \in 0 .. 1 + b /\ g + i \in 1 .. Len(sent)
    BY <1>10, PlaceIn
  <2>2. r[i] = sent[g + i] BY <2>1, <1>2
  <2>3. r[i].place = g + i /\ r[i].part # Reforged BY <2>1, <2>2 DEF Whole
  <2>4. r[i] \in RequestToken BY <1>2, LenProperties
  <2>5. Original(r[i]) = r[i] /\ EndOf(r[i]) = g + i + 1 BY <2>3, <2>4, OriginalIs
  <2>6. r[i].host = buf[1].host /\ r[i].part = 1 + i BY <1>1, <2>1, <2>2
  <2> QED BY <2>1, <2>2, <2>3, <2>5, <2>6
<1>6. ASSUME NEW i \in 1 .. Len(r)
      PROVE  /\ r[i].place = IF i = 1 THEN g ELSE EndOf(r[i - 1])
             /\ r[i].place \in 1 .. Len(sent) /\ Original(r[i]) = sent[r[i].place]
             /\ EndOf(r[i]) = g + i + 1 /\ r[i].host = buf[1].host /\ r[i].part \notin {Head1, Head2}
  <2>1. CASE i = 1
    <3>1. g + 1 + 1 = g + 2 BY <1>10
    <3>2. r[1].part \notin {Head1, Head2} BY <1>3 DEF Reforged, Head1, Head2
    <3> QED BY <2>1, <3>1, <3>2, <1>3, <1>4
  <2>2. CASE i = 2
    <3>1. i \in 2 .. Len(r) /\ g + i = g + 2 /\ i - 1 = 1 /\ g + i + 1 = g + 1 + i BY <2>2, <1>10
    <3>2. 1 + i \notin {Head1, Head2} BY <2>2 DEF Head1, Head2
    <3> QED BY <2>2, <3>1, <3>2, <1>3, <1>5
  <2>3. CASE i > 2
    <3> DEFINE n == Len(r)
    <3>4. n \in Nat /\ g \in Nat /\ i \in 1 .. n BY <1>10
    <3> HIDE DEF n
    <3>5. i \in 2 .. n /\ i - 1 \in 2 .. n /\ g + (i - 1) + 1 = g + i BY <2>3, <3>4
    <3>1. i \in 2 .. Len(r) /\ i - 1 \in 2 .. Len(r) /\ g + (i - 1) + 1 = g + i BY <3>5 DEF n
    <3>2. EndOf(r[i - 1]) = g + i BY <3>1, <1>5
    <3>3. 1 + i \notin {Head1, Head2} BY <2>3 DEF Head1, Head2
    <3> QED BY <2>3, <3>1, <3>2, <3>3, <1>5
  <2> QED BY <2>1, <2>2, <2>3, <1>2
<1>7. /\ Len(r) \in 1 .. Len(r) /\ g \in Nat /\ g + 1 + Len(r) \in Nat /\ g + Len(r) + 1 = g + 1 + Len(r)
      /\ Len(r) # 0
  BY <1>10
<1>8. EndOf(r[Len(r)]) = g + 1 + Len(r) BY <1>6, <1>7
<1>9. Stands(sent, r, g, g + 1 + Len(r)) BY <1>6, <1>7, <1>8 DEF Stands
<1> QED BY <1>3, <1>6, <1>9 DEF Fit

\* What OnReadHttpRequest leaves of a connection.
ParsedAs(d, put, m) ==
  [d EXCEPT !.http_is_keep_alive_ = TRUE, !.http_keep_alive_remaining_bytes_ = m,
            !.http_keep_alive_pending_buf_ = put]

\* A head rewritten.
Rewritten(t) == [t EXCEPT !.part = Reforged]

\* A place of what follows the body.
LEMMA RestIn ==
  ASSUME NEW b \in Nat, NEW l \in Nat, NEW g \in Nat, 2 + b <= l, NEW i \in 1 .. (l - 1) - (1 + b)
  PROVE  /\ 1 + b + i \in 2 .. l - 1 /\ 1 + b + i + 1 \in 1 .. l
         /\ g + (1 + b + i + 1) - 1 = g + 2 + b + i - 1
OBVIOUS

\* A buffer that begins with a request is parsed: its head is rewritten, what
\* follows the body is put aside, and what is missing of the body is counted.
LEMMA ParsedIs ==
  ASSUME NEW sent, Whole(sent), NEW buf, NEW g, Raw(sent, buf, g), buf # << >>, Even(buf), Boundary(sent, g),
         NEW d \in Connection, d.http_keep_alive_pending_buf_ = << >>
  PROVE  LET r == ParseHttpRequest(d, buf)
         IN  /\ r.ok /\ Len(r.buf) >= 1 /\ r.buf[1].host \in Hosts /\ Fit(r.buf, r.buf[1].host)
             /\ \E put, m, e :
                  /\ r.conn = ParsedAs(d, put, m) /\ m \in Nat
                  /\ Stands(sent, r.buf, g, e) /\ Raw(sent, put, e) /\ e + Len(put) = g + Len(buf)
                  /\ Owes(sent, e, m, r.buf[1].host) /\ Even(put) /\ (put # << >> => m = 0)
<1> DEFINE r == ParseHttpRequest(d, buf)
           b == buf[1].body
           l == Len(buf)
           z == Len(sent)
           x == Rewritten(buf[1])
           forged == << x >> \o Suffix(buf, 2)
           size == 1 + b
<1>1. /\ buf[1] \in RequestToken /\ b \in Nat /\ buf[1].part = Head1 /\ l \in Nat /\ l >= 2 /\ buf[2].part = Head2
      /\ \A j \in 0 .. 1 + b : /\ g + j <= Len(sent) /\ sent[g + j].part = 1 + j
                               /\ sent[g + j].host = buf[1].host
      /\ Boundary(sent, g + 2 + b)
  BY RequestAt
<1>2. /\ buf \in Seq(RequestToken) /\ g \in Nat \ {0} /\ z \in Nat /\ g + l <= z + 1
      /\ \A i \in 1 .. l : buf[i] = sent[g + i - 1]
  BY LenProperties DEF Raw, Whole
<1>3. x \in RequestToken /\ x.host = buf[1].host /\ x.host \in Hosts
  <2>1. x \in RequestToken /\ x.host = buf[1].host BY <1>1, OriginalIs DEF Rewritten
  <2> QED BY <2>1 DEF RequestToken
<1>4. Parses(buf) BY <1>1 DEF Parses
<1>5. r = [ok |-> TRUE,
           buf |-> IF Len(forged) < size THEN forged ELSE Prefix(forged, size),
           conn |-> ParsedAs(d, IF Len(forged) < size THEN d.http_keep_alive_pending_buf_ ELSE Suffix(forged, size),
                              IF Len(forged) < size THEN size - Len(forged) ELSE 0)]
  BY <1>4 DEF ParseHttpRequest, ParsedAs, Rewritten
<1>6. /\ forged \in Seq(RequestToken) /\ Len(forged) = l - 1 /\ forged[1] = x
      /\ \A i \in 2 .. l - 1 : forged[i] = buf[i + 1]
  <2> DEFINE t == Suffix(buf, 2)  h == << x >>
  <2>1. 2 \in 0 .. Len(buf) BY <1>1
  <2>2. t \in Seq(RequestToken) /\ Len(t) = l - 2 /\ \A i \in 1 .. l - 2 : t[i] = buf[2 + i] BY <1>2, <2>1, SuffixIs
  <2>3. h \in Seq(RequestToken) /\ Len(h) = 1 /\ h[1] = x BY <1>3
  <2> HIDE DEF t, h
  <2>8. h \in Seq(RequestToken) /\ t \in Seq(RequestToken) BY <2>2, <2>3
  <2>4. /\ h \o t \in Seq(RequestToken) /\ Len(h \o t) = Len(h) + Len(t)
        /\ \A i \in 1 .. Len(h) : (h \o t)[i] = h[i]
        /\ \A i \in 1 .. Len(t) : (h \o t)[Len(h) + i] = t[i]
    BY ONLY <2>8, ConcatIs
  <2>5. Len(h \o t) = l - 1 BY <1>1, <2>2, <2>3, <2>4
  <2>6. (h \o t)[1] = x BY <2>3, <2>4
  <2>7. ASSUME NEW i \in 2 .. l - 1 PROVE (h \o t)[i] = buf[i + 1]
    <3>1. i - 1 \in 1 .. l - 2 /\ 1 + (i - 1) = i /\ 2 + (i - 1) = i + 1 BY <1>1
    <3>2. (h \o t)[1 + (i - 1)] = t[i - 1] BY <2>2, <2>3, <2>4, <3>1
    <3> QED BY <2>2, <3>1, <3>2
  <2> QED BY <2>4, <2>5, <2>6, <2>7 DEF h, t
<1> HIDE DEF forged, r, x, b, l, z
<1>7. CASE l - 1 < size
  <2> DEFINE m == size - (l - 1)
  <2>1. r.ok /\ r.buf = forged /\ r.conn = ParsedAs(d, << >>, m) BY <1>5, <1>6, <1>7
  <2>2. m \in Nat /\ l - 1 >= 1 /\ l - 1 <= 1 + b /\ (l - 1) + 1 = l /\ g + 1 + (l - 1) = g + l BY <1>1, <1>2, <1>7
  <2>3. Stands(sent, forged, g, g + l) /\ Fit(forged, buf[1].host) /\ forged[1].host = buf[1].host
    <3>1. Len(forged) >= 1 /\ Len(forged) + 1 <= Len(buf) /\ Len(forged) <= 1 + buf[1].body
      BY <1>1, <1>6, <2>2 DEF l, b
    <3>2. forged[1] = [buf[1] EXCEPT !.part = Reforged] BY <1>6 DEF x, Rewritten
    <3>3. \A i \in 2 .. Len(forged) : forged[i] = buf[i + 1] BY <1>6
    <3>4. Stands(sent, forged, g, g + 1 + Len(forged)) /\ Fit(forged, buf[1].host) /\ forged[1].host = buf[1].host
      BY <1>6, <3>1, <3>2, <3>3, ForgedStands
    <3> QED BY <3>4, <1>6, <2>2
  <2>4. Raw(sent, << >>, g + l)
    <3>1. g + l \in Nat \ {0} /\ g + l + 0 <= z + 1 BY <1>1, <1>2
    <3> QED BY <3>1 DEF Raw, z
  <2>5. Owes(sent, g + l, m, buf[1].host)
    <3>1. ASSUME NEW j \in 0 .. m - 1
          PROVE  /\ g + l + j <= Len(sent) /\ sent[g + l + j].part > Head2 /\ sent[g + l + j].host = buf[1].host
      <4>1. l + j \in 0 .. 1 + b /\ g + (l + j) = g + l + j /\ 1 + (l + j) > 2 BY <1>1, <1>2, <2>2
      <4> QED BY <4>1, <1>1 DEF Head2
    <3>2. g + l + m = g + 2 + b BY <1>1, <1>2
    <3> QED BY <3>1, <3>2, <1>1 DEF Owes
  <2>6. Len(<< >>) = 0 /\ g + l + 0 = g + l /\ Even(<< >>) BY <1>1, <1>2 DEF Even
  <2>7. Len(forged) >= 1 /\ forged[1].host \in Hosts BY <1>3, <1>6, <2>2, <2>3
  <2>8. /\ r.conn = ParsedAs(d, << >>, m) /\ m \in Nat
        /\ Stands(sent, r.buf, g, g + l) /\ Raw(sent, << >>, g + l) /\ (g + l) + Len(<< >>) = g + l
        /\ Owes(sent, g + l, m, r.buf[1].host) /\ Even(<< >>) /\ (<< >> # << >> => m = 0)
    <3> HIDE DEF m
    <3> QED BY <2>1, <2>2, <2>3, <2>4, <2>5, <2>6
  <2> HIDE DEF m
  <2>9. \E put, k, e :
          /\ r.conn = ParsedAs(d, put, k) /\ k \in Nat
          /\ Stands(sent, r.buf, g, e) /\ Raw(sent, put, e) /\ e + Len(put) = g + l
          /\ Owes(sent, e, k, r.buf[1].host) /\ Even(put) /\ (put # << >> => k = 0)
    BY ONLY <2>8, Zenon
  <2> QED BY <2>1, <2>3, <2>7, <2>9 DEF r, l
<1>8. CASE ~(l - 1 < size)
  <2> DEFINE t == Prefix(forged, size)  put == Suffix(forged, size)  e == g + 2 + b
  <2>1. r.ok /\ r.buf = t /\ r.conn = ParsedAs(d, put, 0) BY <1>5, <1>6, <1>8
  <2>2. size \in 0 .. Len(forged) /\ size \in Nat /\ size >= 1 /\ size + 1 <= l BY <1>1, <1>6, <1>8
  <2>3. t \in Seq(RequestToken) /\ Len(t) = size /\ \A i \in 1 .. size : t[i] = forged[i] BY <1>6, <2>2, PrefixIs
  <2>4. put \in Seq(RequestToken) /\ Len(put) = (l - 1) - size /\ \A i \in 1 .. (l - 1) - size : put[i] = forged[size + i]
    <3>1. /\ put \in Seq(RequestToken) /\ Len(put) = Len(forged) - size
          /\ \A i \in 1 .. Len(forged) - size : put[i] = forged[size + i]
      BY ONLY <1>6, <2>2, SuffixIs
    <3> QED BY <3>1, <1>6
  <2> HIDE DEF t, put
  <2>5. Stands(sent, t, g, e) /\ Fit(t, buf[1].host) /\ t[1].host = buf[1].host
    <3>1. Len(t) >= 1 /\ Len(t) + 1 <= Len(buf) /\ Len(t) <= 1 + buf[1].body BY <2>2, <2>3 DEF l, b
    <3>2. 1 \in 1 .. size BY <2>2
    <3>3. t[1] = [buf[1] EXCEPT !.part = Reforged] BY <1>6, <2>3, <3>2 DEF x, Rewritten
    <3>4. ASSUME NEW i \in 2 .. Len(t) PROVE t[i] = buf[i + 1]
      <4>1. i \in 1 .. size /\ i \in 2 .. l - 1 BY <1>1, <2>2, <2>3
      <4> QED BY <4>1, <1>6, <2>3
    <3>5. Stands(sent, t, g, g + 1 + Len(t)) /\ Fit(t, buf[1].host) /\ t[1].host = buf[1].host
      BY <2>3, <3>1, <3>3, <3>4, ForgedStands
    <3>6. g + 1 + size = e BY <1>1, <1>2
    <3> QED BY <3>5, <3>6, <2>3
  <2>12. b \in Nat /\ l \in Nat /\ g \in Nat /\ 2 + b <= l BY <1>1, <1>2, <2>2
  <2>6. ASSUME NEW i \in 1 .. Len(put) PROVE put[i] = sent[e + i - 1] /\ put[i] = buf[size + i + 1]
    <3>1. /\ i \in 1 .. (l - 1) - size /\ size + i \in 2 .. l - 1 /\ size + i + 1 \in 1 .. l
          /\ g + (size + i + 1) - 1 = e + i - 1
      BY <2>12, <2>4, RestIn
    <3> QED BY <3>1, <1>2, <1>6, <2>4
  <2>7. Raw(sent, put, e)
    <3>2. z \in Nat /\ g + l <= z + 1 /\ Len(put) = (l - 1) - (1 + b) BY <1>2, <2>4
    <3>1. e \in Nat \ {0} /\ e + Len(put) <= z + 1
      <4> HIDE DEF put
      <4> QED BY ONLY <2>12, <3>2
    <3> QED BY <3>1, <2>4, <2>6 DEF Raw, z
  <2>13. Len(put) = (l - 1) - (1 + b) BY <2>4
  <2>8. e + Len(put) = g + l BY ONLY <2>12, <2>13
  <2>9. Owes(sent, e, 0, buf[1].host)
    <3>1. 0 .. 0 - 1 = {} /\ e + 0 = e BY <1>1, <1>2
    <3> QED BY <3>1, <1>1 DEF Owes
  <2>10. Even(put)
    <3>1. CASE put = << >> BY <3>1 DEF Even
    <3>2. CASE put # << >>
      <4>1. Len(put) \in 1 .. Len(put) BY <2>4, <3>2, LenProperties, EmptySeq
      <4>2. size + Len(put) + 1 = l BY <1>1, <2>2, <2>4
      <4>3. put[Len(put)] = buf[l] BY <4>1, <4>2, <2>6
      <4> QED BY <4>3 DEF Even, l
    <3> QED BY <3>1, <3>2
  <2>11. Len(t) >= 1 /\ t[1].host \in Hosts BY <1>3, <2>2, <2>3, <2>5
  <2> HIDE DEF e
  <2> QED BY <2>1, <2>5, <2>7, <2>8, <2>9, <2>10, <2>11 DEF r, l
<1> QED BY <1>7, <1>8

\* What went out, and where it went.
Gone == [to : Hosts \union {"none"}, token : RequestToken]

\* The tokens of what went out.
LEMMA TokensIs ==
  ASSUME NEW out \in Seq(Gone)
  PROVE  /\ Tokens(out) \in Seq(RequestToken) /\ Len(Tokens(out)) = Len(out) /\ Len(out) \in Nat
         /\ \A i \in 1 .. Len(out) : Tokens(out)[i] = out[i].token
<1> DEFINE n == Len(out)  f == [i \in 1 .. n |-> out[i].token]
<1>1. n \in Nat /\ \A i \in 1 .. n : out[i] \in Gone BY LenProperties
<1>2. \A i \in 1 .. n : out[i].token \in RequestToken BY <1>1 DEF Gone
<1> HIDE DEF n
<1>3. f \in Seq(RequestToken) BY <1>1, <1>2, SeqDef
<1>4. DOMAIN f = 1 .. n OBVIOUS
<1>5. \A i \in 1 .. n : f[i] = out[i].token OBVIOUS
<1> HIDE DEF f
<1>6. Len(f) = n BY <1>1, <1>3, <1>4, LenProperties
<1> QED BY <1>1, <1>3, <1>5, <1>6 DEF f, n, Tokens

\* Two sequences that agree everywhere.
LEMMA SameSeq ==
  ASSUME NEW S, NEW seq \in Seq(S), NEW t \in Seq(S), Len(seq) = Len(t), \A i \in 1 .. Len(seq) : seq[i] = t[i]
  PROVE  seq = t
BY SeqEqual

\* What goes out joins what is gone.
LEMMA OutIs ==
  ASSUME NEW d \in Connection, NEW buf \in Seq(RequestToken), Fit(buf, d.host), OutRight(d.out)
  PROVE  \E out \in Seq(Gone) :
           Out(d, buf) = [d EXCEPT !.out = out] /\ Tokens(out) = Tokens(d.out) \o buf /\ OutRight(out)
<1> DEFINE n == Len(buf)  new == [i \in 1 .. n |-> [to |-> d.host, token |-> buf[i]]]  old == d.out  out == old \o new
<1>1. n \in Nat /\ (\A i \in 1 .. n : buf[i] \in RequestToken) /\ old \in Seq(Gone) /\ d.host \in Hosts \union {"none"}
  BY LenProperties DEF Connection, Gone
<1>2. \A i \in 1 .. n : [to |-> d.host, token |-> buf[i]] \in Gone BY <1>1 DEF Gone
<1>3. Out(d, buf) = [d EXCEPT !.out = out] BY DEF Out
<1> HIDE DEF n, old
<1>4. new \in Seq(Gone) BY <1>1, <1>2, SeqDef
<1>5. DOMAIN new = 1 .. n OBVIOUS
<1>6. \A i \in 1 .. n : new[i].to = d.host /\ new[i].token = buf[i] OBVIOUS
<1> HIDE DEF new
<1>7. Len(new) = n BY <1>1, <1>4, <1>5, LenProperties
<1>8. /\ out \in Seq(Gone) /\ Len(out) = Len(old) + n /\ Len(old) \in Nat
      /\ \A i \in 1 .. Len(old) : out[i] = old[i]
      /\ \A i \in 1 .. n : out[Len(old) + i] = new[i]
  <2>1. old \in Seq(Gone) /\ new \in Seq(Gone) BY <1>1, <1>4
  <2>2. /\ old \o new \in Seq(Gone) /\ Len(old \o new) = Len(old) + Len(new) /\ Len(old) \in Nat
        /\ \A i \in 1 .. Len(old) : (old \o new)[i] = old[i]
        /\ \A i \in 1 .. Len(new) : (old \o new)[Len(old) + i] = new[i]
    BY ONLY <2>1, ConcatIs
  <2> QED BY <2>2, <1>7
<1> HIDE DEF out
<1>9. /\ Tokens(old) \in Seq(RequestToken) /\ Len(Tokens(old)) = Len(old)
      /\ \A i \in 1 .. Len(old) : Tokens(old)[i] = old[i].token
  BY <1>1, TokensIs
<1>10. /\ Tokens(out) \in Seq(RequestToken) /\ Len(Tokens(out)) = Len(out)
       /\ \A i \in 1 .. Len(out) : Tokens(out)[i] = out[i].token
  BY <1>8, TokensIs
<1> DEFINE u == Tokens(old) \o buf
<1>11. /\ u \in Seq(RequestToken) /\ Len(u) = Len(old) + n
       /\ \A i \in 1 .. Len(old) : u[i] = Tokens(old)[i]
       /\ \A i \in 1 .. n : u[Len(old) + i] = buf[i]
  <2> DEFINE told == Tokens(old)
  <2>1. told \in Seq(RequestToken) /\ buf \in Seq(RequestToken) /\ Len(told) = Len(old) BY <1>9
  <2> HIDE DEF told
  <2>2. /\ told \o buf \in Seq(RequestToken) /\ Len(told \o buf) = Len(told) + Len(buf)
        /\ \A i \in 1 .. Len(told) : (told \o buf)[i] = told[i]
        /\ \A i \in 1 .. Len(buf) : (told \o buf)[Len(told) + i] = buf[i]
    BY ONLY <2>1, ConcatIs
  <2> QED BY <2>1, <2>2 DEF n, told
<1> HIDE DEF u
<1>12. ASSUME NEW i \in 1 .. Len(out)
       PROVE  /\ Tokens(out)[i] = u[i]
              /\ out[i].to = out[i].token.host /\ out[i].token.part \notin {Head1, Head2}
  <2>1. CASE i <= Len(old)
    <3>1. i \in 1 .. Len(old) BY <2>1, <1>8
    <3>2. out[i] = old[i] /\ Tokens(out)[i] = out[i].token /\ u[i] = old[i].token BY <3>1, <1>8, <1>9, <1>10, <1>11
    <3>3. old[i].to = old[i].token.host /\ old[i].token.part \notin {Head1, Head2} BY <3>1 DEF OutRight, old
    <3> QED BY <3>2, <3>3
  <2>2. CASE ~(i <= Len(old))
    <3> DEFINE j == i - Len(old)
    <3>1. j \in 1 .. n /\ Len(old) + j = i BY <2>2, <1>1, <1>8
    <3> HIDE DEF j
    <3>2. out[i] = new[j] /\ Tokens(out)[i] = out[i].token /\ u[i] = buf[j] BY <3>1, <1>8, <1>10, <1>11
    <3>3. new[j].to = d.host /\ new[j].token = buf[j] BY <3>1, <1>6
    <3>4. buf[j].host = d.host /\ buf[j].part \notin {Head1, Head2} BY <3>1 DEF Fit, n
    <3> QED BY <3>2, <3>3, <3>4
  <2> QED BY <2>1, <2>2
<1>13. Tokens(out) = u
  <2>1. Len(Tokens(out)) = Len(u) BY <1>8, <1>10, <1>11
  <2>2. \A i \in 1 .. Len(Tokens(out)) : Tokens(out)[i] = u[i] BY <1>10, <1>12
  <2> QED BY <2>1, <2>2, <1>10, <1>11, SameSeq
<1>14. OutRight(out) BY <1>12 DEF OutRight
<1> QED BY <1>3, <1>8, <1>13, <1>14 DEF u, old

\* What the parts of the invariant are made of.
LEMMA KeptParts ==
  ASSUME NEW k \in Connection, ~k.closed, k.http_keep_alive_previous_buf_ = << >>, Stage(k), Whole(k.sent),
         NEW e \in Nat, Stands(k.sent, Tokens(k.out) \o k.pending_data_, 1, e),
         Raw(k.sent, k.http_keep_alive_pending_buf_, e),
         Raw(k.sent, k.in, e + Len(k.http_keep_alive_pending_buf_)),
         e + Len(k.http_keep_alive_pending_buf_) + Len(k.in) = Len(k.sent) + 1,
         Owes(k.sent, e, k.http_keep_alive_remaining_bytes_, k.host), Even(k.http_keep_alive_pending_buf_),
         k.http_keep_alive_pending_buf_ # << >> => k.http_keep_alive_remaining_bytes_ = 0,
         OutRight(k.out), Fit(k.pending_data_, k.host)
  PROVE  KaHolds(k)
<1> DEFINE i == Len(k.in)  p == Len(k.http_keep_alive_pending_buf_)  z == Len(k.sent)
<1>1. i \in Nat /\ p \in Nat /\ z \in Nat /\ e + p + i = z + 1 BY LenProperties DEF Connection
<1> HIDE DEF i, p, z
<1>2. z + 1 - i - p = e BY <1>1
<1>3. At(k.sent, k.in, k.http_keep_alive_pending_buf_) = e BY <1>2 DEF At, i, p, z
<1> QED BY <1>3 DEF KaHolds, Joined

\* A connection with a channel whose buffer buf was read, before it is sent on:
\* what is gone ends at place g, and buf begins there.
HasRead(d, buf, g) ==
  /\ d \in Connection /\ ~d.closed /\ d.http_keep_alive_previous_buf_ = << >>
  /\ d.reads = "stream" /\ d.channel = "connected" /\ d.http_is_keep_alive_ /\ d.pending_data_ = << >>
  /\ d.http_keep_alive_pending_buf_ = << >>
  /\ Whole(d.sent) /\ g \in Nat /\ Stands(d.sent, Tokens(d.out), 1, g)
  /\ Raw(d.sent, buf, g) /\ buf # << >> /\ Even(buf)
  /\ Raw(d.sent, d.in, g + Len(buf)) /\ g + Len(buf) + Len(d.in) = Len(d.sent) + 1
  /\ Owes(d.sent, g, d.http_keep_alive_remaining_bytes_, d.host) /\ OutRight(d.out)

\* Where nothing is owed a request may begin.
LEMMA OwesNone ==
  ASSUME NEW sent, NEW g \in Nat, NEW host
  PROVE  Owes(sent, g, 0, host) <=> Boundary(sent, g)
<1>1. 0 .. 0 - 1 = {} /\ g + 0 = g OBVIOUS
<1> QED BY <1>1 DEF Owes

\* Nothing behind what is gone.
LEMMA StandsNone ==
  ASSUME NEW sent, NEW seq, NEW a, NEW b, Stands(sent, seq, a, b)
  PROVE  Stands(sent, seq \o << >>, a, b)
<1>1. b \in Nat BY DEF Stands
<1>2. Stands(sent, << >>, b, b) BY <1>1, StandsEmpty
<1> QED BY <1>2, StandsJoin

\* Tokens of the body may go out.
LEMMA OwedFit ==
  ASSUME NEW sent, NEW buf, NEW g, NEW m \in Nat, NEW host, Raw(sent, buf, g), Owes(sent, g, m, host), Len(buf) <= m
  PROVE  Fit(buf, host) /\ Owes(sent, g + Len(buf), m - Len(buf), host)
<1> DEFINE n == Len(buf)
<1>1. n \in Nat /\ n <= m /\ g \in Nat /\ \A i \in 1 .. n : buf[i] = sent[g + i - 1] BY LenProperties DEF Raw
<1>2. \A j \in 0 .. m - 1 : g + j <= Len(sent) /\ sent[g + j].part > Head2 /\ sent[g + j].host = host BY DEF Owes
<1>3. Boundary(sent, g + m) BY DEF Owes
<1> HIDE DEF n
<1>4. ASSUME NEW i \in 1 .. n PROVE buf[i].host = host /\ buf[i].part \notin {Head1, Head2}
  <2>1. i - 1 \in 0 .. m - 1 /\ g + (i - 1) = g + i - 1 BY <1>1
  <2>2. sent[g + (i - 1)].part > Head2 /\ sent[g + (i - 1)].host = host BY <2>1, <1>2
  <2>3. buf[i] = sent[g + (i - 1)] BY <2>1, <1>1
  <2>4. ~(Head1 > Head2) /\ ~(Head2 > Head2) BY DEF Head1, Head2
  <2> QED BY <2>2, <2>3, <2>4
<1>5. ASSUME NEW j \in 0 .. (m - n) - 1
      PROVE  (g + n) + j <= Len(sent) /\ sent[(g + n) + j].part > Head2 /\ sent[(g + n) + j].host = host
  <2>1. n + j \in 0 .. m - 1 /\ g + (n + j) = (g + n) + j BY <1>1
  <2>2. g + (n + j) <= Len(sent) /\ sent[g + (n + j)].part > Head2 /\ sent[g + (n + j)].host = host BY <2>1, <1>2
  <2> QED BY <2>1, <2>2
<1>6. (g + n) + (m - n) = g + m BY <1>1
<1>7. Fit(buf, host) BY <1>4 DEF Fit, n
<1>8. Owes(sent, g + n, m - n, host) BY <1>3, <1>5, <1>6 DEF Owes
<1> QED BY <1>7, <1>8 DEF n

\* All that was read is of the body.
LEMMA BodyKept ==
  ASSUME NEW d, NEW buf, NEW g, HasRead(d, buf, g), ~(d.http_keep_alive_remaining_bytes_ < Len(buf))
  PROVE  KaHolds([Out(d, buf) EXCEPT !.http_keep_alive_remaining_bytes_ = d.http_keep_alive_remaining_bytes_ - Len(buf)])
<1> DEFINE n == Len(buf)  m == d.http_keep_alive_remaining_bytes_  e == g + n
           k == [Out(d, buf) EXCEPT !.http_keep_alive_remaining_bytes_ = m - n]
<1>1. d \in Connection /\ g \in Nat /\ buf \in Seq(RequestToken) /\ Raw(d.sent, buf, g) BY DEF HasRead, Raw
<1>2. n \in Nat /\ m \in Nat /\ n <= m /\ m - n \in Nat /\ e \in Nat
  <2>1. n \in Nat /\ m \in Nat /\ ~(m < n) BY <1>1, LenProperties DEF Connection
  <2> HIDE DEF n, m
  <2> QED BY <1>1, <2>1
<1>3. Fit(buf, d.host) /\ Owes(d.sent, e, m - n, d.host)
  <2>1. Owes(d.sent, g, m, d.host) BY DEF HasRead
  <2> HIDE DEF m
  <2> QED BY <1>1, <1>2, <2>1, OwedFit
<1>4. PICK out \in Seq(Gone) :
        Out(d, buf) = [d EXCEPT !.out = out] /\ Tokens(out) = Tokens(d.out) \o buf /\ OutRight(out)
  BY <1>1, <1>3, OutIs DEF HasRead
<1>5. Stands(d.sent, Tokens(out), 1, e)
  <2>1. Stands(d.sent, buf, g, e) BY <1>1, RawStands DEF HasRead
  <2>2. Stands(d.sent, Tokens(d.out), 1, g) BY DEF HasRead
  <2> HIDE DEF e
  <2> QED BY <1>4, <2>1, <2>2, StandsJoin
<1>6. Stands(d.sent, Tokens(out) \o << >>, 1, e) BY <1>5, StandsNone
<1>7. k = [d EXCEPT !.out = out, !.http_keep_alive_remaining_bytes_ = m - n] BY <1>4
<1> HIDE DEF n, m, e, k
<1>8. k \in Connection BY <1>1, <1>2, <1>4, <1>7 DEF Connection, Gone
<1>9. /\ k.closed = d.closed /\ k.http_keep_alive_previous_buf_ = d.http_keep_alive_previous_buf_
      /\ k.sent = d.sent /\ k.in = d.in /\ k.reads = d.reads /\ k.channel = d.channel /\ k.host = d.host
      /\ k.http_is_keep_alive_ = d.http_is_keep_alive_ /\ k.pending_data_ = d.pending_data_
      /\ k.http_keep_alive_pending_buf_ = d.http_keep_alive_pending_buf_
      /\ k.out = out /\ k.http_keep_alive_remaining_bytes_ = m - n
  BY <1>1, <1>7 DEF Connection
<1>10. Stage(k) BY <1>9 DEF Stage, HasRead
<1>11. /\ Raw(d.sent, << >>, e) /\ Raw(d.sent, d.in, e + Len(<< >>)) /\ e + Len(<< >>) + Len(d.in) = Len(d.sent) + 1
  <2>1. Raw(d.sent, d.in, e) /\ e + Len(d.in) = Len(d.sent) + 1 BY DEF HasRead, e, n
  <2>2. Len(<< >>) = 0 /\ e + 0 = e BY <1>2
  <2>3. e \in Nat \ {0} /\ e + 0 <= Len(d.sent) + 1 BY <2>1, <2>2, <1>2, LenProperties DEF Raw
  <2>4. Raw(d.sent, << >>, e) BY <2>3 DEF Raw
  <2> QED BY <2>1, <2>2, <2>4
<1>12. Even(<< >>) /\ Fit(<< >>, d.host) BY DEF Even, Fit
<1>13. KaHolds(k) BY <1>2, <1>3, <1>4, <1>6, <1>8, <1>9, <1>10, <1>11, <1>12, KeptParts DEF HasRead
<1> QED BY <1>13 DEF k, m, n

\* What was read goes on behind the body.
LEMMA RestKept ==
  ASSUME NEW d, NEW buf, NEW g, HasRead(d, buf, g), d.http_keep_alive_remaining_bytes_ < Len(buf)
  PROVE  LET m == d.http_keep_alive_remaining_bytes_
         IN  KaHolds([Out(d, Prefix(buf, m)) EXCEPT !.http_keep_alive_pending_buf_ = Suffix(buf, m),
                                                    !.http_keep_alive_remaining_bytes_ = 0])
<1> DEFINE n == Len(buf)  m == d.http_keep_alive_remaining_bytes_  e == g + m
           p == Prefix(buf, m)  t == Suffix(buf, m)
           k == [Out(d, p) EXCEPT !.http_keep_alive_pending_buf_ = t, !.http_keep_alive_remaining_bytes_ = 0]
<1>1. /\ d \in Connection /\ g \in Nat /\ buf \in Seq(RequestToken) /\ Raw(d.sent, buf, g)
      /\ d.sent \in Seq(RequestToken) /\ Whole(d.sent)
  BY DEF HasRead, Raw, Whole
<1>2. n \in Nat /\ m \in Nat /\ m < n BY <1>1, LenProperties DEF Connection
<1>14. Owes(d.sent, g, m, d.host) BY DEF HasRead
<1> HIDE DEF m
<1>15. m \in 0 .. n /\ e \in Nat /\ m - m = 0 /\ n - m \in Nat /\ n - m >= 1 /\ m + (n - m) = n /\ e + (n - m) = g + n
  <2> HIDE DEF n
  <2> QED BY <1>1, <1>2
<1>16. /\ p \in Seq(RequestToken) /\ Len(p) = m /\ t \in Seq(RequestToken) /\ Len(t) = n - m
       /\ \A i \in 1 .. n - m : t[i] = buf[m + i]
  <2>1. p \in Seq(RequestToken) /\ Len(p) = m BY <1>1, <1>15, PrefixIs
  <2>2. t \in Seq(RequestToken) /\ Len(t) = n - m /\ \A i \in 1 .. n - m : t[i] = buf[m + i] BY <1>1, <1>15, SuffixIs
  <2> QED BY <2>1, <2>2
<1>17. Raw(d.sent, p, g) /\ Raw(d.sent, t, e) BY <1>1, <1>15, RawSplit
<1> HIDE DEF p, t
<1>3. Fit(p, d.host) /\ Owes(d.sent, e, 0, d.host)
  <2>1. Len(p) <= m BY <1>2, <1>16
  <2>2. Fit(p, d.host) /\ Owes(d.sent, g + Len(p), m - Len(p), d.host) BY <1>2, <1>14, <1>17, <2>1, OwedFit
  <2> QED BY <2>2, <1>15, <1>16
<1>4. PICK out \in Seq(Gone) :
        Out(d, p) = [d EXCEPT !.out = out] /\ Tokens(out) = Tokens(d.out) \o p /\ OutRight(out)
  BY <1>1, <1>3, <1>16, OutIs DEF HasRead
<1>5. Stands(d.sent, Tokens(out), 1, e)
  <2>1. Stands(d.sent, p, g, e) BY <1>1, <1>16, <1>17, RawStands
  <2>2. Stands(d.sent, Tokens(d.out), 1, g) BY DEF HasRead
  <2> HIDE DEF e
  <2> QED BY <1>4, <2>1, <2>2, StandsJoin
<1>6. Stands(d.sent, Tokens(out) \o << >>, 1, e) BY <1>5, StandsNone
<1>7. k = [d EXCEPT !.out = out, !.http_keep_alive_pending_buf_ = t, !.http_keep_alive_remaining_bytes_ = 0] BY <1>4
<1> HIDE DEF n, e, k
<1>8. k \in Connection BY <1>1, <1>2, <1>4, <1>7, <1>16 DEF Connection, Gone
<1>9. /\ k.closed = d.closed /\ k.http_keep_alive_previous_buf_ = d.http_keep_alive_previous_buf_
      /\ k.sent = d.sent /\ k.in = d.in /\ k.reads = d.reads /\ k.channel = d.channel /\ k.host = d.host
      /\ k.http_is_keep_alive_ = d.http_is_keep_alive_ /\ k.pending_data_ = d.pending_data_
      /\ k.http_keep_alive_pending_buf_ = t
      /\ k.out = out /\ k.http_keep_alive_remaining_bytes_ = 0
  BY <1>1, <1>7 DEF Connection
<1>10. Stage(k) BY <1>9 DEF Stage, HasRead
<1>11. Raw(d.sent, d.in, e + Len(t)) /\ e + Len(t) + Len(d.in) = Len(d.sent) + 1
  <2>1. Raw(d.sent, d.in, g + n) /\ g + n + Len(d.in) = Len(d.sent) + 1 BY DEF HasRead, n
  <2>2. e + Len(t) = g + n BY <1>15, <1>16
  <2> QED BY <2>1, <2>2
<1>12. Even(t)
  <2>1. n - m \in 1 .. n - m BY <1>15
  <2>2. t[Len(t)] = buf[n] BY <2>1, <1>15, <1>16
  <2>3. Even(buf) /\ buf # << >> BY DEF HasRead
  <2> QED BY <2>2, <2>3 DEF Even, n
<1>18. Fit(<< >>, d.host) BY DEF Fit
<1>13. KaHolds(k) BY <1>3, <1>4, <1>6, <1>8, <1>9, <1>10, <1>11, <1>12, <1>15, <1>17, <1>18, KeptParts DEF HasRead
<1> QED BY <1>13 DEF k, m, p, t

\* A connection parsed.
LEMMA ParsedConn ==
  ASSUME NEW d \in Connection, NEW put \in Seq(RequestToken), NEW m \in Nat
  PROVE  LET k == ParsedAs(d, put, m)
         IN  /\ k \in Connection /\ k.closed = d.closed
             /\ k.http_keep_alive_previous_buf_ = d.http_keep_alive_previous_buf_
             /\ k.sent = d.sent /\ k.in = d.in /\ k.reads = d.reads /\ k.channel = d.channel /\ k.host = d.host
             /\ k.http_is_keep_alive_ /\ k.pending_data_ = d.pending_data_ /\ k.out = d.out
             /\ k.http_keep_alive_pending_buf_ = put /\ k.http_keep_alive_remaining_bytes_ = m
BY DEF ParsedAs, Connection

\* What was read is a request.
LEMMA NextKept ==
  ASSUME NEW d, NEW buf, NEW g, HasRead(d, buf, g), d.http_keep_alive_remaining_bytes_ = 0
  PROVE  KaHolds(OnReadHttpRequestAfterReuse(d, buf))
<1> DEFINE r == ParseHttpRequest(d, buf)
<1>1. /\ d \in Connection /\ g \in Nat /\ buf \in Seq(RequestToken) /\ Raw(d.sent, buf, g) /\ Whole(d.sent)
      /\ buf # << >> /\ Even(buf) /\ d.http_keep_alive_pending_buf_ = << >>
  BY DEF HasRead, Raw
<1>2. Boundary(d.sent, g) BY <1>1, OwesNone DEF HasRead
<1>3. /\ r.ok /\ Len(r.buf) >= 1 /\ r.buf[1].host \in Hosts /\ Fit(r.buf, r.buf[1].host)
      /\ \E put, m, e :
           /\ r.conn = ParsedAs(d, put, m) /\ m \in Nat
           /\ Stands(d.sent, r.buf, g, e) /\ Raw(d.sent, put, e) /\ e + Len(put) = g + Len(buf)
           /\ Owes(d.sent, e, m, r.buf[1].host) /\ Even(put) /\ (put # << >> => m = 0)
  BY <1>1, <1>2, ParsedIs
<1>4. OnReadHttpRequestAfterReuse(d, buf) =
        IF r.buf[1].host = d.host THEN Out(r.conn, r.buf)
        ELSE [r.conn EXCEPT !.channel = "connecting", !.host = r.buf[1].host, !.pending_data_ = r.buf]
  BY <1>3 DEF OnReadHttpRequestAfterReuse
<1> HIDE DEF r
<1>5. PICK put, m, e :
           /\ r.conn = ParsedAs(d, put, m) /\ m \in Nat
           /\ Stands(d.sent, r.buf, g, e) /\ Raw(d.sent, put, e) /\ e + Len(put) = g + Len(buf)
           /\ Owes(d.sent, e, m, r.buf[1].host) /\ Even(put) /\ (put # << >> => m = 0)
  BY ONLY <1>3, Zenon
<1> DEFINE now == ParsedAs(d, put, m)  new == r.buf  h == r.buf[1].host
<1>6. put \in Seq(RequestToken) /\ e \in Nat /\ new \in Seq(RequestToken) /\ m \in Nat BY <1>5 DEF Raw, Stands
<1>7. /\ now \in Connection /\ now.closed = d.closed
      /\ now.http_keep_alive_previous_buf_ = d.http_keep_alive_previous_buf_
      /\ now.sent = d.sent /\ now.in = d.in /\ now.reads = d.reads /\ now.channel = d.channel /\ now.host = d.host
      /\ now.http_is_keep_alive_ /\ now.pending_data_ = d.pending_data_ /\ now.out = d.out
      /\ now.http_keep_alive_pending_buf_ = put /\ now.http_keep_alive_remaining_bytes_ = m
  BY <1>1, <1>6, ParsedConn
<1>8. Stands(d.sent, Tokens(d.out) \o new, 1, e)
  <2>1. Stands(d.sent, Tokens(d.out), 1, g) BY DEF HasRead
  <2> QED BY <1>5, <2>1, StandsJoin
<1>9. Raw(d.sent, d.in, e + Len(put)) /\ e + Len(put) + Len(d.in) = Len(d.sent) + 1 BY <1>5 DEF HasRead
<1>10. /\ r.conn = now /\ h \in Hosts /\ Fit(new, h) /\ Owes(d.sent, e, m, h) /\ Even(put) /\ (put # << >> => m = 0)
       /\ Raw(d.sent, put, e)
  BY <1>3, <1>5
<1> HIDE DEF now, new, h
<1>11. CASE h = d.host
  <2> DEFINE k == Out(now, new)
  <2>1. PICK out \in Seq(Gone) : k = [now EXCEPT !.out = out] /\ Tokens(out) = Tokens(now.out) \o new /\ OutRight(out)
    <3>1. Fit(new, now.host) BY <1>7, <1>10, <1>11
    <3>2. OutRight(now.out) BY <1>7 DEF HasRead
    <3> QED BY <3>1, <3>2, <1>6, <1>7, OutIs
  <2>2. k \in Connection BY <1>7, <2>1 DEF Connection, Gone
  <2>3. /\ k.closed = now.closed /\ k.http_keep_alive_previous_buf_ = now.http_keep_alive_previous_buf_
        /\ k.sent = now.sent /\ k.in = now.in /\ k.reads = now.reads /\ k.channel = now.channel /\ k.host = now.host
        /\ k.http_is_keep_alive_ = now.http_is_keep_alive_ /\ k.pending_data_ = now.pending_data_
        /\ k.http_keep_alive_pending_buf_ = put /\ k.out = out /\ k.http_keep_alive_remaining_bytes_ = m
    BY <1>7, <2>1 DEF Connection
  <2>4. Stands(d.sent, Tokens(out) \o << >>, 1, e)
    <3>1. Stands(d.sent, Tokens(out), 1, e) BY <2>1, <1>7, <1>8
    <3> QED BY <3>1, StandsNone
  <2> HIDE DEF k
  <2>5. Stage(k) BY <2>3, <1>7 DEF Stage, HasRead
  <2>6. Fit(<< >>, d.host) BY DEF Fit
  <2>9. /\ ~k.closed /\ k.http_keep_alive_previous_buf_ = << >> /\ k.pending_data_ = << >> /\ k.sent = d.sent
        /\ k.in = d.in /\ k.host = h /\ Whole(d.sent)
    BY <1>7, <1>11, <2>3 DEF HasRead
  <2>10. k.out = out /\ k.http_keep_alive_pending_buf_ = put /\ k.http_keep_alive_remaining_bytes_ = m BY <2>3
  <2>7. KaHolds(k) BY <1>6, <1>9, <1>10, <1>11, <2>1, <2>2, <2>4, <2>5, <2>6, <2>9, <2>10, KeptParts
  <2>8. OnReadHttpRequestAfterReuse(d, buf) = k BY <1>4, <1>10, <1>11 DEF k, new, h
  <2> QED BY <2>7, <2>8
<1>12. CASE h # d.host
  <2> DEFINE k == [now EXCEPT !.channel = "connecting", !.host = h, !.pending_data_ = new]
  <2>1. k \in Connection BY <1>6, <1>7, <1>10 DEF Connection
  <2>2. /\ k.closed = now.closed /\ k.http_keep_alive_previous_buf_ = now.http_keep_alive_previous_buf_
        /\ k.sent = now.sent /\ k.in = now.in /\ k.reads = now.reads /\ k.channel = "connecting" /\ k.host = h
        /\ k.http_is_keep_alive_ = now.http_is_keep_alive_ /\ k.pending_data_ = new
        /\ k.http_keep_alive_pending_buf_ = put /\ k.out = now.out /\ k.http_keep_alive_remaining_bytes_ = m
    BY <1>7 DEF Connection
  <2> HIDE DEF k
  <2>3. Stage(k) BY <2>2, <1>7 DEF Stage, HasRead
  <2>4. KaHolds(k) BY <1>6, <1>7, <1>8, <1>9, <1>10, <2>1, <2>2, <2>3, KeptParts DEF HasRead
  <2>5. OnReadHttpRequestAfterReuse(d, buf) = k BY <1>4, <1>10, <1>12 DEF k, new, h
  <2> QED BY <2>4, <2>5
<1> QED BY <1>11, <1>12

\* GetNextUpstreamBuf from after_read on.
LEMMA ReadKept ==
  ASSUME NEW d, NEW buf, NEW g, HasRead(d, buf, g)
  PROVE  KaHolds(AfterRead(d, buf))
<1> DEFINE m == d.http_keep_alive_remaining_bytes_
<1>1. d.channel = "connected" /\ d.http_is_keep_alive_ BY DEF HasRead
<1>2. CASE m = 0
  <2>1. AfterRead(d, buf) = OnReadHttpRequestAfterReuse(d, buf) BY <1>1, <1>2 DEF AfterRead
  <2> QED BY <2>1, <1>2, NextKept
<1>3. CASE m # 0 /\ m < Len(buf)
  <2>1. AfterRead(d, buf) = [Out(d, Prefix(buf, m)) EXCEPT !.http_keep_alive_pending_buf_ = Suffix(buf, m),
                                                           !.http_keep_alive_remaining_bytes_ = 0]
    BY <1>1, <1>3 DEF AfterRead
  <2> QED BY <2>1, <1>3, RestKept
<1>4. CASE m # 0 /\ ~(m < Len(buf))
  <2>1. AfterRead(d, buf) = [Out(d, buf) EXCEPT !.http_keep_alive_remaining_bytes_ = m - Len(buf)]
    BY <1>1, <1>4 DEF AfterRead
  <2> QED BY <2>1, <1>4, BodyKept
<1> QED BY <1>2, <1>3, <1>4

\* What the invariant says of a connection, with the place where what is gone ends.
LEMMA KeptAt ==
  ASSUME NEW k, KaHolds(k)
  PROVE  \E g \in Nat :
           /\ Whole(k.sent) /\ Stands(k.sent, Tokens(k.out) \o k.pending_data_, 1, g)
           /\ Raw(k.sent, k.http_keep_alive_pending_buf_, g)
           /\ Raw(k.sent, k.in, g + Len(k.http_keep_alive_pending_buf_))
           /\ g + Len(k.http_keep_alive_pending_buf_) + Len(k.in) = Len(k.sent) + 1
           /\ Owes(k.sent, g, k.http_keep_alive_remaining_bytes_, k.host) /\ Even(k.http_keep_alive_pending_buf_)
           /\ (k.http_keep_alive_pending_buf_ # << >> => k.http_keep_alive_remaining_bytes_ = 0)
<1> DEFINE i == Len(k.in)  p == Len(k.http_keep_alive_pending_buf_)  z == Len(k.sent)
           g == At(k.sent, k.in, k.http_keep_alive_pending_buf_)
<1>1. k \in Connection BY DEF KaHolds
<1>2. i \in Nat /\ p \in Nat /\ z \in Nat BY <1>1, LenProperties DEF Connection
<1>3. g = z + 1 - i - p BY DEF At
<1>4. Joined(k.sent, k.in, k.http_keep_alive_pending_buf_, Tokens(k.out) \o k.pending_data_,
             k.http_keep_alive_remaining_bytes_, k.host)
  BY DEF KaHolds
<1>5. g \in Nat BY <1>4 DEF Joined, Stands
<1>6. g + p + i = z + 1
  <2> HIDE DEF i, p, z, g
  <2> QED BY <1>2, <1>3, <1>5
<1> QED BY <1>4, <1>5, <1>6 DEF Joined

\* Nothing in front of a sequence.
LEMMA EmptyFirst == ASSUME NEW seq \in Seq(RequestToken) PROVE << >> \o seq = seq
BY ConcatEmptySeq

\* Nothing behind it.
LEMMA EmptyLast == ASSUME NEW seq \in Seq(RequestToken) PROVE seq \o << >> = seq
BY ConcatEmptySeq

\* The channel is there.
LEMMA ConnectedKept ==
  ASSUME KaHolds(ka), channel_connected
  PROVE  KaHolds(ka')
<1> DEFINE buf == ka.pending_data_  put == ka.http_keep_alive_pending_buf_  m == ka.http_keep_alive_remaining_bytes_
<1>1. /\ ka \in Connection /\ ~ka.closed /\ ka.http_keep_alive_previous_buf_ = << >> /\ Stage(ka)
      /\ OutRight(ka.out) /\ Fit(buf, ka.host) /\ buf \in Seq(RequestToken)
  BY DEF KaHolds, Connection
<1>2. ka.channel = "connecting" BY DEF channel_connected
<1>3. ka.http_is_keep_alive_ BY <1>1, <1>2 DEF Stage
<1>4. PICK g \in Nat :
           /\ Whole(ka.sent) /\ Stands(ka.sent, Tokens(ka.out) \o buf, 1, g)
           /\ Raw(ka.sent, put, g) /\ Raw(ka.sent, ka.in, g + Len(put))
           /\ g + Len(put) + Len(ka.in) = Len(ka.sent) + 1
           /\ Owes(ka.sent, g, m, ka.host) /\ Even(put) /\ (put # << >> => m = 0)
  BY KeptAt
<1>5. PICK out \in Seq(Gone) : Out(ka, buf) = [ka EXCEPT !.out = out] /\ Tokens(out) = Tokens(ka.out) \o buf /\ OutRight(out)
  BY <1>1, OutIs
<1>6. ka' = [ka EXCEPT !.out = out, !.channel = "connected", !.reads = "stream", !.pending_data_ = << >>]
  BY <1>5 DEF channel_connected
<1> DEFINE k == [ka EXCEPT !.out = out, !.channel = "connected", !.reads = "stream", !.pending_data_ = << >>]
<1>7. k \in Connection BY <1>1, <1>5 DEF Connection, Gone
<1>8. /\ k.closed = ka.closed /\ k.http_keep_alive_previous_buf_ = ka.http_keep_alive_previous_buf_
      /\ k.sent = ka.sent /\ k.in = ka.in /\ k.reads = "stream" /\ k.channel = "connected" /\ k.host = ka.host
      /\ k.http_is_keep_alive_ = ka.http_is_keep_alive_ /\ k.pending_data_ = << >>
      /\ k.http_keep_alive_pending_buf_ = put /\ k.out = out /\ k.http_keep_alive_remaining_bytes_ = m
  BY <1>1 DEF Connection
<1> HIDE DEF k
<1>9. Stage(k) BY <1>3, <1>8 DEF Stage
<1>10. Stands(ka.sent, Tokens(out) \o << >>, 1, g)
  <2>1. Stands(ka.sent, Tokens(out), 1, g) BY <1>4, <1>5
  <2> QED BY <2>1, StandsNone
<1>11. Fit(<< >>, ka.host) BY DEF Fit
<1>12. ~k.closed /\ k.http_keep_alive_previous_buf_ = << >> BY <1>1, <1>8
<1>13. KaHolds(k) BY <1>4, <1>5, <1>7, <1>8, <1>9, <1>10, <1>11, <1>12, KeptParts
<1> QED BY <1>6, <1>13 DEF k

\* A read of what is unread.
LEMMA ReadIs ==
  ASSUME NEW sent \in Seq(RequestToken), NEW in, NEW g, Raw(sent, in, g), g + Len(in) = Len(sent) + 1, NEW n \in 1 .. Len(in),
         in[n].part # Head1
  PROVE  /\ Prefix(in, n) \in Seq(RequestToken) /\ Prefix(in, n) # << >> /\ Even(Prefix(in, n)) /\ Len(Prefix(in, n)) = n
         /\ Suffix(in, n) \in Seq(RequestToken)
         /\ Raw(sent, Prefix(in, n), g) /\ Raw(sent, Suffix(in, n), g + n)
         /\ g + n + Len(Suffix(in, n)) = Len(sent) + 1
<1> DEFINE p == Prefix(in, n)  t == Suffix(in, n)
<1>1. in \in Seq(RequestToken) /\ Len(in) \in Nat /\ Len(sent) \in Nat /\ g \in Nat BY LenProperties DEF Raw
<1>2. n \in 0 .. Len(in) /\ n >= 1 /\ n \in 1 .. n /\ n \in Nat /\ n # 0 BY <1>1
<1>3. p \in Seq(RequestToken) /\ Len(p) = n /\ \A i \in 1 .. n : p[i] = in[i] BY <1>1, <1>2, PrefixIs
<1>4. t \in Seq(RequestToken) /\ Len(t) = Len(in) - n BY <1>1, <1>2, SuffixIs
<1>5. Raw(sent, p, g) /\ Raw(sent, t, g + n) BY <1>2, RawSplit
<1> HIDE DEF p, t
<1>6. p # << >> BY <1>2, <1>3, EmptySeq
<1>7. Even(p) BY <1>2, <1>3 DEF Even
<1>8. g + n + Len(t) = Len(sent) + 1
  <2> DEFINE l == Len(in)  z == Len(sent)
  <2>1. l \in Nat /\ z \in Nat /\ g + l = z + 1 BY <1>1
  <2> HIDE DEF l, z
  <2>2. g + n + (l - n) = z + 1 BY <1>1, <1>2, <2>1
  <2> QED BY <1>4, <2>2 DEF l, z
<1> QED BY <1>3, <1>4, <1>5, <1>6, <1>7, <1>8 DEF p, t

\* The next requests.
LEMMA NextUpstreamKept ==
  ASSUME ~SplitHeads, ~SendsWhileReplaced, KaHolds(ka), GetNextUpstreamBuf
  PROVE  KaHolds(ka')
<1> DEFINE put == ka.http_keep_alive_pending_buf_  m == ka.http_keep_alive_remaining_bytes_
<1>1. /\ ka \in Connection /\ ~ka.closed /\ ka.http_keep_alive_previous_buf_ = << >> /\ Stage(ka)
      /\ OutRight(ka.out) /\ put \in Seq(RequestToken) /\ ka.in \in Seq(RequestToken)
  BY DEF KaHolds, Connection
<1>2. ka.channel = "connected" /\ ka.reads = "stream" BY DEF GetNextUpstreamBuf
<1>3. ka.http_is_keep_alive_ /\ ka.pending_data_ = << >> BY <1>1, <1>2 DEF Stage
<1>4. PICK g \in Nat :
           /\ Whole(ka.sent) /\ Stands(ka.sent, Tokens(ka.out) \o ka.pending_data_, 1, g)
           /\ Raw(ka.sent, put, g) /\ Raw(ka.sent, ka.in, g + Len(put))
           /\ g + Len(put) + Len(ka.in) = Len(ka.sent) + 1
           /\ Owes(ka.sent, g, m, ka.host) /\ Even(put) /\ (put # << >> => m = 0)
  BY KeptAt
<1>5. Stands(ka.sent, Tokens(ka.out), 1, g)
  <2>1. ka.out \in Seq(Gone) BY <1>1 DEF Connection, Gone
  <2>2. Tokens(ka.out) \in Seq(RequestToken) BY <2>1, TokensIs
  <2> QED BY <2>2, <1>3, <1>4, EmptyLast
<1>6. CASE put # << >>
  <2> DEFINE d == [ka EXCEPT !.http_keep_alive_pending_buf_ = << >>]
  <2>1. ka' = AfterRead(d, put) BY <1>3, <1>6 DEF GetNextUpstreamBuf
  <2>2. d \in Connection BY <1>1 DEF Connection
  <2>3. /\ d.closed = ka.closed /\ d.http_keep_alive_previous_buf_ = ka.http_keep_alive_previous_buf_
        /\ d.sent = ka.sent /\ d.in = ka.in /\ d.reads = ka.reads /\ d.channel = ka.channel /\ d.host = ka.host
        /\ d.http_is_keep_alive_ = ka.http_is_keep_alive_ /\ d.pending_data_ = ka.pending_data_ /\ d.out = ka.out
        /\ d.http_keep_alive_pending_buf_ = << >> /\ d.http_keep_alive_remaining_bytes_ = m
    BY <1>1 DEF Connection
  <2> HIDE DEF d
  <2>4. HasRead(d, put, g) BY <1>1, <1>2, <1>3, <1>4, <1>5, <1>6, <2>2, <2>3 DEF HasRead
  <2> QED BY <2>1, <2>4, ReadKept
<1>7. CASE put = << >>
  <2>1. PICK n \in 1 .. Len(ka.in) :
          /\ ka.in[n].part # Head1
          /\ ka' = AfterRead([[ka EXCEPT !.in = Suffix(@, n)] EXCEPT !.http_keep_alive_previous_buf_ = << >>],
                             ka.http_keep_alive_previous_buf_ \o Prefix(ka.in, n))
    BY <1>3, <1>7 DEF GetNextUpstreamBuf
  <2> DEFINE buf == Prefix(ka.in, n)  t == Suffix(ka.in, n)
             d == [ka EXCEPT !.in = t, !.http_keep_alive_previous_buf_ = << >>]
  <2>2. Raw(ka.sent, ka.in, g) /\ g + Len(ka.in) = Len(ka.sent) + 1
    <3>1. Len(put) = 0 /\ g + 0 = g BY <1>7
    <3> QED BY <3>1, <1>4
  <2>3. /\ buf \in Seq(RequestToken) /\ buf # << >> /\ Even(buf) /\ Len(buf) = n /\ t \in Seq(RequestToken)
        /\ Raw(ka.sent, buf, g) /\ Raw(ka.sent, t, g + n) /\ g + n + Len(t) = Len(ka.sent) + 1
    <3>1. ka.sent \in Seq(RequestToken) BY <1>1 DEF Connection
    <3> QED BY <2>1, <2>2, <3>1, ReadIs
  <2> HIDE DEF buf, t
  <2>4. ka' = AfterRead(d, buf)
    <3>1. << >> \o buf = buf BY <2>3, EmptyFirst
    <3> QED BY <1>1, <2>1, <3>1 DEF buf, t
  <2>5. d \in Connection BY <1>1, <2>3 DEF Connection
  <2>6. /\ d.closed = ka.closed /\ d.http_keep_alive_previous_buf_ = << >>
        /\ d.sent = ka.sent /\ d.in = t /\ d.reads = ka.reads /\ d.channel = ka.channel /\ d.host = ka.host
        /\ d.http_is_keep_alive_ = ka.http_is_keep_alive_ /\ d.pending_data_ = ka.pending_data_ /\ d.out = ka.out
        /\ d.http_keep_alive_pending_buf_ = put /\ d.http_keep_alive_remaining_bytes_ = m
    BY <1>1 DEF Connection
  <2> HIDE DEF d
  <2>7. HasRead(d, buf, g) BY <1>1, <1>2, <1>3, <1>4, <1>5, <1>7, <2>3, <2>5, <2>6 DEF HasRead
  <2> QED BY <2>4, <2>7, ReadKept
<1> QED BY <1>6, <1>7

\* The first request.
LEMMA FirstKept ==
  ASSUME ~SplitHeads, KaHolds(ka), ReadFirstRequest
  PROVE  KaHolds(ka')
<1>1. /\ ka \in Connection /\ ~ka.closed /\ ka.http_keep_alive_previous_buf_ = << >> /\ Stage(ka)
      /\ OutRight(ka.out) /\ ka.in \in Seq(RequestToken) /\ ka.sent \in Seq(RequestToken) /\ ka.reads = "request"
  BY DEF KaHolds, Connection, ReadFirstRequest
<1>2. /\ ka.out = << >> /\ ka.pending_data_ = << >> /\ ka.http_keep_alive_pending_buf_ = << >>
      /\ ka.http_keep_alive_remaining_bytes_ = 0
  BY <1>1 DEF Stage
<1>3. PICK g \in Nat :
           /\ Whole(ka.sent) /\ Stands(ka.sent, Tokens(<< >>) \o << >>, 1, g)
           /\ Raw(ka.sent, ka.in, g + Len(<< >>))
           /\ g + Len(<< >>) + Len(ka.in) = Len(ka.sent) + 1
           /\ Owes(ka.sent, g, 0, ka.host)
  BY <1>2, KeptAt
<1>4. /\ Raw(ka.sent, ka.in, g) /\ g + Len(ka.in) = Len(ka.sent) + 1 /\ Boundary(ka.sent, g)
      /\ Stands(ka.sent, Tokens(ka.out), 1, g)
  <2>1. Len(<< >>) = 0 /\ g + 0 = g OBVIOUS
  <2>2. << >> \in Seq(Gone) OBVIOUS
  <2>3. Tokens(<< >>) \in Seq(RequestToken) BY <2>2, TokensIs
  <2>4. Tokens(<< >>) \o << >> = Tokens(<< >>) BY <2>3, EmptyLast
  <2> QED BY <1>2, <1>3, <2>1, <2>4, OwesNone
<1>5. PICK n \in 1 .. Len(ka.in) :
        LET r == ParseHttpRequest([ka EXCEPT !.in = Suffix(@, n)], Prefix(ka.in, n)) IN
        /\ ka.in[n].part # Head1
        /\ ka' = IF r.ok THEN [r.conn EXCEPT !.reads = "no", !.channel = "connecting",
                                             !.host = r.buf[1].host, !.pending_data_ = r.buf]
                         ELSE [r.conn EXCEPT !.closed = TRUE]
  BY DEF ReadFirstRequest
<1> DEFINE buf == Prefix(ka.in, n)  t == Suffix(ka.in, n)  d == [ka EXCEPT !.in = t]  r == ParseHttpRequest(d, buf)
<1>6. /\ buf \in Seq(RequestToken) /\ buf # << >> /\ Even(buf) /\ Len(buf) = n /\ t \in Seq(RequestToken)
      /\ Raw(ka.sent, buf, g) /\ Raw(ka.sent, t, g + n) /\ g + n + Len(t) = Len(ka.sent) + 1
  BY <1>1, <1>4, <1>5, ReadIs
<1>7. ka' = IF r.ok THEN [r.conn EXCEPT !.reads = "no", !.channel = "connecting",
                                        !.host = r.buf[1].host, !.pending_data_ = r.buf]
                    ELSE [r.conn EXCEPT !.closed = TRUE]
  BY <1>1, <1>5
<1> HIDE DEF buf, t
<1>8. /\ d \in Connection /\ d.closed = ka.closed /\ d.http_keep_alive_previous_buf_ = << >>
      /\ d.sent = ka.sent /\ d.in = t /\ d.out = ka.out /\ d.http_keep_alive_pending_buf_ = << >>
  BY <1>1, <1>2, <1>6 DEF Connection
<1> HIDE DEF d
<1>9. /\ r.ok /\ Len(r.buf) >= 1 /\ r.buf[1].host \in Hosts /\ Fit(r.buf, r.buf[1].host)
      /\ \E put, m, e :
           /\ r.conn = ParsedAs(d, put, m) /\ m \in Nat
           /\ Stands(ka.sent, r.buf, g, e) /\ Raw(ka.sent, put, e) /\ e + Len(put) = g + Len(buf)
           /\ Owes(ka.sent, e, m, r.buf[1].host) /\ Even(put) /\ (put # << >> => m = 0)
  BY <1>3, <1>4, <1>6, <1>8, ParsedIs
<1> HIDE DEF r
<1>10. PICK put, m, e :
           /\ r.conn = ParsedAs(d, put, m) /\ m \in Nat
           /\ Stands(ka.sent, r.buf, g, e) /\ Raw(ka.sent, put, e) /\ e + Len(put) = g + Len(buf)
           /\ Owes(ka.sent, e, m, r.buf[1].host) /\ Even(put) /\ (put # << >> => m = 0)
  BY ONLY <1>9, Zenon
<1> DEFINE now == ParsedAs(d, put, m)  new == r.buf  h == r.buf[1].host
           k == [now EXCEPT !.reads = "no", !.channel = "connecting", !.host = h, !.pending_data_ = new]
<1>11. put \in Seq(RequestToken) /\ e \in Nat /\ new \in Seq(RequestToken) /\ m \in Nat BY <1>10 DEF Raw, Stands
<1>12. /\ now \in Connection /\ now.closed = d.closed
       /\ now.http_keep_alive_previous_buf_ = d.http_keep_alive_previous_buf_
       /\ now.sent = d.sent /\ now.in = d.in /\ now.http_is_keep_alive_ /\ now.out = d.out
       /\ now.http_keep_alive_pending_buf_ = put /\ now.http_keep_alive_remaining_bytes_ = m
  <2>1. d \in Connection /\ put \in Seq(RequestToken) /\ m \in Nat BY <1>8, <1>11
  <2> QED BY ONLY <2>1 DEF ParsedAs, Connection
<1>13. ka' = k BY <1>7, <1>9, <1>10
<1>14. /\ h \in Hosts /\ Fit(new, h) /\ Owes(ka.sent, e, m, h) /\ Even(put) /\ (put # << >> => m = 0)
       /\ Raw(ka.sent, put, e) /\ Stands(ka.sent, new, g, e) /\ e + Len(put) = g + n
  BY <1>6, <1>9, <1>10
<1> HIDE DEF now, new, h
<1>15. k \in Connection BY <1>11, <1>12, <1>14 DEF Connection
<1>16. /\ ~k.closed /\ k.http_keep_alive_previous_buf_ = << >> /\ k.sent = ka.sent /\ k.in = t
       /\ k.reads = "no" /\ k.channel = "connecting" /\ k.host = h /\ k.http_is_keep_alive_ /\ k.pending_data_ = new
       /\ k.http_keep_alive_pending_buf_ = put /\ k.out = ka.out /\ k.http_keep_alive_remaining_bytes_ = m
  BY <1>1, <1>8, <1>12 DEF Connection
<1> HIDE DEF k
<1>17. Stage(k) BY <1>16 DEF Stage
<1>18. Stands(ka.sent, Tokens(ka.out) \o new, 1, e) BY <1>4, <1>14, StandsJoin
<1>19. Raw(ka.sent, t, e + Len(put)) /\ e + Len(put) + Len(t) = Len(ka.sent) + 1 BY <1>6, <1>14
<1>20. KaHolds(k) BY <1>1, <1>3, <1>11, <1>14, <1>15, <1>16, <1>17, <1>18, <1>19, KeptParts
<1> QED BY <1>13, <1>20

\* A request is its head and its body.
IsRequest(q, z, host, body) ==
  /\ q \in Seq(RequestToken) /\ Len(q) = 2 + body
  /\ \A i \in 1 .. 2 + body : q[i].place = z + i /\ q[i].host = host /\ q[i].body = body /\ q[i].part = i

LEMMA RequestIs ==
  ASSUME NEW z \in Nat, NEW r \in Nat, NEW host \in Hosts, NEW body \in Nat
  PROVE  IsRequest(Request(z, r, host, body), z, host, body)
<1> DEFINE n == 2 + body
           f == [i \in 1 .. n |-> [place |-> z + i, request |-> r, host |-> host, body |-> body, part |-> i]]
<1>1. n \in Nat OBVIOUS
<1>2. \A i \in 1 .. n : [place |-> z + i, request |-> r, host |-> host, body |-> body, part |-> i] \in RequestToken
  BY <1>1 DEF RequestToken
<1> HIDE DEF n
<1>3. f \in Seq(RequestToken) BY <1>1, <1>2, SeqDef
<1>4. DOMAIN f = 1 .. n OBVIOUS
<1>5. \A i \in 1 .. n : f[i].place = z + i /\ f[i].host = host /\ f[i].body = body /\ f[i].part = i OBVIOUS
<1> HIDE DEF f
<1>6. Len(f) = n BY <1>1, <1>3, <1>4, LenProperties
<1>7. Request(z, r, host, body) = f BY DEF f, n, Request
<1>8. IsRequest(f, z, host, body) BY <1>3, <1>5, <1>6 DEF n, IsRequest
<1> QED BY <1>7, <1>8

\* What was sent, and one request more.
LEMMA Grown ==
  ASSUME NEW sent \in Seq(RequestToken), NEW q \in Seq(RequestToken), NEW body \in Nat, Len(q) = 2 + body
  PROVE  LET u == sent \o q  z == Len(sent)
         IN  /\ u \in Seq(RequestToken) /\ z \in Nat /\ Len(u) = z + 2 + body
             /\ \A i \in 1 .. z : u[i] = sent[i]
             /\ \A i \in 1 .. 2 + body : u[z + i] = q[i]
<1> DEFINE u == sent \o q  z == Len(sent)
<1>0. sent \in Seq(RequestToken) /\ q \in Seq(RequestToken) OBVIOUS
<1>1. /\ u \in Seq(RequestToken) /\ Len(u) = z + Len(q) /\ z \in Nat
      /\ \A i \in 1 .. z : u[i] = sent[i]
      /\ \A i \in 1 .. Len(q) : u[z + i] = q[i]
  BY ONLY <1>0, ConcatIs
<1> HIDE DEF u, z
<1>2. z + (2 + body) = z + 2 + body BY <1>1
<1> QED BY <1>1, <1>2 DEF u, z

\* Where a request may begin it may begin still.
LEMMA BoundaryGrows ==
  ASSUME NEW sent \in Seq(RequestToken), NEW u \in Seq(RequestToken), NEW n \in Nat \ {0}, Len(u) = Len(sent) + n,
         \A i \in 1 .. Len(sent) : u[i] = sent[i], u[Len(sent) + 1].part = Head1, NEW p, Boundary(sent, p)
  PROVE  Boundary(u, p)
<1> DEFINE z == Len(sent)
<1>1. z \in Nat /\ Len(u) = z + n BY LenProperties
<1>2. CASE p = z + 1
  <2>1. p \in 1 .. z + n BY <1>1, <1>2
  <2> QED BY <2>1, <1>1, <1>2 DEF Boundary
<1>3. CASE p \in 1 .. z /\ sent[p].part = Head1
  <2>1. p \in 1 .. z + n BY <1>1, <1>3
  <2> QED BY <2>1, <1>1, <1>3 DEF Boundary
<1> QED BY <1>2, <1>3 DEF Boundary

\* What was sent stays one request after the other.
LEMMA WholeGrows ==
  ASSUME NEW sent, Whole(sent), NEW r \in Nat, NEW host \in Hosts, NEW body \in Nat
  PROVE  LET q == Request(Len(sent), r, host, body)
         IN  Whole(sent \o q) /\ q \in Seq(RequestToken) /\ Len(q) \in Nat \ {0} /\ q[1].part = Head1
<1> DEFINE z == Len(sent)  q == Request(z, r, host, body)  u == sent \o q  n == 2 + body
<1>1. sent \in Seq(RequestToken) /\ z \in Nat BY LenProperties DEF Whole
<1>2. /\ q \in Seq(RequestToken) /\ Len(q) = 2 + body
      /\ \A i \in 1 .. 2 + body : q[i].place = z + i /\ q[i].host = host /\ q[i].body = body /\ q[i].part = i
  <2>1. z \in Nat /\ r \in Nat /\ host \in Hosts /\ body \in Nat BY <1>1
  <2> HIDE DEF z
  <2>2. IsRequest(q, z, host, body) BY ONLY <2>1, RequestIs
  <2> HIDE DEF q
  <2> QED BY <2>2 DEF IsRequest
<1> HIDE DEF q
<1>3. /\ u \in Seq(RequestToken) /\ Len(u) = z + 2 + body
      /\ \A i \in 1 .. z : u[i] = sent[i]
      /\ \A i \in 1 .. 2 + body : u[z + i] = q[i]
  BY <1>1, <1>2, Grown
<1> HIDE DEF u
<1>4. n \in Nat \ {0} /\ z + n = z + 2 + body /\ 1 \in 1 .. 2 + body BY <1>1
<1>5. u[z + 1].part = Head1 BY <1>2, <1>3, <1>4 DEF Head1
<1>6. ASSUME NEW p, Boundary(sent, p) PROVE Boundary(u, p)
  <2>1. Len(u) = Len(sent) + n /\ (\A i \in 1 .. Len(sent) : u[i] = sent[i]) /\ u[Len(sent) + 1].part = Head1
    BY <1>3, <1>4, <1>5
  <2> HIDE DEF n, z
  <2> QED BY <1>1, <1>3, <1>4, <1>6, <2>1, BoundaryGrows
<1>7. Boundary(u, 1) BY <1>6 DEF Whole
<1>8. ASSUME NEW p \in 1 .. Len(u)
      PROVE  /\ u[p].place = p /\ u[p].part # Reforged
             /\ u[p].part = Head1 =>
                  /\ \A j \in 0 .. 1 + u[p].body :
                       /\ p + j <= Len(u) /\ u[p + j].part = 1 + j /\ u[p + j].host = u[p].host
                  /\ Boundary(u, p + 2 + u[p].body)
  <2>1. CASE p <= z
    <3>1. p \in 1 .. z /\ u[p] = sent[p] BY <2>1, <1>1, <1>3
    <3>2. u[p].place = p /\ u[p].part # Reforged BY <3>1 DEF Whole
    <3>3. ASSUME u[p].part = Head1
          PROVE  /\ \A j \in 0 .. 1 + u[p].body :
                      /\ p + j <= Len(u) /\ u[p + j].part = 1 + j /\ u[p + j].host = u[p].host
                 /\ Boundary(u, p + 2 + u[p].body)
      <4>1. /\ \A j \in 0 .. 1 + sent[p].body :
                 p + j <= z /\ sent[p + j].part = 1 + j /\ sent[p + j].host = sent[p].host
            /\ Boundary(sent, p + 2 + sent[p].body)
        BY <3>1, <3>3 DEF Whole
      <4>2. ASSUME NEW j \in 0 .. 1 + sent[p].body
            PROVE  p + j <= Len(u) /\ u[p + j].part = 1 + j /\ u[p + j].host = sent[p].host
        <5>1. p + j <= z /\ sent[p + j].part = 1 + j /\ sent[p + j].host = sent[p].host BY <4>1
        <5>2. j \in Nat
          <6>1. sent[p] \in RequestToken BY <1>1, <3>1, LenProperties
          <6>2. sent[p].body \in Nat BY <6>1 DEF RequestToken
          <6> QED BY <6>2
        <5>3. p + j \in 1 .. z /\ p + j <= z + 2 + body BY <5>1, <5>2, <1>1, <3>1
        <5> QED BY <5>1, <5>3, <1>3
      <4>3. Boundary(u, p + 2 + sent[p].body) BY <4>1, <1>6
      <4> QED BY <3>1, <4>2, <4>3
    <3> QED BY <3>2, <3>3
  <2>2. CASE ~(p <= z)
    <3> DEFINE i == p - z
    <3>1. i \in 1 .. 2 + body /\ z + i = p BY <2>2, <1>1, <1>3
    <3> HIDE DEF i
    <3>2. u[p] = q[i] BY <3>1, <1>3
    <3>3. u[p].place = p /\ u[p].host = host /\ u[p].body = body /\ u[p].part = i BY <3>1, <3>2, <1>2
    <3>4. i # Reforged BY <3>1 DEF Reforged
    <3>5. ASSUME i = Head1
          PROVE  /\ \A j \in 0 .. 1 + body : p + j <= Len(u) /\ u[p + j].part = 1 + j /\ u[p + j].host = host
                 /\ Boundary(u, p + 2 + body)
      <4>1. p = z + 1 BY <3>1, <3>5 DEF Head1
      <4>2. ASSUME NEW j \in 0 .. 1 + body PROVE p + j <= Len(u) /\ u[p + j].part = 1 + j /\ u[p + j].host = host
        <5>1. 1 + j \in 1 .. 2 + body /\ p + j = z + (1 + j) /\ p + j <= z + 2 + body BY <4>1, <1>1
        <5>2. u[z + (1 + j)] = q[1 + j] BY <5>1, <1>3
        <5>3. q[1 + j].part = 1 + j /\ q[1 + j].host = host BY <5>1, <1>2
        <5> QED BY <5>1, <5>2, <5>3, <1>3
      <4>3. p + 2 + body = Len(u) + 1 BY <4>1, <1>1, <1>3
      <4> QED BY <4>2, <4>3 DEF Boundary
    <3> QED BY <3>3, <3>4, <3>5
  <2> QED BY <2>1, <2>2, <1>1
<1>9. Whole(u) BY <1>3, <1>7, <1>8 DEF Whole
<1>10. Len(q) \in Nat \ {0} /\ q[1].part = Head1 BY <1>2, <1>4 DEF Head1
<1> QED BY <1>2, <1>9, <1>10 DEF u, q

\* u is sent, and more.
Continues(u, sent) ==
  /\ sent \in Seq(RequestToken) /\ u \in Seq(RequestToken) /\ Len(sent) \in Nat /\ Len(u) \in Nat /\ Len(sent) <= Len(u)
  /\ \A i \in 1 .. Len(sent) : u[i] = sent[i]

\* What was sent stays where it is when more is sent.
LEMMA RawGrows ==
  ASSUME NEW sent, NEW u, Continues(u, sent), NEW seq, NEW a, Raw(sent, seq, a)
  PROVE  Raw(u, seq, a)
<1> DEFINE n == Len(seq)  z == Len(sent)  y == Len(u)
<1>1. /\ seq \in Seq(RequestToken) /\ n \in Nat /\ z \in Nat /\ y \in Nat /\ z <= y /\ a \in Nat \ {0} /\ a + n <= z + 1
      /\ (\A i \in 1 .. n : seq[i] = sent[a + i - 1]) /\ \A i \in 1 .. z : u[i] = sent[i]
  BY LenProperties DEF Raw, Continues
<1> HIDE DEF n, z, y
<1>2. a + n <= y + 1 BY <1>1
<1>3. ASSUME NEW i \in 1 .. n PROVE seq[i] = u[a + i - 1]
  <2>1. a + i - 1 \in 1 .. z BY <1>1
  <2> QED BY <2>1, <1>1
<1> QED BY <1>1, <1>2, <1>3 DEF Raw, n, y

\* The same of what is gone.
LEMMA StandsGrows ==
  ASSUME NEW sent, NEW u, Continues(u, sent), NEW seq, NEW a, NEW b, Stands(sent, seq, a, b)
  PROVE  Stands(u, seq, a, b)
<1>1. ASSUME NEW i \in 1 .. Len(seq)
      PROVE  /\ seq[i].place = IF i = 1 THEN a ELSE EndOf(seq[i - 1])
             /\ seq[i].place \in 1 .. Len(u) /\ Original(seq[i]) = u[seq[i].place]
  <2> DEFINE p == seq[i].place
  <2>1. p = (IF i = 1 THEN a ELSE EndOf(seq[i - 1])) /\ p \in 1 .. Len(sent) /\ Original(seq[i]) = sent[p] BY DEF Stands
  <2> HIDE DEF p
  <2>2. p \in 1 .. Len(u) /\ u[p] = sent[p] BY <2>1 DEF Continues
  <2> QED BY <2>1, <2>2 DEF p
<1> QED BY <1>1 DEF Stands

\* What is unread, and one request more.
LEMMA UnreadGrows ==
  ASSUME NEW sent, NEW in, NEW q \in Seq(RequestToken), NEW a, sent \in Seq(RequestToken), Raw(sent, in, a),
         a + Len(in) = Len(sent) + 1
  PROVE  /\ in \o q \in Seq(RequestToken) /\ Raw(sent \o q, in \o q, a) /\ a + Len(in \o q) = Len(sent \o q) + 1
         /\ Continues(sent \o q, sent) /\ Len(sent \o q) = Len(sent) + Len(q)
<1> DEFINE z == Len(sent)  l == Len(in)  n == Len(q)  u == sent \o q  v == in \o q
<1>1. /\ sent \in Seq(RequestToken) /\ in \in Seq(RequestToken) /\ q \in Seq(RequestToken) /\ a \in Nat \ {0}
      /\ \A i \in 1 .. Len(in) : in[i] = sent[a + i - 1]
  BY DEF Raw
<1>2. /\ u \in Seq(RequestToken) /\ Len(u) = z + n /\ z \in Nat /\ n \in Nat
      /\ (\A i \in 1 .. z : u[i] = sent[i]) /\ \A i \in 1 .. n : u[z + i] = q[i]
  BY ONLY <1>1, ConcatIs
<1>3. /\ v \in Seq(RequestToken) /\ Len(v) = l + n /\ l \in Nat
      /\ (\A i \in 1 .. l : v[i] = in[i]) /\ \A i \in 1 .. n : v[l + i] = q[i]
  BY ONLY <1>1, ConcatIs
<1>4. a + l = z + 1 /\ \A i \in 1 .. l : in[i] = sent[a + i - 1] BY <1>1
<1>5. z <= z + n /\ z + n \in Nat BY <1>2
<1>6. Continues(u, sent) BY <1>1, <1>2, <1>5 DEF Continues
<1> HIDE DEF z, l, n, u, v
<1>7. a + (l + n) = (z + n) + 1 BY <1>1, <1>2, <1>3, <1>4
<1>8. ASSUME NEW i \in 1 .. l + n PROVE v[i] = u[a + i - 1]
  <2>1. CASE i <= l
    <3>1. i \in 1 .. l /\ a + i - 1 \in 1 .. z BY <2>1, <1>1, <1>2, <1>3, <1>4
    <3> QED BY <3>1, <1>2, <1>3, <1>4
  <2>2. CASE ~(i <= l)
    <3> DEFINE j == i - l
    <3>1. j \in 1 .. n /\ l + j = i /\ z + j = a + i - 1 BY <2>2, <1>1, <1>2, <1>3, <1>4
    <3> HIDE DEF j
    <3> QED BY <3>1, <1>2, <1>3
  <2> QED BY <2>1, <2>2
<1>9. Len(v) \in Nat /\ a + Len(v) = Len(u) + 1 /\ a + Len(v) <= Len(u) + 1 BY <1>1, <1>2, <1>3, <1>7
<1>10. Raw(u, v, a) BY <1>1, <1>3, <1>8, <1>9 DEF Raw
<1> QED BY <1>2, <1>3, <1>6, <1>9, <1>10 DEF z, l, n, u, v

\* The application sends.
LEMMA AppKept ==
  ASSUME KaHolds(ka), AppRequests
  PROVE  KaHolds(ka')
<1> DEFINE put == ka.http_keep_alive_pending_buf_  m == ka.http_keep_alive_remaining_bytes_
           gone == Tokens(ka.out) \o ka.pending_data_
<1>1. /\ ka \in Connection /\ ~ka.closed /\ ka.http_keep_alive_previous_buf_ = << >> /\ Stage(ka)
      /\ OutRight(ka.out) /\ Fit(ka.pending_data_, ka.host) /\ ka.sent \in Seq(RequestToken) /\ ka.in \in Seq(RequestToken)
      /\ m \in Nat /\ put \in Seq(RequestToken) /\ Len(put) \in Nat
  BY LenProperties DEF KaHolds, Connection
<1>2. PICK g \in Nat :
           /\ Whole(ka.sent) /\ Stands(ka.sent, gone, 1, g)
           /\ Raw(ka.sent, put, g) /\ Raw(ka.sent, ka.in, g + Len(put))
           /\ g + Len(put) + Len(ka.in) = Len(ka.sent) + 1
           /\ Owes(ka.sent, g, m, ka.host) /\ Even(put) /\ (put # << >> => m = 0)
  BY KeptAt
<1> DEFINE r == IF ka.sent = << >> THEN 1 ELSE ka.sent[Len(ka.sent)].request + 1
<1>3. PICK host \in Hosts, body \in 0 .. MaxBody :
        ka' = [ka EXCEPT !.sent = @ \o Request(Len(ka.sent), r, host, body),
                         !.in = @ \o Request(Len(ka.sent), r, host, body)]
  BY DEF AppRequests
<1>4. r \in Nat
  <2>1. CASE ka.sent = << >> BY <2>1
  <2>2. CASE ka.sent # << >>
    <3>1. Len(ka.sent) \in 1 .. Len(ka.sent) BY <2>2, <1>1, LenProperties, EmptySeq
    <3>2. ka.sent[Len(ka.sent)] \in RequestToken BY <3>1, <1>1, LenProperties
    <3>3. ka.sent[Len(ka.sent)].request \in Nat BY <3>2 DEF RequestToken
    <3> QED BY <2>2, <3>3
  <2> QED BY <2>1, <2>2
<1>5. body \in Nat BY RequestsAssumption
<1> HIDE DEF r
<1> DEFINE q == Request(Len(ka.sent), r, host, body)  u == ka.sent \o q  v == ka.in \o q
           k == [ka EXCEPT !.sent = u, !.in = v]
<1>6. ka' = k BY <1>1, <1>3 DEF Connection
<1>7. Len(ka.sent) \in Nat BY <1>1, LenProperties
<1>8. Whole(u) /\ q \in Seq(RequestToken) /\ Len(q) \in Nat \ {0} /\ q[1].part = Head1
  BY <1>2, <1>4, <1>5, WholeGrows
<1> HIDE DEF q
<1>10. /\ v \in Seq(RequestToken) /\ Raw(u, v, g + Len(put)) /\ (g + Len(put)) + Len(v) = Len(u) + 1
       /\ Continues(u, ka.sent) /\ Len(u) = Len(ka.sent) + Len(q)
  BY <1>1, <1>2, <1>8, UnreadGrows
<1>20. /\ u \in Seq(RequestToken) /\ \A i \in 1 .. Len(q) : u[Len(ka.sent) + i] = q[i]
  <2>1. ka.sent \in Seq(RequestToken) /\ q \in Seq(RequestToken) BY <1>1, <1>8
  <2> QED BY ONLY <2>1, ConcatIs
<1> HIDE DEF u, v, gone
<1>11. Raw(u, put, g) /\ Stands(u, gone, 1, g) BY <1>2, <1>10, RawGrows, StandsGrows
<1>12. ASSUME NEW p, Boundary(ka.sent, p) PROVE Boundary(u, p)
  <2>1. 1 \in 1 .. Len(q) /\ Len(q) \in Nat \ {0} BY <1>8
  <2>2. u[Len(ka.sent) + 1].part = Head1 BY <2>1, <1>8, <1>20
  <2>3. \A i \in 1 .. Len(ka.sent) : u[i] = ka.sent[i] BY <1>10 DEF Continues
  <2> QED BY <1>1, <1>10, <1>12, <1>20, <2>1, <2>2, <2>3, BoundaryGrows
<1>13. Owes(u, g, m, ka.host)
  <2>1. ASSUME NEW j \in 0 .. m - 1
        PROVE  g + j <= Len(u) /\ u[g + j].part > Head2 /\ u[g + j].host = ka.host
    <3>1. g + j <= Len(ka.sent) /\ ka.sent[g + j].part > Head2 /\ ka.sent[g + j].host = ka.host BY <1>2 DEF Owes
    <3>2. g # 0 BY <1>2 DEF Raw
    <3>3. g + j \in 1 .. Len(ka.sent) BY <1>1, <1>7, <3>1, <3>2
    <3>4. u[g + j] = ka.sent[g + j] /\ g + j <= Len(u) BY <1>10, <3>3 DEF Continues
    <3> QED BY <3>1, <3>4
  <2>2. Boundary(u, g + m) BY <1>2, <1>12 DEF Owes
  <2> QED BY <2>1, <2>2 DEF Owes
<1>14. k \in Connection BY <1>1, <1>10, <1>20 DEF Connection
<1>15. /\ ~k.closed /\ k.http_keep_alive_previous_buf_ = << >> /\ k.sent = u /\ k.in = v
       /\ k.reads = ka.reads /\ k.channel = ka.channel /\ k.host = ka.host
       /\ k.http_is_keep_alive_ = ka.http_is_keep_alive_ /\ k.pending_data_ = ka.pending_data_
       /\ k.http_keep_alive_pending_buf_ = put /\ k.out = ka.out /\ k.http_keep_alive_remaining_bytes_ = m
  BY <1>1 DEF Connection
<1> HIDE DEF k
<1>16. Stage(k) BY <1>1, <1>15 DEF Stage
<1>17. KaHolds(k) BY <1>1, <1>2, <1>8, <1>10, <1>11, <1>13, <1>14, <1>15, <1>16, KeptParts DEF gone
<1> QED BY <1>6, <1>17

\* It holds at the beginning.
LEMMA KaInitial == ASSUME KaInit PROVE KaHolds(ka)
<1>1. ka \in Connection BY DEF KaInit, Connection
<1>2. /\ ~ka.closed /\ ka.http_keep_alive_previous_buf_ = << >> /\ Stage(ka) /\ ka.out = << >> /\ ka.pending_data_ = << >>
      /\ ka.http_keep_alive_pending_buf_ = << >> /\ ka.sent = << >> /\ ka.in = << >>
      /\ ka.http_keep_alive_remaining_bytes_ = 0
  BY DEF KaInit, Stage
<1>3. << >> \in Seq(RequestToken) /\ Len(<< >>) = 0 OBVIOUS
<1>4. Boundary(<< >>, 1) BY <1>3 DEF Boundary
<1>5. Whole(<< >>) BY <1>3, <1>4 DEF Whole
<1>6. Raw(<< >>, << >>, 1) BY <1>3 DEF Raw
<1>7. Owes(<< >>, 1, 0, ka.host) BY <1>4, OwesNone
<1>8. Even(<< >>) /\ Fit(<< >>, ka.host) /\ OutRight(<< >>) BY <1>3 DEF Even, Fit, OutRight
<1>9. Stands(<< >>, Tokens(<< >>) \o << >>, 1, 1)
  <2>1. << >> \in Seq(Gone) /\ Tokens(<< >>) = << >> BY DEF Tokens
  <2>2. Stands(<< >>, << >>, 1, 1) BY StandsEmpty
  <2> QED BY <2>1, <2>2, StandsNone
<1>10. 1 + Len(<< >>) = 1 /\ 1 + Len(<< >>) + Len(<< >>) = Len(<< >>) + 1 BY <1>3
<1> QED BY <1>1, <1>2, <1>5, <1>6, <1>7, <1>8, <1>9, <1>10, KeptParts

\* The invariant says that the requests are kept.
LEMMA KaHoldsKeeps == ASSUME KaHolds(ka) PROVE RequestsKept
<1> DEFINE put == ka.http_keep_alive_pending_buf_  m == ka.http_keep_alive_remaining_bytes_
           gone == Tokens(ka.out) \o ka.pending_data_
           under == gone \o put \o << >> \o ka.in
<1>1. /\ ka \in Connection /\ ka.http_keep_alive_previous_buf_ = << >> /\ OutRight(ka.out)
  BY DEF KaHolds
<1>2. PICK g \in Nat :
           /\ Whole(ka.sent) /\ Stands(ka.sent, gone, 1, g)
           /\ Raw(ka.sent, put, g) /\ Raw(ka.sent, ka.in, g + Len(put))
           /\ g + Len(put) + Len(ka.in) = Len(ka.sent) + 1
  BY KeptAt
<1>3. Stands(ka.sent, put, g, g + Len(put)) BY <1>2, RawStands
<1>4. Stands(ka.sent, ka.in, g + Len(put), Len(ka.sent) + 1) BY <1>2, RawStands
<1>5. Stands(ka.sent, gone \o put, 1, g + Len(put)) BY <1>2, <1>3, StandsJoin
<1>6. Stands(ka.sent, gone \o put \o << >>, 1, g + Len(put)) BY <1>5, StandsNone
<1>7. Stands(ka.sent, under, 1, Len(ka.sent) + 1) BY <1>4, <1>6, StandsJoin
<1>8. RequestsKept <=>
        LET w == Tokens(ka.out) \o ka.pending_data_ \o put \o << >> \o ka.in
            end(i) == IF i = 0 THEN 1 ELSE EndOf(w[i])
        IN /\ \A i \in DOMAIN ka.out : /\ ka.out[i].to = ka.out[i].token.host
                                       /\ ka.out[i].token.part \notin {Head1, Head2}
           /\ ~ka.closed =>
                /\ \A i \in 1 .. Len(w) : w[i].place = end(i - 1) /\ Original(w[i]) = ka.sent[w[i].place]
                /\ end(Len(w)) = Len(ka.sent) + 1
  BY <1>1 DEF RequestsKept, Tokens
<1> HIDE DEF under
<1> DEFINE end(i) == IF i = 0 THEN 1 ELSE EndOf(under[i])
<1>9. \A i \in DOMAIN ka.out : ka.out[i].to = ka.out[i].token.host /\ ka.out[i].token.part \notin {Head1, Head2}
  <2>1. ka.out \in Seq(Gone) BY <1>1 DEF Connection, Gone
  <2>2. DOMAIN ka.out = 1 .. Len(ka.out) BY <2>1, LenProperties
  <2> QED BY <1>1, <2>2 DEF OutRight
<1>10. ASSUME NEW i \in 1 .. Len(under) PROVE under[i].place = end(i - 1) /\ Original(under[i]) = ka.sent[under[i].place]
  <2>1. under \in Seq(RequestToken) BY <1>7 DEF Stands
  <2>2. i \in Nat /\ (i = 1 <=> i - 1 = 0) BY <2>1, LenProperties
  <2>3. under[i].place = (IF i = 1 THEN 1 ELSE EndOf(under[i - 1])) /\ Original(under[i]) = ka.sent[under[i].place]
    BY <1>7 DEF Stands
  <2> QED BY <2>2, <2>3
<1>11. end(Len(under)) = Len(ka.sent) + 1 BY <1>7 DEF Stands
<1> QED BY <1>8, <1>9, <1>10, <1>11 DEF under

\* Every request goes out to its host with its head rewritten, and none is lost,
\* doubled or out of order (ReadMethodSelect, OnReadHttpRequestAfterReuse and
\* GetNextUpstreamBuf of the client), as long as no read ends inside a head and
\* nothing comes while the channel to another host is opened.
THEOREM RequestsCorrect ==
  ASSUME ~SplitHeads, ~SendsWhileReplaced
  PROVE  KaSpec => []RequestsKept
<1>1. KaInit => KaInv BY KaInitial DEF KaInv
<1>2. KaInv /\ [KaNext]_ka => KaInv'
  <2> SUFFICES ASSUME KaInv, [KaNext]_ka PROVE KaInv' OBVIOUS
  <2>1. KaHolds(ka) BY DEF KaInv
  <2>2. ASSUME KaHolds(ka') PROVE KaInv' BY <2>2 DEF KaInv
  <2>3. CASE AppRequests BY <2>1, <2>2, <2>3, AppKept
  <2>4. CASE ReadFirstRequest BY <2>1, <2>2, <2>4, FirstKept
  <2>5. CASE channel_connected BY <2>1, <2>2, <2>5, ConnectedKept
  <2>6. CASE GetNextUpstreamBuf BY <2>1, <2>2, <2>6, NextUpstreamKept
  <2>7. CASE UNCHANGED ka BY <2>1, <2>2, <2>7
  <2> QED BY <2>3, <2>4, <2>5, <2>6, <2>7 DEF KaNext
<1>3. KaInv => RequestsKept BY KaHoldsKeeps DEF KaInv
<1> QED BY <1>1, <1>2, <1>3, PTL DEF KaSpec
=============================================================================
