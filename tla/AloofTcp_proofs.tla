--------------------------- MODULE AloofTcp_proofs ---------------------------
(***************************************************************************)
(* What TLAPS proves of the messages over TCP, for any payloads, replies,  *)
(* buffer and capacity, and any number of connections.                     *)
(*                                                                         *)
(* The argument.  On each connection and in each direction, what one side  *)
(* has read of a header, what is in the connection and what the other side *)
(* has still to write make one stream (Stream).  It is the start of what   *)
(* Pack makes of the messages that were sent and not taken, and all of it  *)
(* as long as nothing was cut off (Framed).  A piece that moves and a      *)
(* header that is read leave the stream as it is; a message that begins    *)
(* goes to its end (FramedMore); a close and a loss cut it (FramedCut);    *)
(* and a whole body read is the next message (FramedFirst).  Where each    *)
(* message ends in the stream is a function that the invariant says exists *)
(* (Ends), so that nothing is said by recursion over the messages.         *)
(*                                                                         *)
(* Upwards this is said of a connection as long as no thread has written   *)
(* between the bytes of another (mixed): then one message at most has      *)
(* begun (AloneInv), and what is left of it is the end of the stream       *)
(* (Remains).                                                              *)
(***************************************************************************)
EXTENDS AloofTcp, SequenceTheorems, TLAPS

-----------------------------------------------------------------------------
(* The two bytes of a size. *)

LEMMA HeaderBytes ==
  ASSUME NEW a \in 0..Base-1, NEW b \in 0..Base-1
  PROVE  /\ a + Base * b \in 0..Base*Base-1
         /\ (a + Base * b) % Base = a
         /\ ((a + Base * b) \div Base) % Base = b
BY SizesAssumption, SMTT(30)

LEMMA HeaderSize ==
  ASSUME NEW n \in Nat, n < Base * Base
  PROVE  (n % Base) + Base * ((n \div Base) % Base) = n
BY SizesAssumption, SMTT(30)

LEMMA HeaderType ==
  ASSUME NEW n \in Nat
  PROVE  (n % Base) \in 0..Base-1 /\ ((n \div Base) % Base) \in 0..Base-1
BY SizesAssumption, SMTT(30)
-----------------------------------------------------------------------------
(* Messages in a stream of bytes. *)

\* As far as S has bytes there, those from the a-th on are what Pack makes of m.
Piece(a, S, m) ==
    \A k \in 1..2+Len(m) : a + k \in 1..Len(S) => S[a + k] = Pack(m)[k]

\* at says where each message of ms from the one behind the p-th ends in a stream
\* of what Pack makes of them, and S is a prefix of that stream.
Ends(at, S, ms, p) ==
    /\ at[p] = 0
    /\ \A i \in p+1..Len(ms) : /\ at[i] = at[i-1] + 2 + Len(ms[i])
                              /\ Piece(at[i-1], S, ms[i])
    /\ \A i \in p..Len(ms) : at[i] <= at[Len(ms)]
    /\ Len(S) <= at[Len(ms)]

\* S is such a prefix, and all of the stream if it is exact.
Framed(S, ms, p, exact) ==
    \E at \in [p..Len(ms) -> Int] :
        Ends(at, S, ms, p) /\ (exact => Len(S) = at[Len(ms)])

LEMMA PackType ==
  ASSUME NEW m \in Bytes
  PROVE  /\ Pack(m) \in Bytes /\ Len(Pack(m)) = 2 + Len(m)
         /\ Pack(m)[1] = Len(m) % Base /\ Pack(m)[2] = (Len(m) \div Base) % Base
         /\ \A k \in 1..Len(m) : Pack(m)[2 + k] = m[k]
<1> DEFINE a == Len(m) % Base
           b == (Len(m) \div Base) % Base
<1>1. m \in Seq(0..Base-1) /\ Len(m) \in Nat
  BY DEF Bytes
<1>2. a \in 0..Base-1 /\ b \in 0..Base-1
  BY <1>1, HeaderType
<1> HIDE DEF a, b
<1>3. <<a, b>> \in Seq(0..Base-1) /\ Len(<<a, b>>) = 2
  BY <1>2
<1>4. Pack(m) = <<a, b>> \o m
  BY DEF Pack, a, b
<1> QED
  BY <1>1, <1>2, <1>3, <1>4 DEF Bytes, a, b

LEMMA Concat ==
  ASSUME NEW s \in Bytes, NEW t \in Bytes
  PROVE  /\ s \o t \in Bytes /\ Len(s \o t) = Len(s) + Len(t)
         /\ Len(s) \in Nat /\ Len(t) \in Nat
         /\ \A j \in 1..Len(s) : (s \o t)[j] = s[j]
         /\ \A j \in 1..Len(t) : (s \o t)[Len(s) + j] = t[j]
BY DEF Bytes

LEMMA PieceCut ==
  ASSUME NEW a \in Int, NEW S \in Bytes, NEW T \in Bytes, NEW m \in Bytes, Piece(a, S, m),
         Len(T) <= Len(S), \A j \in 1..Len(T) : T[j] = S[j]
  PROVE  Piece(a, T, m)
<1>1. Len(S) \in Nat /\ Len(T) \in Nat /\ Len(m) \in Nat
  BY DEF Bytes
<1> QED
  BY <1>1 DEF Piece

LEMMA PieceKept ==
  ASSUME NEW a \in Int, NEW S \in Bytes, NEW T \in Bytes, NEW m \in Bytes, Piece(a, S, m),
         a + 2 + Len(m) <= Len(S), \A j \in 1..Len(S) : T[j] = S[j]
  PROVE  Piece(a, T, m)
<1>1. Len(S) \in Nat /\ Len(T) \in Nat /\ Len(m) \in Nat
  BY DEF Bytes
<1>2. ASSUME NEW k \in 1..2+Len(m), a + k \in 1..Len(T) PROVE T[a + k] = Pack(m)[k]
  <2>1. a + k \in 1..Len(S)
    BY <1>1, <1>2
  <2> QED
    BY <2>1 DEF Piece
<1> QED
  BY <1>2 DEF Piece

LEMMA PieceMoved ==
  ASSUME NEW a \in Int, NEW S \in Bytes, NEW T \in Bytes, NEW m \in Bytes, Piece(a, S, m),
         NEW n \in Nat, Len(S) = n + Len(T), \A j \in 1..Len(T) : T[j] = S[n + j]
  PROVE  Piece(a - n, T, m)
<1>1. Len(S) \in Nat /\ Len(T) \in Nat /\ Len(m) \in Nat
  BY DEF Bytes
<1>2. ASSUME NEW k \in 1..2+Len(m), (a - n) + k \in 1..Len(T)
      PROVE  T[(a - n) + k] = Pack(m)[k]
  <2>1. a + k \in 1..Len(S) /\ n + ((a - n) + k) = a + k
    BY <1>1, <1>2
  <2>2. S[a + k] = Pack(m)[k]
    BY <2>1 DEF Piece
  <2> QED
    BY <1>2, <2>1, <2>2
<1> QED
  BY <1>2 DEF Piece

\* What Ends says of one message.
LEMMA EndsAt ==
  ASSUME NEW S, NEW ms \in Seq(Bytes), NEW p \in 0..Len(ms),
         NEW at \in [p..Len(ms) -> Int], Ends(at, S, ms, p), NEW i \in p+1..Len(ms)
  PROVE  /\ i \in 1..Len(ms) /\ i - 1 \in p..Len(ms) /\ i \in p..Len(ms)
         /\ ms[i] \in Bytes /\ Len(ms[i]) \in Nat
         /\ at[i] \in Int /\ at[i-1] \in Int /\ at[Len(ms)] \in Int
         /\ at[i] = at[i-1] + 2 + Len(ms[i]) /\ at[i] <= at[Len(ms)]
         /\ Piece(at[i-1], S, ms[i])
<1>1. i \in 1..Len(ms) /\ i - 1 \in p..Len(ms) /\ i \in p..Len(ms) /\ Len(ms) \in p..Len(ms)
  OBVIOUS
<1>2. ms[i] \in Bytes
  BY <1>1
<1>3. Len(ms[i]) \in Nat
  BY <1>2 DEF Bytes
<1> QED
  BY <1>1, <1>2, <1>3 DEF Ends

LEMMA FramedEmpty ==
  ASSUME NEW ms \in Seq(Bytes), NEW e \in BOOLEAN
  PROVE  Framed(<<>>, ms, Len(ms), e)
<1> DEFINE at == [i \in Len(ms)..Len(ms) |-> 0]
<1>1. at \in [Len(ms)..Len(ms) -> Int] /\ at[Len(ms)] = 0
  OBVIOUS
<1> HIDE DEF at
<1>2. Ends(at, <<>>, ms, Len(ms))
  BY <1>1 DEF Ends
<1> QED
  BY <1>1, <1>2 DEF Framed

\* A stream that is cut.
LEMMA FramedCut ==
  ASSUME NEW S \in Bytes, NEW T \in Bytes, NEW ms \in Seq(Bytes), NEW p \in 0..Len(ms),
         NEW e \in BOOLEAN, Framed(S, ms, p, e),
         Len(T) <= Len(S), \A j \in 1..Len(T) : T[j] = S[j]
  PROVE  Framed(T, ms, p, FALSE)
<1>1. PICK at \in [p..Len(ms) -> Int] : Ends(at, S, ms, p)
  BY DEF Framed
<1>2. Len(S) \in Nat /\ Len(T) \in Nat /\ at[Len(ms)] \in Int
  <2>1. Len(ms) \in p..Len(ms)
    OBVIOUS
  <2>2. at[Len(ms)] \in Int
    BY <2>1
  <2>3. Len(S) \in Nat /\ Len(T) \in Nat
    BY DEF Bytes
  <2> QED
    BY <2>2, <2>3
<1>3. ASSUME NEW i \in p+1..Len(ms)
      PROVE  at[i] = at[i-1] + 2 + Len(ms[i]) /\ Piece(at[i-1], T, ms[i])
  BY <1>1, EndsAt, PieceCut
<1>4. Len(T) <= at[Len(ms)]
  BY <1>1, <1>2 DEF Ends
<1>5. Ends(at, T, ms, p)
  BY <1>1, <1>3, <1>4 DEF Ends
<1> QED
  BY <1>5 DEF Framed

\* A message more.
LEMMA FramedMore ==
  ASSUME NEW S \in Bytes, NEW ms \in Seq(Bytes), NEW p \in 0..Len(ms), NEW m \in Bytes,
         Framed(S, ms, p, TRUE)
  PROVE  Framed(S \o Pack(m), Append(ms, m), p, TRUE)
<1>1. PICK at \in [p..Len(ms) -> Int] : Ends(at, S, ms, p) /\ Len(S) = at[Len(ms)]
  BY DEF Framed
<1> DEFINE new == Append(ms, m)
           T == S \o Pack(m)
           to == [i \in p..Len(ms)+1 |-> IF i <= Len(ms) THEN at[i]
                                         ELSE Len(S) + 2 + Len(m)]
<1>2. /\ Len(S) \in Nat /\ Len(ms) \in Nat /\ Len(m) \in Nat
      /\ Len(Pack(m)) = 2 + Len(m)
      /\ T \in Bytes /\ Len(T) = Len(S) + 2 + Len(m)
      /\ \A j \in 1..Len(S) : T[j] = S[j]
      /\ \A j \in 1..2+Len(m) : T[Len(S) + j] = Pack(m)[j]
  <2>1. Pack(m) \in Bytes /\ Len(Pack(m)) = 2 + Len(m)
    BY PackType
  <2>2. Len(ms) \in Nat /\ Len(m) \in Nat
    BY DEF Bytes
  <2> HIDE DEF T
  <2>3. /\ T \in Bytes /\ Len(T) = Len(S) + Len(Pack(m)) /\ Len(S) \in Nat
        /\ \A j \in 1..Len(S) : T[j] = S[j]
        /\ \A j \in 1..Len(Pack(m)) : T[Len(S) + j] = Pack(m)[j]
    BY <2>1, Concat DEF T
  <2> QED
    BY <2>1, <2>2, <2>3
<1>3. /\ new \in Seq(Bytes) /\ Len(new) = Len(ms) + 1 /\ new[Len(new)] = m
      /\ \A i \in 1..Len(ms) : new[i] = ms[i]
  OBVIOUS
<1> HIDE DEF T
<1>4. /\ Len(ms) \in p..Len(ms) /\ p \in p..Len(ms) /\ at[p] = 0
      /\ \A i \in p..Len(ms) : at[i] \in Int /\ at[i] <= Len(S)
  BY <1>1, <1>2 DEF Ends
<1>5. to \in [p..Len(new) -> Int] /\ to[Len(new)] = Len(T)
  BY <1>2, <1>3, <1>4
<1>6. \A i \in p..Len(ms) : to[i] = at[i]
  BY <1>2
<1> HIDE DEF new, to
<1>7. ASSUME NEW i \in p+1..Len(new)
      PROVE  to[i] = to[i-1] + 2 + Len(new[i]) /\ Piece(to[i-1], T, new[i])
  <2>1. CASE i = Len(new)
    <3>1. i - 1 = Len(ms) /\ to[i-1] = Len(S)
      BY <1>1, <1>2, <1>3, <1>4, <1>6, <2>1
    <3>2. Piece(Len(S), T, m)
      BY <1>2 DEF Piece
    <3> QED
      BY <1>2, <1>3, <1>5, <2>1, <3>1, <3>2
  <2>2. CASE i # Len(new)
    <3>1. i \in p+1..Len(ms)
      BY <1>2, <1>3, <2>2
    <3>2. /\ i \in 1..Len(ms) /\ i - 1 \in p..Len(ms) /\ i \in p..Len(ms)
          /\ ms[i] \in Bytes /\ Len(ms[i]) \in Nat
          /\ at[i] \in Int /\ at[i-1] \in Int
          /\ at[i] = at[i-1] + 2 + Len(ms[i]) /\ Piece(at[i-1], S, ms[i])
      BY <1>1, <3>1, EndsAt
    <3>3. to[i] = at[i] /\ to[i-1] = at[i-1] /\ new[i] = ms[i] /\ at[i] <= Len(S)
      BY <1>3, <1>4, <1>6, <3>2
    <3>4. at[i-1] + 2 + Len(ms[i]) <= Len(S)
      BY <3>2, <3>3
    <3>5. Piece(at[i-1], T, ms[i])
      BY <1>2, <3>2, <3>4, PieceKept
    <3> QED
      BY <3>2, <3>3, <3>5
  <2> QED
    BY <2>1, <2>2
<1>8. \A i \in p..Len(new) : to[i] <= to[Len(new)]
  <2> SUFFICES ASSUME NEW i \in p..Len(new) PROVE to[i] <= to[Len(new)]
    OBVIOUS
  <2>1. CASE i = Len(new)
    BY <1>2, <1>5, <2>1
  <2>2. CASE i # Len(new)
    <3>1. i \in p..Len(ms)
      BY <1>2, <1>3, <2>2
    <3> QED
      BY <1>2, <1>4, <1>5, <1>6, <3>1
  <2> QED
    BY <2>1, <2>2
<1>9. to[p] = 0 /\ Len(T) <= to[Len(new)]
  BY <1>2, <1>4, <1>5, <1>6
<1>10. Ends(to, T, new, p)
  BY <1>7, <1>8, <1>9 DEF Ends
<1>11. Framed(T, new, p, TRUE)
  BY <1>5, <1>10 DEF Framed
<1> QED
  BY <1>11 DEF new, T

\* S starts with a header, which says the size of got, and got; rest follows.
Starts(S, got, rest) ==
    /\ Len(S) >= 2 /\ Len(got) = Unpack(S) /\ Len(S) = 2 + Len(got) + Len(rest)
    /\ \A j \in 1..Len(got) : got[j] = S[2 + j]
    /\ \A j \in 1..Len(rest) : rest[j] = S[2 + Len(got) + j]

\* The first message, in a stream that has all of it.
LEMMA FramedFirst ==
  ASSUME NEW S \in Bytes, NEW ms \in Seq(Bytes), NEW p \in 0..Len(ms), NEW e \in BOOLEAN,
         Framed(S, ms, p, e),
         \A i \in 1..Len(ms) : Len(ms[i]) < Base * Base,
         NEW got \in Bytes, NEW rest \in Bytes, Starts(S, got, rest)
  PROVE  /\ p < Len(ms) /\ got = ms[p + 1]
         /\ Framed(rest, ms, p + 1, e)
<1> DEFINE size == Len(got)
<1>0. /\ size \in Nat /\ Len(S) >= 2 /\ size = Unpack(S) /\ Len(S) = 2 + size + Len(rest)
      /\ \A j \in 1..size : got[j] = S[2 + j]
      /\ \A j \in 1..Len(rest) : rest[j] = S[2 + size + j]
  BY DEF Starts, Bytes
<1>a. Len(got) = size
  OBVIOUS
<1> HIDE DEF size
<1>1. PICK at \in [p..Len(ms) -> Int] :
        Ends(at, S, ms, p) /\ (e => Len(S) = at[Len(ms)])
  BY DEF Framed
<1>2. Len(S) \in Nat /\ Len(ms) \in Nat /\ Len(rest) \in Nat
  BY DEF Bytes
<1>3. at[p] = 0 /\ Len(S) <= at[Len(ms)]
  BY <1>1 DEF Ends
<1>4. p < Len(ms)
  BY <1>0, <1>2, <1>3
<1>5. /\ p + 1 \in p+1..Len(ms) /\ (p + 1) - 1 = p /\ p + 1 \in p..Len(ms)
      /\ p + 1 \in 1..Len(ms)
  BY <1>2, <1>4
<1> DEFINE m == ms[p + 1]
<1>6. m \in Bytes /\ Len(m) \in Nat /\ at[p + 1] = 2 + Len(m) /\ Piece(0, S, m)
  <2> DEFINE q == p + 1
  <2>1. /\ ms[q] \in Bytes /\ Len(ms[q]) \in Nat
        /\ at[q] = at[q-1] + 2 + Len(ms[q]) /\ Piece(at[q-1], S, ms[q])
    <3> HIDE DEF q
    <3> QED
      BY <1>1, <1>5, EndsAt DEF q
  <2>2. at[q-1] = 0
    BY <1>3, <1>5
  <2>3. at[q] = 2 + Len(ms[q])
    BY <2>1, <2>2
  <2> QED
    BY <2>1, <2>2, <2>3
<1>7. Len(m) < Base * Base
  BY <1>5
<1> HIDE DEF m
<1>8. \A k \in 1..2+Len(m) : k \in 1..Len(S) => S[k] = Pack(m)[k]
  <2> SUFFICES ASSUME NEW k \in 1..2+Len(m), k \in 1..Len(S) PROVE S[k] = Pack(m)[k]
    OBVIOUS
  <2>1. 0 + k = k
    BY <1>6
  <2> QED
    BY <1>6, <2>1 DEF Piece
<1>9. size = Len(m)
  <2>1. /\ 1 \in 1..2+Len(m) /\ 2 \in 1..2+Len(m)
        /\ 1 \in 1..Len(S) /\ 2 \in 1..Len(S)
    BY <1>0, <1>2, <1>6
  <2>2. S[1] = Pack(m)[1] /\ S[2] = Pack(m)[2]
    BY <1>8, <2>1
  <2>3. Pack(m)[1] = Len(m) % Base /\ Pack(m)[2] = (Len(m) \div Base) % Base
    BY <1>6, PackType
  <2> QED
    BY <1>0, <1>6, <1>7, <2>2, <2>3, HeaderSize DEF Unpack
<1>10. got = m
  <2>1. \A j \in 1..Len(m) : got[j] = m[j]
    <3> SUFFICES ASSUME NEW j \in 1..Len(m) PROVE got[j] = m[j]
      OBVIOUS
    <3>1. 2 + j \in 1..2+Len(m) /\ 2 + j \in 1..Len(S)
      BY <1>0, <1>2, <1>6, <1>9
    <3>2. S[2 + j] = Pack(m)[2 + j]
      BY <1>8, <3>1
    <3>3. Pack(m)[2 + j] = m[j]
      BY <1>6, PackType
    <3> QED
      BY <1>0, <1>9, <3>2, <3>3
  <2>2. got \in Seq(0..Base-1) /\ m \in Seq(0..Base-1) /\ Len(got) = Len(m)
    BY <1>a, <1>6, <1>9 DEF Bytes
  <2> QED
    BY <2>1, <2>2
<1> DEFINE to == [i \in p+1..Len(ms) |-> at[i] - at[p + 1]]
<1>11. at[p + 1] \in Nat /\ \A i \in p..Len(ms) : at[i] \in Int /\ at[i] <= at[Len(ms)]
  <2>1. at[p + 1] \in Nat
    BY <1>6
  <2>2. \A i \in p..Len(ms) : at[i] \in Int /\ at[i] <= at[Len(ms)]
    BY <1>1 DEF Ends
  <2> QED
    BY <2>1, <2>2
<1>12. /\ to \in [p+1..Len(ms) -> Int]
       /\ \A i \in p+1..Len(ms) : to[i] = at[i] - at[p + 1]
  <2>1. \A i \in p+1..Len(ms) : i \in p..Len(ms)
    BY <1>2
  <2> QED
    BY <1>11, <2>1
<1> HIDE DEF to
<1>13. ASSUME NEW i \in (p+1)+1..Len(ms)
       PROVE  to[i] = to[i-1] + 2 + Len(ms[i]) /\ Piece(to[i-1], rest, ms[i])
  <2>1. i \in p+1..Len(ms) /\ i - 1 \in p+1..Len(ms)
    BY <1>2
  <2>2. /\ ms[i] \in Bytes /\ Len(ms[i]) \in Nat /\ at[i] \in Int /\ at[i-1] \in Int
        /\ at[i] = at[i-1] + 2 + Len(ms[i]) /\ Piece(at[i-1], S, ms[i])
    BY <1>1, <2>1, EndsAt
  <2>3. to[i] = at[i] - at[p + 1] /\ to[i-1] = at[i-1] - at[p + 1]
    BY <1>12, <2>1
  <2>4. /\ Len(S) = at[p + 1] + Len(rest)
        /\ \A j \in 1..Len(rest) : rest[j] = S[at[p + 1] + j]
    BY <1>0, <1>6, <1>9
  <2>5. Piece(at[i-1] - at[p + 1], rest, ms[i])
    BY <1>11, <2>2, <2>4, PieceMoved
  <2>6. to[i] = to[i-1] + 2 + Len(ms[i])
    <3>1. \A x, y \in Int : \A l \in Nat : x = y + 2 + l =>
            x - at[p + 1] = (y - at[p + 1]) + 2 + l
      BY <1>11
    <3>2. at[i] \in Int /\ at[i-1] \in Int /\ Len(ms[i]) \in Nat
      BY <2>2
    <3>3. at[i] = at[i-1] + 2 + Len(ms[i])
      BY <2>2
    <3>4. at[i] - at[p + 1] = (at[i-1] - at[p + 1]) + 2 + Len(ms[i])
      BY <3>1, <3>2, <3>3
    <3> QED
      BY <2>3, <3>4
  <2> QED
    BY <2>3, <2>5, <2>6
<1>14. /\ Len(ms) \in p+1..Len(ms) /\ Len(ms) \in p..Len(ms) /\ p + 1 \in p+1..Len(ms)
  BY <1>2, <1>4, <1>5
<1>15. to[p + 1] = 0 /\ to[Len(ms)] = at[Len(ms)] - at[p + 1]
  BY <1>11, <1>12, <1>14
<1>16. \A i \in p+1..Len(ms) : to[i] <= to[Len(ms)]
  <2> SUFFICES ASSUME NEW i \in p+1..Len(ms) PROVE to[i] <= to[Len(ms)]
    OBVIOUS
  <2>1. i \in p..Len(ms)
    BY <1>2
  <2>2. at[i] \in Int /\ at[Len(ms)] \in Int /\ at[i] <= at[Len(ms)]
    BY <1>11, <1>14, <2>1
  <2>3. to[i] = at[i] - at[p + 1]
    BY <1>12
  <2> QED
    BY <1>11, <1>15, <2>2, <2>3
<1>17. Len(rest) <= to[Len(ms)] /\ (e => Len(rest) = to[Len(ms)])
  BY <1>0, <1>1, <1>2, <1>3, <1>6, <1>9, <1>11, <1>14, <1>15
<1>18. Ends(to, rest, ms, p + 1)
  BY <1>13, <1>15, <1>16, <1>17 DEF Ends
<1>19. Framed(rest, ms, p + 1, e)
  BY <1>12, <1>17, <1>18 DEF Framed
<1> QED
  BY <1>4, <1>10, <1>19 DEF m
-----------------------------------------------------------------------------
(* Streams. *)

\* T is what is left of S when its end is cut off.
Cut(T, S) == Len(T) <= Len(S) /\ \A j \in 1..Len(T) : T[j] = S[j]

\* The two bytes that say n.
Header(n) == <<n % Base, (n \div Base) % Base>>

LEMMA HeaderIs ==
  ASSUME NEW n \in Nat
  PROVE  /\ Header(n) \in Bytes /\ Len(Header(n)) = 2
         /\ Header(n)[1] = n % Base /\ Header(n)[2] = (n \div Base) % Base
<1> DEFINE a == n % Base
           b == (n \div Base) % Base
<1>1. a \in 0..Base-1 /\ b \in 0..Base-1
  BY HeaderType
<1>2. Header(n) = <<a, b>>
  BY DEF Header
<1> HIDE DEF a, b
<1>3. Header(n) \in Bytes /\ Len(Header(n)) = 2 /\ Header(n)[1] = a /\ Header(n)[2] = b
  BY <1>1, <1>2 DEF Bytes
<1> QED
  BY <1>3 DEF a, b

\* A read takes the first bytes and leaves the others.
LEMMA Takes ==
  ASSUME NEW s \in Bytes, NEW n \in Nat
  PROVE  /\ Taken(s, n) \in Bytes /\ Left(s, n) \in Bytes
         /\ Len(Taken(s, n)) = (IF n < Len(s) THEN n ELSE Len(s))
         /\ Len(s) = Len(Taken(s, n)) + Len(Left(s, n))
         /\ Cut(Taken(s, n), s)
         /\ \A j \in 1..Len(Left(s, n)) : Left(s, n)[j] = s[Len(Taken(s, n)) + j]
<1> DEFINE k == IF n < Len(s) THEN n ELSE Len(s)
           t == Taken(s, n)
           l == Left(s, n)
<1>1. Len(s) \in Nat /\ k \in 0..Len(s) /\ s \in Seq(0..Base-1)
  BY DEF Bytes
<1>2. t = SubSeq(s, 1, k) /\ l = SubSeq(s, n + 1, Len(s))
  BY DEF Taken, Left
<1> HIDE DEF t, l
<1>3. \A i \in 1..Len(s) : s[i] \in 0..Base-1
  BY <1>1, ElementOfSeq
<1>4. /\ t \in Seq(0..Base-1) /\ Len(t) = k
      /\ \A j \in 1..k : t[j] = s[j]
  <2> HIDE DEF k
  <2>1. \A i \in 1..k : s[i] \in 0..Base-1
    BY <1>1, <1>3
  <2>2. /\ SubSeq(s, 1, k) \in Seq(0..Base-1)
        /\ Len(SubSeq(s, 1, k)) = (IF 1 <= k THEN k-1+1 ELSE 0)
        /\ \A i \in 1 .. k-1+1 : SubSeq(s, 1, k)[i] = s[1+i-1]
    BY <1>1, <2>1, SubSeqProperties
  <2> QED
    BY <1>1, <1>2, <2>2
<1>5. /\ l \in Seq(0..Base-1) /\ Len(l) = Len(s) - k
      /\ \A j \in 1..Len(s)-k : l[j] = s[k + j]
  <2>1. \A i \in n+1..Len(s) : s[i] \in 0..Base-1
    BY <1>1, <1>3
  <2>2. /\ SubSeq(s, n+1, Len(s)) \in Seq(0..Base-1)
        /\ Len(SubSeq(s, n+1, Len(s))) = (IF n+1 <= Len(s) THEN Len(s)-(n+1)+1 ELSE 0)
        /\ \A i \in 1 .. Len(s)-(n+1)+1 : SubSeq(s, n+1, Len(s))[i] = s[(n+1)+i-1]
    BY <1>1, <2>1, SubSeqProperties
  <2>3. CASE n < Len(s)
    <3>1. k = n
      BY <2>3
    <3> QED
      BY <1>1, <1>2, <2>2, <2>3, <3>1
  <2>4. CASE ~(n < Len(s))
    <3>1. k = Len(s)
      BY <2>4
    <3> QED
      BY <1>1, <1>2, <2>2, <2>4, <3>1
  <2> QED
    BY <2>3, <2>4
<1> HIDE DEF k
<1>6. Cut(t, s) /\ Len(s) = Len(t) + Len(l)
  BY <1>1, <1>4, <1>5 DEF Cut
<1>7. \A j \in 1..Len(l) : l[j] = s[Len(t) + j]
  BY <1>4, <1>5
<1>8. t \in Bytes /\ l \in Bytes
  BY <1>4, <1>5 DEF Bytes
<1> QED
  BY <1>4, <1>6, <1>7, <1>8 DEF t, l, k

LEMMA TakesAll ==
  ASSUME NEW s \in Bytes, NEW n \in Nat
  PROVE  Taken(s, n) \o Left(s, n) = s
<1> DEFINE t == Taken(s, n)
           l == Left(s, n)
<1>1. /\ t \in Bytes /\ l \in Bytes /\ Len(s) = Len(t) + Len(l)
      /\ Cut(t, s) /\ \A j \in 1..Len(l) : l[j] = s[Len(t) + j]
  BY Takes
<1> HIDE DEF t, l
<1> DEFINE u == t \o l
<1>2. /\ u \in Bytes /\ Len(u) = Len(t) + Len(l) /\ Len(t) \in Nat /\ Len(l) \in Nat
      /\ \A j \in 1..Len(t) : u[j] = t[j]
      /\ \A j \in 1..Len(l) : u[Len(t) + j] = l[j]
  BY <1>1, Concat
<1> HIDE DEF u
<1>3. ASSUME NEW i \in 1..Len(u) PROVE u[i] = s[i]
  <2>1. CASE i \in 1..Len(t)
    BY <1>1, <1>2, <2>1 DEF Cut
  <2>2. CASE i \notin 1..Len(t)
    <3>1. i - Len(t) \in 1..Len(l) /\ Len(t) + (i - Len(t)) = i
      BY <1>2, <2>2
    <3>2. u[Len(t) + (i - Len(t))] = l[i - Len(t)] /\ l[i - Len(t)] = s[Len(t) + (i - Len(t))]
      BY <1>1, <1>2, <3>1
    <3> QED
      BY <3>1, <3>2
  <2> QED
    BY <2>1, <2>2
<1>4. u \in Seq(0..Base-1) /\ s \in Seq(0..Base-1) /\ Len(u) = Len(s)
  BY <1>1, <1>2 DEF Bytes
<1>5. u = s
  BY <1>3, <1>4, SeqEqual
<1> QED
  BY <1>5 DEF u, t, l

\* What has been read of a header, what is in the connection and what is still to be
\* written make a stream.
Stream(h, b, t) == (h \o b) \o t

\* Where h, b and t are in s.
Parts(s, h, b, t) ==
    /\ s \in Bytes /\ Len(s) = Len(h) + Len(b) + Len(t)
    /\ Len(h) \in Nat /\ Len(b) \in Nat /\ Len(t) \in Nat
    /\ \A j \in 1..Len(h) : s[j] = h[j]
    /\ \A j \in 1..Len(b) : s[Len(h) + j] = b[j]
    /\ \A j \in 1..Len(t) : s[Len(h) + Len(b) + j] = t[j]

LEMMA NoBytes == <<>> \in Bytes /\ Len(<<>>) = 0
BY DEF Bytes

LEMMA StreamType ==
  ASSUME NEW h \in Bytes, NEW b \in Bytes, NEW t \in Bytes
  PROVE  Stream(h, b, t) \in Bytes /\ Parts(Stream(h, b, t), h, b, t)
<1> DEFINE g == h \o b
           s == g \o t
<1>1. /\ g \in Bytes /\ Len(g) = Len(h) + Len(b) /\ Len(h) \in Nat /\ Len(b) \in Nat
      /\ \A j \in 1..Len(h) : g[j] = h[j]
      /\ \A j \in 1..Len(b) : g[Len(h) + j] = b[j]
  BY Concat
<1> HIDE DEF g
<1>2. /\ s \in Bytes /\ Len(s) = Len(g) + Len(t) /\ Len(t) \in Nat
      /\ \A j \in 1..Len(g) : s[j] = g[j]
      /\ \A j \in 1..Len(t) : s[Len(g) + j] = t[j]
  BY <1>1, Concat
<1> HIDE DEF s
<1>3. Stream(h, b, t) = s
  BY DEF Stream, s, g
<1>4. \A j \in 1..Len(h) : s[j] = h[j]
  <2> SUFFICES ASSUME NEW j \in 1..Len(h) PROVE s[j] = h[j]
    OBVIOUS
  <2>1. j \in 1..Len(g)
    BY <1>1
  <2> QED
    BY <1>1, <1>2, <2>1
<1>5. \A j \in 1..Len(b) : s[Len(h) + j] = b[j]
  <2> SUFFICES ASSUME NEW j \in 1..Len(b) PROVE s[Len(h) + j] = b[j]
    OBVIOUS
  <2>1. Len(h) + j \in 1..Len(g)
    BY <1>1
  <2> QED
    BY <1>1, <1>2, <2>1
<1>6. \A j \in 1..Len(t) : s[Len(h) + Len(b) + j] = t[j]
  BY <1>1, <1>2
<1>7. s \in Bytes /\ Parts(s, h, b, t)
  BY <1>1, <1>2, <1>4, <1>5, <1>6 DEF Parts
<1> QED
  BY <1>3, <1>7

LEMMA CutSame ==
  ASSUME NEW s \in Bytes
  PROVE  Cut(s, s)
<1>1. Len(s) \in Nat
  BY DEF Bytes
<1> QED
  BY <1>1 DEF Cut

\* A stream whose last bytes never come.
LEMMA StreamCut ==
  ASSUME NEW h \in Bytes, NEW b \in Bytes, NEW t \in Bytes, NEW d \in Bytes, Cut(d, b)
  PROVE  Cut(Stream(h, d, <<>>), Stream(h, b, t))
<1>0. PICK none \in Bytes : none = <<>> /\ Len(none) = 0
  BY NoBytes
<1> DEFINE x == Stream(h, d, none)
           y == Stream(h, b, t)
<1>1. Parts(x, h, d, none) /\ Parts(y, h, b, t)
  BY StreamType
<1> HIDE DEF x, y
<1>2. Len(d) <= Len(b) /\ \A j \in 1..Len(d) : d[j] = b[j]
  BY DEF Cut
<1>3. Len(x) <= Len(y)
  BY <1>0, <1>1, <1>2 DEF Parts
<1>4. ASSUME NEW i \in 1..Len(x) PROVE x[i] = y[i]
  <2>1. CASE i \in 1..Len(h)
    BY <1>1, <2>1 DEF Parts
  <2>2. CASE i \notin 1..Len(h)
    <3> DEFINE j == i - Len(h)
    <3>1. j \in 1..Len(d) /\ j \in 1..Len(b) /\ Len(h) + j = i
      BY <1>0, <1>1, <1>2, <2>2 DEF Parts
    <3> HIDE DEF j
    <3>2. x[Len(h) + j] = d[j] /\ y[Len(h) + j] = b[j] /\ d[j] = b[j]
      BY <1>1, <1>2, <3>1 DEF Parts
    <3> QED
      BY <3>1, <3>2
  <2> QED
    BY <2>1, <2>2
<1>5. Cut(x, y)
  BY <1>3, <1>4 DEF Cut
<1> QED
  BY <1>0, <1>5 DEF x, y

LEMMA Associates ==
  ASSUME NEW a \in Bytes, NEW b \in Bytes, NEW c \in Bytes
  PROVE  (a \o b) \o c = a \o (b \o c)
<1> DEFINE D == 0..Base-1
<1>1. a \in Seq(D) /\ b \in Seq(D) /\ c \in Seq(D)
  BY DEF Bytes
<1> HIDE DEF D
<1> QED
  BY <1>1, ConcatAssociative

\* What is written moves into the connection.
LEMMA StreamFlows ==
  ASSUME NEW h \in Bytes, NEW b \in Bytes, NEW t \in Bytes, NEW k \in Nat
  PROVE  Stream(h, b \o Taken(t, k), Left(t, k)) = Stream(h, b, t)
<1> DEFINE x == Taken(t, k)
           l == Left(t, k)
<1>1. x \in Bytes /\ l \in Bytes
  BY Takes
<1>2. x \o l = t
  BY TakesAll
<1> HIDE DEF x, l
<1>3. (h \o (b \o x)) \o l = ((h \o b) \o x) \o l
  BY <1>1, Associates
<1>4. ((h \o b) \o x) \o l = (h \o b) \o (x \o l)
  <2>1. h \o b \in Bytes
    BY Concat
  <2> QED
    BY <1>1, <2>1, Associates
<1>5. Stream(h, b \o x, l) = Stream(h, b, t)
  BY <1>2, <1>3, <1>4 DEF Stream
<1> QED
  BY <1>5 DEF x, l

\* A header is read.
LEMMA StreamHeader ==
  ASSUME NEW b \in Bytes, NEW t \in Bytes, Len(Taken(b, 2)) = 2
  PROVE  /\ Unpack(Taken(b, 2)) \in 0..Base*Base-1
         /\ Stream(Header(Unpack(Taken(b, 2))), Left(b, 2), t) = Stream(<<>>, b, t)
<1> DEFINE x == Taken(b, 2)
           n == Unpack(x)
<1>1. x \in Bytes /\ Len(x) = 2 /\ x \o Left(b, 2) = b
  BY Takes, TakesAll
<1> HIDE DEF x
<1>2. x \in Seq(0..Base-1) /\ 1 \in 1..Len(x) /\ 2 \in 1..Len(x)
  BY <1>1 DEF Bytes
<1>3. x[1] \in 0..Base-1 /\ x[2] \in 0..Base-1
  BY <1>2, ElementOfSeq
<1>4. n = x[1] + Base * x[2]
  BY DEF Unpack
<1>5. n \in 0..Base*Base-1 /\ n % Base = x[1] /\ (n \div Base) % Base = x[2]
  BY <1>3, <1>4, HeaderBytes
<1> HIDE DEF n
<1>6. Base \in Nat
  BY SizesAssumption
<1>7. n \in Nat
  BY <1>5
<1>8. /\ Header(n) \in Bytes /\ Len(Header(n)) = 2
      /\ Header(n)[1] = x[1] /\ Header(n)[2] = x[2]
  BY <1>5, <1>7, HeaderIs
<1>9. Header(n) = x
  <2> DEFINE y == Header(n)
  <2>1. y \in Seq(0..Base-1) /\ Len(y) = Len(x) /\ y[1] = x[1] /\ y[2] = x[2]
    BY <1>1, <1>8 DEF Bytes
  <2> HIDE DEF y
  <2>2. \A i \in 1..Len(y) : y[i] = x[i]
    BY <1>1, <2>1
  <2>3. y = x
    BY <1>2, <2>1, <2>2, SeqEqual
  <2> QED
    BY <2>3 DEF y
<1>10. <<>> \o b = b
  BY ConcatEmptySeq DEF Bytes
<1>11. Stream(Header(n), Left(b, 2), t) = Stream(<<>>, b, t)
  BY <1>1, <1>9, <1>10 DEF Stream
<1> QED
  BY <1>5, <1>11 DEF n, x

\* A message is read behind its header.
LEMMA StreamBody ==
  ASSUME NEW b \in Bytes, NEW t \in Bytes, NEW n \in 0..Base*Base-1,
         Len(Taken(b, n)) = n, NEW ms \in Seq(Bytes), NEW p \in 0..Len(ms), NEW e \in BOOLEAN,
         \A i \in 1..Len(ms) : Len(ms[i]) < Base * Base,
         Framed(Stream(Header(n), b, t), ms, p, e)
  PROVE  /\ p < Len(ms) /\ Taken(b, n) = ms[p + 1]
         /\ Framed(Stream(<<>>, Left(b, n), t), ms, p + 1, e)
<1>1. Base \in Nat \ {0, 1} /\ n \in Nat /\ n < Base * Base
  BY SizesAssumption
<1>2. PICK none \in Bytes : none = <<>> /\ Len(none) = 0
  BY NoBytes
<1>3. PICK h \in Bytes : /\ h = Header(n) /\ Len(h) = 2
                         /\ h[1] = n % Base /\ h[2] = (n \div Base) % Base
  BY <1>1, HeaderIs
<1>4. PICK got \in Bytes : got = Taken(b, n)
  BY <1>1, Takes
<1>5. PICK l \in Bytes : l = Left(b, n)
  BY <1>1, Takes
<1>6. /\ Len(got) = n /\ Len(b) = Len(got) + Len(l) /\ Cut(got, b)
      /\ \A j \in 1..Len(l) : l[j] = b[Len(got) + j]
  BY <1>1, <1>4, <1>5, Takes
<1>7. PICK S \in Bytes : S = Stream(h, b, t) /\ Parts(S, h, b, t)
  BY StreamType
<1>8. PICK rest \in Bytes : rest = Stream(none, l, t) /\ Parts(rest, none, l, t)
  BY StreamType
<1>9. Len(got) = Unpack(S)
  <2>1. S[1] = n % Base /\ S[2] = (n \div Base) % Base
    BY <1>3, <1>7 DEF Parts
  <2> QED
    BY <1>1, <1>6, <2>1, HeaderSize DEF Unpack
<1>10. Len(S) >= 2 /\ Len(S) = 2 + Len(got) + Len(rest)
  <2>1. Len(S) = 2 + Len(b) + Len(t) /\ Len(b) \in Nat /\ Len(t) \in Nat
    BY <1>3, <1>7 DEF Parts
  <2>2. Len(rest) = Len(l) + Len(t) /\ Len(l) \in Nat
    BY <1>2, <1>8 DEF Parts
  <2>3. Len(b) = Len(got) + Len(l) /\ Len(got) \in Nat
    BY <1>1, <1>6
  <2> QED
    BY <2>1, <2>2, <2>3
<1>11. ASSUME NEW j \in 1..Len(got) PROVE got[j] = S[2 + j]
  <2>1. j \in 1..Len(b)
    BY <1>1, <1>6, <1>7, <1>8 DEF Parts
  <2>2. S[2 + j] = b[j]
    BY <1>3, <1>7, <2>1 DEF Parts
  <2> QED
    BY <1>6, <2>2 DEF Cut
<1>12. ASSUME NEW j \in 1..Len(rest) PROVE rest[j] = S[2 + Len(got) + j]
  <2>1. CASE j \in 1..Len(l)
    <3>1. n + j \in 1..Len(b) /\ 2 + (n + j) = 2 + n + j
      BY <1>1, <1>6, <1>7, <1>8, <2>1 DEF Parts
    <3>2. rest[j] = l[j]
      BY <1>2, <1>8, <2>1 DEF Parts
    <3>3. S[2 + (n + j)] = b[n + j]
      BY <1>3, <1>7, <3>1 DEF Parts
    <3> QED
      BY <1>6, <2>1, <3>1, <3>2, <3>3
  <2>2. CASE j \notin 1..Len(l)
    <3> DEFINE i == j - Len(l)
    <3>1. i \in 1..Len(t) /\ Len(l) + i = j /\ 2 + Len(b) + i = 2 + n + j
      BY <1>1, <1>2, <1>6, <1>7, <1>8, <2>2 DEF Parts
    <3> HIDE DEF i
    <3>2. rest[Len(l) + i] = t[i]
      BY <1>2, <1>8, <3>1 DEF Parts
    <3>3. S[2 + Len(b) + i] = t[i]
      BY <1>3, <1>7, <3>1 DEF Parts
    <3> QED
      BY <1>6, <3>1, <3>2, <3>3
  <2> QED
    BY <2>1, <2>2
<1>13. Starts(S, got, rest)
  BY <1>9, <1>10, <1>11, <1>12 DEF Starts
<1>14. Framed(S, ms, p, e)
  BY <1>3, <1>7
<1>15. /\ p < Len(ms) /\ got = ms[p + 1]
       /\ Framed(rest, ms, p + 1, e)
  BY <1>13, <1>14, FramedFirst
<1> QED
  BY <1>2, <1>4, <1>5, <1>8, <1>15

\* A message is written behind what is in the connection.
LEMMA StreamMore ==
  ASSUME NEW h \in Bytes, NEW b \in Bytes, NEW ms \in Seq(Bytes), NEW p \in 0..Len(ms),
         NEW m \in Bytes, Framed(Stream(h, b, <<>>), ms, p, TRUE)
  PROVE  Framed(Stream(h, b, Pack(m)), Append(ms, m), p, TRUE)
<1>1. h \o b \in Bytes
  BY Concat
<1>2. Stream(h, b, <<>>) = h \o b
  BY <1>1, ConcatEmptySeq DEF Stream, Bytes
<1>3. Framed((h \o b) \o Pack(m), Append(ms, m), p, TRUE)
  BY <1>1, <1>2, FramedMore
<1> QED
  BY <1>3 DEF Stream
-----------------------------------------------------------------------------
(* Prefixes of what was sent. *)

LEMMA PrefixIs ==
  ASSUME NEW s \in Seq(Bytes), NEW t \in Seq(Bytes)
  PROVE  IsPrefix(s, t) <=> /\ Len(s) <= Len(t)
                            /\ \A i \in 1..Len(s) : s[i] = t[i]
<1>1. Len(s) \in Nat /\ Len(t) \in Nat
  OBVIOUS
<1>2. SubSeq(s, 1, Len(s)) = s
  BY SubSeqFull
<1>3. ASSUME Len(s) <= Len(t)
      PROVE  SubSeq(s, 1, Len(s)) = SubSeq(t, 1, Len(s)) <=> \A i \in 1..Len(s) : s[i] = t[i]
  <2> DEFINE u == SubSeq(t, 1, Len(s))
  <2>1. \A i \in 1..Len(s) : t[i] \in Bytes
    BY <1>1, <1>3
  <2>2. u \in Seq(Bytes) /\ Len(u) = Len(s) /\ \A i \in 1..Len(s) : u[i] = t[i]
    BY <1>1, <2>1, SubSeqProperties
  <2> HIDE DEF u
  <2>3. s = u <=> \A i \in 1..Len(s) : s[i] = u[i]
    BY <2>2, SeqEqual
  <2>4. s = u <=> \A i \in 1..Len(s) : s[i] = t[i]
    BY <2>2, <2>3
  <2> QED
    BY <1>2, <2>4 DEF u
<1> QED
  BY <1>3 DEF IsPrefix

LEMMA PrefixMore ==
  ASSUME NEW s \in Seq(Bytes), NEW t \in Seq(Bytes), NEW m \in Bytes, IsPrefix(s, t)
  PROVE  IsPrefix(s, Append(t, m))
<1>1. Append(t, m) \in Seq(Bytes) /\ Len(Append(t, m)) = Len(t) + 1
      /\ \A i \in 1..Len(t) : Append(t, m)[i] = t[i]
  OBVIOUS
<1>2. Len(s) <= Len(t) /\ \A i \in 1..Len(s) : s[i] = t[i]
  BY PrefixIs
<1>3. Len(s) <= Len(Append(t, m)) /\ \A i \in 1..Len(s) : s[i] = Append(t, m)[i]
  BY <1>1, <1>2
<1> QED
  BY <1>1, <1>3, PrefixIs

LEMMA PrefixNext ==
  ASSUME NEW s \in Seq(Bytes), NEW t \in Seq(Bytes), IsPrefix(s, t), Len(s) < Len(t)
  PROVE  IsPrefix(Append(s, t[Len(s) + 1]), t)
<1> DEFINE m == t[Len(s) + 1]
           u == Append(s, m)
<1>1. m \in Bytes /\ Len(s) \in Nat /\ Len(t) \in Nat
  OBVIOUS
<1>2. Len(s) <= Len(t) /\ \A i \in 1..Len(s) : s[i] = t[i]
  BY PrefixIs
<1>3. /\ u \in Seq(Bytes) /\ Len(u) = Len(s) + 1 /\ u[Len(s) + 1] = m
      /\ \A i \in 1..Len(s) : u[i] = s[i]
  <2> HIDE DEF m
  <2> QED
    BY <1>1
<1> HIDE DEF u
<1>4. ASSUME NEW i \in 1..Len(u) PROVE u[i] = t[i]
  <2>1. i \in 1..Len(s) \/ i = Len(s) + 1
    BY <1>1, <1>3
  <2> QED
    BY <1>2, <1>3, <2>1
<1>5. IsPrefix(u, t)
  BY <1>1, <1>3, <1>4, PrefixIs
<1> QED
  BY <1>5 DEF u
-----------------------------------------------------------------------------
(* The invariant. *)

Busy == server.pc \in {"header", "body", "write"}

\* The client has its last connection open, and the server that of its turn and those
\* behind it.
LinkInv ==
    /\ running => session \in Sessions /\ link[session].client
    /\ \A c \in Sessions : link[c].client => c = session /\ running
    /\ Reading \/ (\E t \in Threads : tx[t] # Idle) => running
    /\ Busy => server.conn \in Sessions /\ link[server.conn].server
    /\ \A c \in Sessions :
         link[c].server <=> /\ c <= session /\ server.pc # "killed"
                            /\ server.conn < c \/ (c = server.conn /\ Busy)

\* Nothing has happened on a connection to come.
FreshInv ==
    \A c \in Sessions :
        c > session => /\ link[c].up = <<>> /\ link[c].down = <<>>
                       /\ sent[c] = <<>> /\ processed[c] = <<>>
                       /\ replied[c] = <<>> /\ delivered[c] = <<>>

\* Two bytes can tell the sizes.
Small(ms) == \A i \in 1..Len(ms) : Len(ms[i]) < Base * Base

\* The server writes no empty message, and none whose size the client misreads.
ReplyInv ==
    \A c \in Sessions :
        Small(replied[c]) /\ \A i \in 1..Len(replied[c]) : replied[c][i] # <<>>

\* The messages taken are the first of ms, and S is the stream of the others, as far
\* as somebody still reads it; all of it, if nothing can have been lost.
Flow(S, ms, taken, open, exact) ==
    Small(ms) =>
        /\ IsPrefix(taken, ms)
        /\ open => Framed(S, ms, Len(taken), exact)

\* What is left of the message that has begun, if threads do not mix theirs.
Remains == IF \E t \in Threads : Begun(t) THEN tx[CHOOSE t \in Threads : Begun(t)].left
           ELSE <<>>

AloneInv ==
    session \in Sessions /\ ~mixed[session] =>
        \A t \in Threads, u \in Threads : Begun(t) /\ Begun(u) => t = u

UpHead(c) == IF c = server.conn /\ server.pc = "body" THEN Header(server.size) ELSE <<>>
UpTail(c) == IF c = session THEN Remains ELSE <<>>

UpInv(c) ==
    ~mixed[c] =>
        Flow(Stream(UpHead(c), link[c].up, UpTail(c)), sent[c], processed[c],
             link[c].server, c = session /\ running)

DownHead(c) == IF reader.pc = "body" THEN Header(reader.size) ELSE <<>>
DownTail(c) == IF c = server.conn THEN server.out ELSE <<>>

DownInv(c) ==
    ~short[c] =>
        Flow(Stream(DownHead(c), link[c].down, DownTail(c)), replied[c], delivered[c],
             c = session /\ Reading, link[c].server)

IInv ==
    /\ TypeOK /\ LinkInv /\ FreshInv /\ ReplyInv /\ AloneInv
    /\ \A c \in Sessions : UpInv(c) /\ DownInv(c)
-----------------------------------------------------------------------------
(* What becomes of a flow. *)

LEMMA FlowCut ==
  ASSUME NEW ms \in Seq(Bytes), NEW k \in Seq(Bytes), NEW S \in Bytes, NEW T \in Bytes,
         NEW o \in BOOLEAN, NEW p \in BOOLEAN, NEW e \in BOOLEAN, NEW f \in BOOLEAN,
         Flow(S, ms, k, o, e), p => o /\ Cut(T, S), p /\ f => e /\ T = S
  PROVE  Flow(T, ms, k, p, f)
<1> SUFFICES ASSUME Small(ms) PROVE IsPrefix(k, ms) /\ (p => Framed(T, ms, Len(k), f))
  BY DEF Flow
<1>1. IsPrefix(k, ms) /\ (o => Framed(S, ms, Len(k), e))
  BY DEF Flow
<1>2. Len(k) \in 0..Len(ms)
  BY <1>1 DEF IsPrefix
<1>3. ASSUME p PROVE Framed(T, ms, Len(k), f)
  <2>1. Framed(S, ms, Len(k), e) /\ Cut(T, S)
    BY <1>1, <1>3
  <2>2. CASE f
    <3>1. T = S /\ e = f
      BY <1>3, <2>2
    <3> QED
      BY <2>1, <3>1
  <2>3. CASE ~f
    <3>1. Framed(T, ms, Len(k), FALSE)
      BY <1>2, <2>1, FramedCut DEF Cut
    <3>2. f = FALSE
      BY <2>3
    <3> QED
      BY <3>1, <3>2
  <2> QED
    BY <2>2, <2>3
<1> QED
  BY <1>1, <1>3

LEMMA FlowSame ==
  ASSUME NEW ms \in Seq(Bytes), NEW k \in Seq(Bytes), NEW S \in Bytes,
         NEW o \in BOOLEAN, NEW p \in BOOLEAN, NEW e \in BOOLEAN, NEW f \in BOOLEAN,
         Flow(S, ms, k, o, e), p => o, p /\ f => e
  PROVE  Flow(S, ms, k, p, f)
BY CutSame, FlowCut

LEMMA SmallLess ==
  ASSUME NEW ms \in Seq(Bytes), NEW m \in Bytes
  PROVE  /\ Append(ms, m) \in Seq(Bytes)
         /\ Small(Append(ms, m)) <=> Small(ms) /\ Len(m) < Base * Base
<1> DEFINE u == Append(ms, m)
<1>1. /\ u \in Seq(Bytes) /\ Len(u) = Len(ms) + 1 /\ Len(ms) \in Nat /\ u[Len(ms) + 1] = m
      /\ \A i \in 1..Len(ms) : u[i] = ms[i]
  OBVIOUS
<1> HIDE DEF u
<1>2. \A i \in 1..Len(u) : i \in 1..Len(ms) \/ i = Len(ms) + 1
  BY <1>1
<1>3. Len(ms) + 1 \in 1..Len(u) /\ \A i \in 1..Len(ms) : i \in 1..Len(u)
  BY <1>1
<1>4. Small(u) <=> Small(ms) /\ Len(m) < Base * Base
  BY <1>1, <1>2, <1>3 DEF Small
<1> QED
  BY <1>1, <1>4 DEF u

LEMMA FlowMore ==
  ASSUME NEW ms \in Seq(Bytes), NEW k \in Seq(Bytes), NEW h \in Bytes, NEW b \in Bytes,
         NEW m \in Bytes, NEW o \in BOOLEAN, NEW e \in BOOLEAN, NEW f \in BOOLEAN,
         Flow(Stream(h, b, <<>>), ms, k, o, e), o => e
  PROVE  Flow(Stream(h, b, Pack(m)), Append(ms, m), k, o, f)
<1> DEFINE u == Append(ms, m)
           T == Stream(h, b, Pack(m))
<1>1. u \in Seq(Bytes) /\ (Small(u) => Small(ms))
  BY SmallLess
<1> SUFFICES ASSUME Small(u) PROVE IsPrefix(k, u) /\ (o => Framed(T, u, Len(k), f))
  BY DEF Flow
<1>2. IsPrefix(k, ms) /\ (o => Framed(Stream(h, b, <<>>), ms, Len(k), e))
  BY <1>1 DEF Flow
<1>3. Len(k) \in 0..Len(ms)
  BY <1>2 DEF IsPrefix
<1>4. IsPrefix(k, u)
  BY <1>2, PrefixMore
<1>5. ASSUME o PROVE Framed(T, u, Len(k), f)
  <2>1. Framed(Stream(h, b, <<>>), ms, Len(k), TRUE)
    <3>1. e = TRUE
      BY <1>5
    <3> QED
      BY <1>2, <1>5, <3>1
  <2>2. Framed(T, u, Len(k), TRUE)
    BY <1>3, <2>1, StreamMore
  <2> HIDE DEF T, u
  <2> QED
    BY <2>2 DEF Framed
<1> QED
  BY <1>4, <1>5

Sizes == 0..Base*Base-1

\* A flow that is read.
Read(S, ms, taken, exact) ==
    Small(ms) => IsPrefix(taken, ms) /\ Framed(S, ms, Len(taken), exact)

LEMMA FlowNext ==
  ASSUME NEW ms \in Seq(Bytes), NEW k \in Seq(Bytes), NEW b \in Bytes, NEW t \in Bytes,
         NEW n \in Sizes, NEW e \in BOOLEAN,
         Read(Stream(Header(n), b, t), ms, k, e), Len(Taken(b, n)) = n
  PROVE  /\ Read(Stream(<<>>, Left(b, n), t), ms, Append(k, Taken(b, n)), e)
         /\ Small(ms) => \E i \in 1..Len(ms) : Taken(b, n) = ms[i]
<1> DEFINE got == Taken(b, n)
           T == Stream(<<>>, Left(b, n), t)
           u == Append(k, got)
<1> SUFFICES ASSUME Small(ms)
             PROVE  /\ IsPrefix(u, ms) /\ Framed(T, ms, Len(u), e)
                    /\ \E i \in 1..Len(ms) : Taken(b, n) = ms[i]
  BY DEF Read
<1>1. IsPrefix(k, ms) /\ Framed(Stream(Header(n), b, t), ms, Len(k), e)
  BY DEF Read
<1>2. Len(k) \in 0..Len(ms)
  BY <1>1 DEF IsPrefix
<1>3. Len(k) < Len(ms) /\ got = ms[Len(k) + 1] /\ Framed(T, ms, Len(k) + 1, e)
  BY <1>1, <1>2, StreamBody DEF Small, Sizes
<1> HIDE DEF T, got
<1>4. IsPrefix(u, ms)
  BY <1>1, <1>3, PrefixNext
<1>5. Len(k) + 1 \in 1..Len(ms)
  BY <1>2, <1>3
<1>6. Len(u) = Len(k) + 1
  <2>1. got \in Bytes
    BY <1>3, <1>5
  <2> QED
    BY <2>1
<1> QED
  BY <1>3, <1>4, <1>5, <1>6 DEF got

LEMMA FlowNone ==
  ASSUME NEW o \in BOOLEAN, NEW e \in BOOLEAN
  PROVE  Flow(Stream(<<>>, <<>>, <<>>), <<>>, <<>>, o, e)
<1>1. <<>> \in Seq(Bytes) /\ Len(<<>>) = 0
  OBVIOUS
<1>2. Stream(<<>>, <<>>, <<>>) = <<>>
  BY ConcatEmptySeq, NoBytes DEF Stream, Bytes
<1>3. Framed(<<>>, <<>>, 0, e)
  BY <1>1, FramedEmpty
<1>4. IsPrefix(<<>>, <<>>)
  BY DEF IsPrefix
<1> QED
  BY <1>1, <1>2, <1>3, <1>4 DEF Flow
-----------------------------------------------------------------------------
(* The actions. *)

ReaderType == [pc: {"dead", "header", "body", "handler", "interrupted"},
               size: 0..Base*Base-1]
TxType == [msg: Payloads \cup {<<>>}, left: Bytes]

LinkType == [up: Bytes, down: Bytes, client: BOOLEAN, server: BOOLEAN]

\* What TypeOK says of one connection.
Typed(c) ==
    /\ link[c] \in LinkType /\ link[c].up \in Bytes /\ link[c].down \in Bytes
    /\ link[c].client \in BOOLEAN /\ link[c].server \in BOOLEAN
    /\ sent[c] \in Seq(Bytes) /\ processed[c] \in Seq(Bytes)
    /\ replied[c] \in Seq(Bytes) /\ delivered[c] \in Seq(Bytes)
    /\ UpHead(c) \in Bytes /\ UpTail(c) \in Bytes
    /\ DownHead(c) \in Bytes /\ DownTail(c) \in Bytes
    /\ Stream(UpHead(c), link[c].up, UpTail(c)) \in Bytes
    /\ Stream(DownHead(c), link[c].down, DownTail(c)) \in Bytes

LEMMA RemainsType == TypeOK => Remains \in Bytes
<1> SUFFICES ASSUME TypeOK PROVE Remains \in Bytes
  OBVIOUS
<1>1. \A t \in Threads : tx[t].left \in Bytes
  BY DEF TypeOK
<1>2. CASE \E t \in Threads : Begun(t)
  <2>1. (CHOOSE t \in Threads : Begun(t)) \in Threads
    BY <1>2
  <2> QED
    BY <1>1, <1>2, <2>1 DEF Remains
<1>3. CASE ~\E t \in Threads : Begun(t)
  BY <1>3, NoBytes DEF Remains
<1> QED
  BY <1>2, <1>3

LEMMA RemainsSame == UNCHANGED tx => Remains' = Remains
BY DEF Remains, Begun

LEMMA AloneSame == AloneInv /\ UNCHANGED <<session, tx, mixed>> => AloneInv'
BY DEF AloneInv, Begun

\* One thread has a message that has begun, or none has.
LEMMA RemainsOnly ==
  ASSUME NEW t \in Threads, \A u \in Threads : Begun(u) => u = t
  PROVE  Remains = IF Begun(t) THEN tx[t].left ELSE <<>>
<1>1. CASE Begun(t)
  <2>1. (CHOOSE u \in Threads : Begun(u)) = t
    BY <1>1
  <2> QED
    BY <1>1, <2>1 DEF Remains
<1>2. CASE ~Begun(t)
  <2>1. ~\E u \in Threads : Begun(u)
    BY <1>2
  <2> QED
    BY <1>2, <2>1 DEF Remains
<1> QED
  BY <1>1, <1>2

LEMMA RemainsNone == (\A u \in Threads : ~Begun(u)) => Remains = <<>>
BY DEF Remains

\* The same of the next state.
LEMMA RemainsOnlyNext ==
  ASSUME NEW t \in Threads, \A u \in Threads : Begun(u)' => u = t
  PROVE  Remains' = IF Begun(t)' THEN tx'[t].left ELSE <<>>
<1>1. CASE Begun(t)'
  <2>1. (CHOOSE u \in Threads : Begun(u)') = t
    BY <1>1
  <2> QED
    BY <1>1, <2>1 DEF Remains
<1>2. CASE ~Begun(t)'
  <2>1. ~\E u \in Threads : Begun(u)'
    BY <1>2
  <2> QED
    BY <1>2, <2>1 DEF Remains
<1> QED
  BY <1>1, <1>2

LEMMA RemainsNoneNext == (\A u \in Threads : ~Begun(u)') => Remains' = <<>>
BY DEF Remains

LEMMA NoneBegun == ASSUME NEW t, tx[t] = Idle PROVE ~Begun(t)
BY DEF Begun, Idle

LEMMA Types == TypeOK => \A c \in Sessions : Typed(c)
<1> SUFFICES ASSUME TypeOK, NEW c \in Sessions PROVE Typed(c)
  OBVIOUS
<1>1. link[c] \in LinkType /\ link \in [Sessions -> LinkType]
  BY DEF TypeOK, LinkType
<1>2. /\ link[c].up \in Bytes /\ link[c].down \in Bytes
      /\ link[c].client \in BOOLEAN /\ link[c].server \in BOOLEAN
  BY <1>1 DEF LinkType
<1>3. sent[c] \in Seq(Bytes)
  <2>1. sent[c] \in Seq(Payloads)
    BY DEF TypeOK
  <2>2. Payloads \subseteq Bytes
    BY PayloadsAssumption
  <2> QED
    BY <2>1, <2>2, SeqMonotonic
<1>4. processed[c] \in Seq(Bytes) /\ replied[c] \in Seq(Bytes) /\ delivered[c] \in Seq(Bytes)
  BY DEF TypeOK
<1>5. UpHead(c) \in Bytes
  <2>1. server.size \in Nat
    BY SizesAssumption DEF TypeOK
  <2> QED
    BY <2>1, HeaderIs, NoBytes DEF UpHead
<1>6. DownHead(c) \in Bytes
  <2>1. reader.size \in Nat
    BY SizesAssumption DEF TypeOK
  <2> QED
    BY <2>1, HeaderIs, NoBytes DEF DownHead
<1>7. UpTail(c) \in Bytes
  BY NoBytes, RemainsType DEF UpTail
<1>8. DownTail(c) \in Bytes
  BY NoBytes DEF DownTail, TypeOK
<1> QED
  BY <1>1, <1>2, <1>3, <1>4, <1>5, <1>6, <1>7, <1>8, StreamType DEF Typed

LEMMA InitInv == Init => IInv
<1> SUFFICES ASSUME Init PROVE IInv
  OBVIOUS
<1>1. TypeOK
  <2>1. /\ link \in [Sessions -> [up: Bytes, down: Bytes, client: BOOLEAN, server: BOOLEAN]]
        /\ \A c \in Sessions : Len(link[c].up) <= Capacity /\ Len(link[c].down) <= Capacity
    BY NoBytes, SizesAssumption DEF Init
  <2>2. reader \in ReaderType
    <3>1. 0 \in 0..Base*Base-1
      BY SizesAssumption
    <3> QED
      BY <3>1 DEF Init, NoReader, ReaderType
  <2>3. /\ server \in [conn: 0..MaxSessions, size: 0..Buffer, out: Bytes,
                       pc: {"accept", "header", "body", "write", "killed"}]
        /\ server.conn <= session /\ server.out = <<>>
    BY NoBytes, SizesAssumption DEF Init, Listening
  <2>4. session \in 0..MaxSessions
    BY SizesAssumption DEF Init
  <2>5. /\ sent \in [Sessions -> Seq(Payloads)]
        /\ {processed, replied, delivered} \subseteq [Sessions -> Seq(Bytes)]
        /\ short \in [Sessions -> BOOLEAN] /\ mixed \in [Sessions -> BOOLEAN]
    BY DEF Init
  <2>6. tx \in [Threads -> TxType]
    BY NoBytes DEF Init, Idle, TxType
  <2> QED
    BY <2>1, <2>2, <2>3, <2>4, <2>5, <2>6 DEF Init, TypeOK, ReaderType, TxType
<1>2. LinkInv /\ AloneInv
  BY DEF Init, LinkInv, AloneInv, Busy, Reading, NoReader, Listening, Sessions
<1>3. FreshInv
  BY DEF Init, FreshInv
<1>4. ReplyInv
  BY DEF Init, ReplyInv, Small
<1>5. ASSUME NEW c \in Sessions PROVE UpInv(c) /\ DownInv(c)
  <2>1. /\ UpHead(c) = <<>> /\ DownHead(c) = <<>> /\ UpTail(c) = <<>> /\ DownTail(c) = <<>>
        /\ link[c].up = <<>> /\ link[c].down = <<>>
        /\ link[c].server = FALSE /\ (c = session /\ running) = FALSE
        /\ (c = session /\ Reading) = FALSE
        /\ sent[c] = <<>> /\ processed[c] = <<>> /\ replied[c] = <<>> /\ delivered[c] = <<>>
    <3>1. Remains = <<>>
      BY RemainsNone, NoneBegun DEF Init
    <3> QED
      BY <3>1 DEF Init, UpHead, UpTail, DownHead, DownTail, Reading, NoReader, Listening
  <2> QED
    BY <2>1, FlowNone DEF UpInv, DownInv
<1> QED
  BY <1>1, <1>2, <1>3, <1>4, <1>5 DEF IInv

LEMMA TypesNext == TypeOK' => (\A c \in Sessions : Typed(c))'
BY Types, PTL

UpStream(c)   == Stream(UpHead(c), link[c].up, UpTail(c))
DownStream(c) == Stream(DownHead(c), link[c].down, DownTail(c))

\* A step that takes nothing of what was sent, and may lose the end of it.
LEMMA UpCut ==
  ASSUME TypeOK, TypeOK', NEW c \in Sessions, UpInv(c),
         sent'[c] = sent[c], processed'[c] = processed[c], ~mixed'[c] => ~mixed[c],
         link'[c].server => link[c].server /\ Cut(UpStream(c)', UpStream(c)),
         link'[c].server /\ c = session' /\ running' =>
            c = session /\ running /\ UpStream(c)' = UpStream(c)
  PROVE  UpInv(c)'
<1>1. Typed(c) /\ Typed(c)'
  BY Types, TypesNext
<1> DEFINE S == UpStream(c)
           T == UpStream(c)'
           o == link[c].server
           p == link'[c].server
           e == c = session /\ running
           f == c = session' /\ running'
<1>2. /\ e \in BOOLEAN /\ f \in BOOLEAN
      /\ sent[c] \in Seq(Bytes) /\ processed[c] \in Seq(Bytes)
      /\ o \in BOOLEAN /\ p \in BOOLEAN
      /\ S \in Bytes /\ T \in Bytes
  BY <1>1 DEF Typed, UpStream
<1>3. ~mixed[c] => Flow(S, sent[c], processed[c], o, e)
  BY DEF UpInv, UpStream
<1>4. (p => o /\ Cut(T, S)) /\ (p /\ f => e /\ T = S)
  OBVIOUS
<1> HIDE DEF S, T, o, p, e, f
<1>5. ~mixed'[c] => Flow(T, sent[c], processed[c], p, f)
  BY <1>2, <1>3, <1>4, FlowCut
<1> QED
  BY <1>5 DEF UpInv, UpStream, T, p, f

LEMMA UpSame ==
  ASSUME TypeOK, TypeOK', NEW c \in Sessions, UpInv(c),
         sent'[c] = sent[c], processed'[c] = processed[c], ~mixed'[c] => ~mixed[c],
         link'[c].server => link[c].server /\ UpStream(c)' = UpStream(c),
         link'[c].server /\ c = session' /\ running' => c = session /\ running
  PROVE  UpInv(c)'
<1>1. UpStream(c) \in Bytes
  BY Types DEF Typed, UpStream
<1>2. Cut(UpStream(c), UpStream(c))
  BY <1>1, CutSame
<1> QED
  BY <1>2, UpCut

LEMMA DownCut ==
  ASSUME TypeOK, TypeOK', NEW c \in Sessions, DownInv(c),
         replied'[c] = replied[c], delivered'[c] = delivered[c], ~short'[c] => ~short[c],
         c = session' /\ Reading' =>
            c = session /\ Reading /\ Cut(DownStream(c)', DownStream(c)),
         c = session' /\ Reading' /\ link'[c].server =>
            link[c].server /\ DownStream(c)' = DownStream(c)
  PROVE  DownInv(c)'
<1>1. Typed(c) /\ Typed(c)'
  BY Types, TypesNext
<1> DEFINE S == DownStream(c)
           T == DownStream(c)'
           o == c = session /\ Reading
           p == c = session' /\ Reading'
           e == link[c].server
           f == link'[c].server
<1>2. /\ o \in BOOLEAN /\ p \in BOOLEAN
      /\ replied[c] \in Seq(Bytes) /\ delivered[c] \in Seq(Bytes)
      /\ e \in BOOLEAN /\ f \in BOOLEAN
      /\ S \in Bytes /\ T \in Bytes
  BY <1>1 DEF Typed, DownStream
<1>3. ~short[c] => Flow(S, replied[c], delivered[c], o, e)
  BY DEF DownInv, DownStream
<1>4. (p => o /\ Cut(T, S)) /\ (p /\ f => e /\ T = S)
  OBVIOUS
<1> HIDE DEF S, T, o, p, e, f
<1>5. ~short'[c] => Flow(T, replied[c], delivered[c], p, f)
  BY <1>2, <1>3, <1>4, FlowCut
<1> QED
  BY <1>5 DEF DownInv, DownStream, T, p, f

LEMMA DownSame ==
  ASSUME TypeOK, TypeOK', NEW c \in Sessions, DownInv(c),
         replied'[c] = replied[c], delivered'[c] = delivered[c], ~short'[c] => ~short[c],
         c = session' /\ Reading' =>
            c = session /\ Reading /\ DownStream(c)' = DownStream(c),
         c = session' /\ Reading' /\ link'[c].server => link[c].server
  PROVE  DownInv(c)'
<1>1. DownStream(c) \in Bytes
  BY Types DEF Typed, DownStream
<1>2. Cut(DownStream(c), DownStream(c))
  BY <1>1, CutSame
<1> QED
  BY <1>2, DownCut

LEMMA KeptFresh ==
  ASSUME FreshInv, ReplyInv, UNCHANGED <<session, sent, processed, replied, delivered>>,
         \A c \in Sessions :
            c > session => link'[c].up = link[c].up /\ link'[c].down = link[c].down
  PROVE  FreshInv' /\ ReplyInv'
<1>1. FreshInv'
  BY DEF FreshInv
<1>2. ReplyInv'
  BY DEF ReplyInv
<1> QED
  BY <1>1, <1>2

LEMMA FlowUpInv == ASSUME NEW t \in Threads PROVE IInv /\ FlowUp(t) => IInv'
<1> SUFFICES ASSUME IInv, FlowUp(t) PROVE IInv'
  OBVIOUS
<1> DEFINE s == session
           rest == Rest(t)
           others == \E u \in Threads \ {t} : Begun(u)
<1>1. TypeOK /\ LinkInv /\ FreshInv /\ ReplyInv /\ AloneInv
      /\ \A c \in Sessions : Typed(c) /\ UpInv(c) /\ DownInv(c)
  BY Types DEF IInv
<1>2. tx \in [Threads -> TxType] /\ tx[t] \in TxType
  BY <1>1 DEF TypeOK, TxType
<1>3. rest # <<>> /\ tx[t] # Idle
  BY NoneBegun DEF FlowUp, Rest, Idle
<1>4. s \in Sessions /\ running
  BY <1>1, <1>3 DEF LinkInv
\* What is to be written: a message, or what is left of one.
<1>5. \/ Begun(t) /\ rest = tx[t].left /\ rest \in Bytes
      \/ /\ ~Begun(t) /\ tx[t].msg \in Payloads /\ tx[t].msg \in Bytes
         /\ rest = Pack(tx[t].msg) /\ rest \in Bytes
  <2>1. CASE tx[t].msg = <<>>
    BY <1>2, <1>3, <2>1 DEF Rest, Begun, TxType
  <2>2. CASE tx[t].msg # <<>>
    <3>1. tx[t].msg \in Payloads /\ tx[t].msg \in Bytes
      BY <1>2, <2>2, PayloadsAssumption DEF TxType
    <3> QED
      BY <2>2, <3>1, PackType DEF Rest, Begun
  <2> QED
    BY <2>1, <2>2
<1>6. /\ link[s] \in LinkType /\ link \in [Sessions -> LinkType]
      /\ link[s].up \in Bytes /\ mixed \in [Sessions -> BOOLEAN]
  BY <1>1, <1>4 DEF Typed, TypeOK, LinkType
<1>7. UNCHANGED <<session, running, reader, server, short, processed, replied, delivered>>
  BY DEF FlowUp
<1>8. CASE ~link[s].server
  <2>1. tx' = [tx EXCEPT ![t] = Idle] /\ UNCHANGED <<link, sent, mixed>>
    BY <1>8 DEF FlowUp
  <2>2. Idle \in TxType
    BY NoBytes DEF Idle, TxType
  <2>3. /\ tx' \in [Threads -> TxType] /\ tx'[t] = Idle
        /\ \A u \in Threads : u # t => tx'[u] = tx[u]
    BY <1>2, <2>1, <2>2
  <2>4. TypeOK'
    BY <1>1, <1>7, <2>1, <2>3 DEF TypeOK, TxType
  <2>5. LinkInv' /\ FreshInv' /\ ReplyInv'
    BY <1>1, <1>4, <1>7, <2>1 DEF LinkInv, FreshInv, ReplyInv, Busy, Reading
  <2>6. AloneInv'
    <3>1. \A u \in Threads : Begun(u)' => Begun(u)
      BY <2>3 DEF Begun, Idle
    <3> QED
      BY <1>1, <1>7, <2>1, <3>1 DEF AloneInv
  <2>7. ASSUME NEW c \in Sessions PROVE UpInv(c)' /\ DownInv(c)'
    <3>1. link'[c].server => c # session
      BY <1>8, <2>1
    <3>2. link'[c].server => UpStream(c)' = UpStream(c)
      BY <1>7, <2>1, <3>1 DEF UpStream, UpHead, UpTail
    <3>3. UpInv(c)'
      BY <1>1, <1>7, <2>1, <2>4, <3>1, <3>2, UpSame
    <3>4. DownStream(c)' = DownStream(c)
      BY <1>7, <2>1 DEF DownStream, DownHead, DownTail
    <3>5. DownInv(c)'
      BY <1>1, <1>7, <2>1, <2>4, <3>4, DownSame DEF Reading
    <3> QED
      BY <3>3, <3>5
  <2> QED
    BY <2>4, <2>5, <2>6, <2>7 DEF IInv
<1>9. CASE link[s].server
  <2>1. PICK k \in Pieces(rest, link[s].up) :
          /\ link' = [link EXCEPT ![s].up = @ \o Taken(rest, k)]
          /\ tx' = [tx EXCEPT ![t] = [msg |-> <<>>, left |-> Left(rest, k)]]
    BY <1>9 DEF FlowUp
  <2>2. /\ sent' = IF Begun(t) THEN sent ELSE [sent EXCEPT ![s] = Append(@, tx[t].msg)]
        /\ mixed' = [mixed EXCEPT ![s] = @ \/ others]
    BY <1>9 DEF FlowUp
  <2>3. rest \in Bytes
    BY <1>5
  <2> HIDE DEF rest, others, s
  <2>4. /\ k \in Nat /\ Len(rest) \in Nat /\ k <= Len(rest) /\ Len(link[s].up) + k <= Capacity
    BY <2>1, <2>3 DEF Pieces, Bytes
  <2> DEFINE left == Left(rest, k)
             new == link[s].up \o Taken(rest, k)
  <2>5. Taken(rest, k) \in Bytes /\ left \in Bytes /\ Len(Taken(rest, k)) = k
    BY <2>3, <2>4, Takes
  <2>6. new \in Bytes /\ Len(new) <= Capacity
    BY <1>6, <2>4, <2>5, Concat
  <2>7. link' = [link EXCEPT ![s].up = new]
    BY <2>1
  <2>8. tx' = [tx EXCEPT ![t] = [msg |-> <<>>, left |-> left]]
    BY <2>1
  <2> HIDE DEF new, left
  <2>9. /\ link' \in [Sessions -> LinkType] /\ link'[s].up = new
        /\ \A c \in Sessions : /\ link'[c].down = link[c].down
                               /\ link'[c].client = link[c].client
                               /\ link'[c].server = link[c].server
                               /\ c # s => link'[c] = link[c]
    BY <1>4, <1>6, <2>6, <2>7 DEF LinkType
  <2>10. /\ tx' \in [Threads -> TxType] /\ tx'[t] = [msg |-> <<>>, left |-> left]
         /\ \A u \in Threads : u # t => tx'[u] = tx[u]
    <3>1. [msg |-> <<>>, left |-> left] \in TxType
      BY <2>5 DEF TxType
    <3> QED
      BY <1>2, <2>8, <3>1
  <2>11. /\ \A u \in Threads : u # t => (Begun(u)' <=> Begun(u))
         /\ Begun(t)' <=> left # <<>>
    BY <2>10 DEF Begun
  <2>12. /\ sent' \in [Sessions -> Seq(Payloads)]
         /\ sent'[s] = IF Begun(t) THEN sent[s] ELSE Append(sent[s], tx[t].msg)
         /\ \A c \in Sessions : c # s => sent'[c] = sent[c]
    <3>1. sent \in [Sessions -> Seq(Payloads)]
      BY <1>1 DEF TypeOK
    <3>2. CASE Begun(t)
      BY <2>2, <3>1, <3>2
    <3>3. CASE ~Begun(t)
      <4>1. Append(sent[s], tx[t].msg) \in Seq(Payloads)
        BY <1>4, <1>5, <3>1, <3>3
      <4> QED
        BY <1>4, <2>2, <3>1, <3>3, <4>1
    <3> QED
      BY <3>2, <3>3
  <2>13. /\ mixed' \in [Sessions -> BOOLEAN] /\ (mixed'[s] <=> mixed[s] \/ others)
         /\ \A c \in Sessions : c # s => mixed'[c] = mixed[c]
    <3>1. (mixed[s] \/ others) \in BOOLEAN
      BY <1>4, <1>6 DEF others
    <3> QED
      BY <1>4, <1>6, <2>2, <3>1
  <2>14. TypeOK'
    <3>1. \A c \in Sessions : Len(link'[c].up) <= Capacity /\ Len(link'[c].down) <= Capacity
      BY <1>1, <2>6, <2>9 DEF TypeOK
    <3> QED
      BY <1>1, <1>7, <2>9, <2>10, <2>12, <2>13, <3>1 DEF TypeOK, LinkType, TxType
  <2>15. LinkInv'
    BY <1>1, <1>4, <1>7, <2>9 DEF LinkInv, Busy, Reading, s
  <2>16. FreshInv' /\ ReplyInv'
    <3>1. \A c \in Sessions : c > session => c # s
      BY <1>4 DEF Sessions, s
    <3> QED
      BY <1>1, <1>7, <2>9, <2>12, <3>1 DEF FreshInv, ReplyInv
  <2>17. ~mixed'[s] => ~mixed[s] /\ \A u \in Threads : u # t => ~Begun(u) /\ ~Begun(u)'
    BY <2>11, <2>13 DEF others
  <2>18. AloneInv'
    BY <1>7, <2>17 DEF AloneInv, s
  <2>19. ASSUME NEW c \in Sessions PROVE DownInv(c)'
    <3>1. DownStream(c)' = DownStream(c)
      BY <1>7, <2>9 DEF DownStream, DownHead, DownTail
    <3> QED
      BY <1>1, <1>7, <2>9, <2>14, <3>1, DownSame DEF Reading
  <2>20. ASSUME NEW c \in Sessions, c # s PROVE UpInv(c)'
    <3>1. UpStream(c)' = UpStream(c)
      BY <1>7, <2>9, <2>20 DEF UpStream, UpHead, UpTail, s
    <3> QED
      BY <1>1, <1>7, <2>9, <2>12, <2>13, <2>14, <2>20, <3>1, UpSame
  <2>21. UpInv(s)'
    <3> SUFFICES ASSUME ~mixed'[s]
                 PROVE  Flow(Stream(UpHead(s), link[s].up, UpTail(s))', sent'[s], processed'[s],
                             link'[s].server, s = session' /\ running')
      BY <1>7 DEF UpInv, s
    <3> DEFINE o == link[s].server
               h == UpHead(s)
               b == link[s].up
               ms == sent'[s]
    <3>1. /\ h \in Bytes /\ b \in Bytes /\ o \in BOOLEAN
          /\ sent[s] \in Seq(Bytes) /\ processed[s] \in Seq(Bytes)
      BY <1>1, <1>4 DEF Typed, s
    <3>2. Remains = IF Begun(t) THEN tx[t].left ELSE <<>>
      BY <2>17, RemainsOnly
    <3>3. Flow(Stream(h, b, Remains), sent[s], processed[s], o, TRUE)
      <4>1. ~mixed[s] /\ UpTail(s) = Remains /\ (s = session /\ running) = TRUE
        BY <1>4, <2>17 DEF UpTail, s
      <4> QED
        BY <1>1, <1>4, <4>1 DEF UpInv, s
    <3>4. Flow(Stream(h, b, rest), ms, processed[s], o, TRUE)
      <4>1. CASE Begun(t)
        BY <1>5, <2>12, <3>2, <3>3, <4>1
      <4>2. CASE ~Begun(t)
        <5>1. Flow(Stream(h, b, <<>>), sent[s], processed[s], o, TRUE)
          BY <3>2, <3>3, <4>2
        <5>2. ms = Append(sent[s], tx[t].msg) /\ rest = Pack(tx[t].msg) /\ tx[t].msg \in Bytes
          BY <1>5, <2>12, <4>2
        <5> HIDE DEF o, h, b, ms
        <5>3. Flow(Stream(h, b, Pack(tx[t].msg)), Append(sent[s], tx[t].msg), processed[s], o,
                   TRUE)
          BY <3>1, <5>1, <5>2, FlowMore
        <5> QED
          BY <5>2, <5>3
      <4> QED
        BY <4>1, <4>2
    <3>5. Stream(h, new, left) = Stream(h, b, rest)
      BY <2>3, <2>4, <3>1, StreamFlows DEF new, left
    <3>6. UpTail(s)' = left
      <4>1. Remains' = IF Begun(t)' THEN tx'[t].left ELSE <<>>
        <5>1. \A u \in Threads : Begun(u)' => u = t
          BY <2>17
        <5> QED
          BY <5>1, RemainsOnlyNext
      <4>2. tx'[t].left = left
        BY <2>10
      <4>3. Remains' = left
        BY <2>11, <4>1, <4>2
      <4> QED
        BY <1>7, <4>3 DEF UpTail, s
    <3>7. /\ UpHead(s)' = h /\ link'[s].up = new /\ processed'[s] = processed[s]
          /\ link'[s].server = o /\ (s = session' /\ running') = TRUE
      BY <1>4, <1>7, <2>9 DEF UpHead, s
    <3> QED
      BY <3>4, <3>5, <3>6, <3>7 DEF s
  <2>22. ASSUME NEW c \in Sessions PROVE UpInv(c)' /\ DownInv(c)'
    <3>1. CASE c = s
      BY <1>7, <2>19, <2>21, <3>1 DEF UpInv, UpHead, UpTail, s
    <3>2. CASE c # s
      BY <2>19, <2>20, <3>2
    <3> QED
      BY <3>1, <3>2
  <2> QED
    BY <2>14, <2>15, <2>16, <2>18, <2>22 DEF IInv
<1> QED
  BY <1>8, <1>9

LEMMA FlowDownInv == IInv /\ FlowDown => IInv'
<1> SUFFICES ASSUME IInv, FlowDown PROVE IInv'
  OBVIOUS
<1> DEFINE n == server.conn
           out == server.out
<1>1. TypeOK /\ LinkInv /\ FreshInv /\ ReplyInv /\ AloneInv
      /\ \A c \in Sessions : Typed(c) /\ UpInv(c) /\ DownInv(c)
  BY Types DEF IInv
<1>2. server.pc = "write" /\ n \in Sessions /\ out \in Bytes /\ n <= session
  BY <1>1 DEF FlowDown, LinkInv, TypeOK, Busy
<1>3. link[n] \in LinkType /\ link \in [Sessions -> LinkType] /\ link[n].down \in Bytes
  BY <1>1, <1>2 DEF Typed, TypeOK, LinkType
<1>4. PICK k \in Pieces(out, link[n].down) :
        /\ link' = [link EXCEPT ![n].down = @ \o Taken(out, k)]
        /\ server' = [server EXCEPT !.out = Left(@, k)]
  BY DEF FlowDown
<1>5. k \in Nat /\ Len(link[n].down) + k <= Capacity
  BY <1>2, <1>4 DEF Pieces, Bytes
<1>6. Taken(out, k) \in Bytes /\ Left(out, k) \in Bytes /\ Len(Taken(out, k)) = k
  <2>1. k <= Len(out) /\ Len(out) \in Nat
    BY <1>2, <1>4 DEF Pieces, Bytes
  <2> HIDE DEF out
  <2> QED
    BY <1>2, <1>5, <2>1, Takes
<1> DEFINE new == link[n].down \o Taken(out, k)
<1>7. new \in Bytes /\ Len(new) <= Capacity
  BY <1>3, <1>5, <1>6, Concat
<1>8. link' = [link EXCEPT ![n].down = new]
  BY <1>4
<1> HIDE DEF new
<1>9. /\ link' \in [Sessions -> LinkType] /\ link'[n].down = new
      /\ \A c \in Sessions : /\ link'[c].up = link[c].up
                             /\ link'[c].client = link[c].client
                             /\ link'[c].server = link[c].server
                             /\ c # n => link'[c] = link[c]
  <2> HIDE DEF n
  <2> QED
    BY <1>2, <1>3, <1>7, <1>8 DEF LinkType
<1>10. /\ server'.conn = n /\ server'.pc = "write" /\ server'.size = server.size
       /\ server'.out = Left(out, k)
       /\ server' \in [conn: 0..MaxSessions, size: 0..Buffer, out: Bytes,
                       pc: {"accept", "header", "body", "write", "killed"}]
  BY <1>1, <1>2, <1>4, <1>6 DEF TypeOK
<1>11. UNCHANGED <<session, running, tx, reader, short, mixed, sent, delivered, processed, replied>>
  BY DEF FlowDown, client
<1>12. TypeOK'
  <2>1. \A c \in Sessions : Len(link'[c].up) <= Capacity /\ Len(link'[c].down) <= Capacity
    BY <1>1, <1>7, <1>9 DEF TypeOK
  <2> QED
    BY <1>1, <1>2, <1>9, <1>10, <1>11, <2>1 DEF TypeOK, LinkType
<1>13. LinkInv'
  BY <1>1, <1>2, <1>9, <1>10, <1>11 DEF LinkInv, Busy, Reading
<1>14. FreshInv' /\ ReplyInv'
  <2>1. \A c \in Sessions : c > session => c # n
    BY <1>1, <1>2 DEF Sessions, TypeOK
  <2> HIDE DEF n
  <2> QED
    BY <1>1, <1>9, <1>11, <2>1, KeptFresh
<1>15. ASSUME NEW c \in Sessions PROVE UpInv(c)' /\ DownInv(c)'
  <2>1. UpStream(c)' = UpStream(c)
    BY <1>2, <1>9, <1>10, <1>11, RemainsSame DEF UpStream, UpHead, UpTail
  <2>2. UpInv(c)'
    BY <1>1, <1>9, <1>11, <1>12, <2>1, UpSame
  <2>3. DownHead(c)' = DownHead(c) /\ DownTail(c)' = IF c = n THEN Left(out, k) ELSE <<>>
    BY <1>10, <1>11 DEF DownHead, DownTail
  <2>4. DownStream(c)' = DownStream(c)
    <3>1. CASE c = n
      <4>1. Stream(DownHead(c), link[c].down \o Taken(out, k), Left(out, k))
              = Stream(DownHead(c), link[c].down, out)
        BY <1>1, <1>2, <1>5, StreamFlows DEF Typed
      <4> QED
        BY <1>9, <2>3, <3>1, <4>1 DEF DownStream, DownTail, new
    <3>2. CASE c # n
      BY <1>9, <2>3, <3>2 DEF DownStream, DownTail
    <3> QED
      BY <3>1, <3>2
  <2>5. DownInv(c)'
    BY <1>1, <1>9, <1>11, <1>12, <2>4, DownSame DEF Reading
  <2> QED
    BY <2>2, <2>5
<1> QED
  BY <1>1, <1>11, AloneSame, <1>12, <1>13, <1>14, <1>15 DEF IInv

LEMMA DropInv == ASSUME NEW c \in Sessions PROVE IInv /\ Drop(c) => IInv'
<1> SUFFICES ASSUME IInv, Drop(c) PROVE IInv'
  OBVIOUS
<1>1. TypeOK /\ LinkInv /\ FreshInv /\ ReplyInv /\ AloneInv
      /\ \A d \in Sessions : Typed(d) /\ UpInv(d) /\ DownInv(d)
  BY Types DEF IInv
<1>2. /\ link[c] \in LinkType /\ link \in [Sessions -> LinkType]
      /\ link[c].up \in Bytes /\ link[c].down \in Bytes
  BY <1>1 DEF Typed, TypeOK, LinkType
<1>3. UNCHANGED <<session, running, tx, reader, short, mixed, sent, delivered, server, processed,
                  replied>>
  BY DEF Drop, client
<1>4. link[c].client # link[c].server
  BY DEF Drop
\* One of the streams is cut off, and the other stays.
<1>5. PICK u \in Bytes, d \in Bytes :
        /\ link' = [link EXCEPT ![c].up = u, ![c].down = d]
        /\ Cut(u, link[c].up) /\ Cut(d, link[c].down)
  <2>1. Cut(link[c].up, link[c].up) /\ Cut(link[c].down, link[c].down)
    BY <1>2, CutSame
  <2>2. ASSUME NEW k \in 0..Len(link[c].up)-1, link' = [link EXCEPT ![c].up = Taken(@, k)]
        PROVE  \E u \in Bytes, d \in Bytes :
                 /\ link' = [link EXCEPT ![c].up = u, ![c].down = d]
                 /\ Cut(u, link[c].up) /\ Cut(d, link[c].down)
    <3>1. k \in Nat
      OBVIOUS
    <3>2. Taken(link[c].up, k) \in Bytes /\ Cut(Taken(link[c].up, k), link[c].up)
      BY <1>2, <3>1, Takes
    <3> DEFINE u == Taken(link[c].up, k)
    <3>3. link' = [link EXCEPT ![c].up = u]
      BY <2>2
    <3> HIDE DEF u
    <3>4. link' = [link EXCEPT ![c].up = u, ![c].down = link[c].down]
      BY <1>2, <3>3 DEF LinkType
    <3> QED
      BY <1>2, <2>1, <3>2, <3>4 DEF u
  <2>3. ASSUME NEW k \in 0..Len(link[c].down)-1, link' = [link EXCEPT ![c].down = Taken(@, k)]
        PROVE  \E u \in Bytes, d \in Bytes :
                 /\ link' = [link EXCEPT ![c].up = u, ![c].down = d]
                 /\ Cut(u, link[c].up) /\ Cut(d, link[c].down)
    <3>1. k \in Nat
      OBVIOUS
    <3>2. Taken(link[c].down, k) \in Bytes /\ Cut(Taken(link[c].down, k), link[c].down)
      BY <1>2, <3>1, Takes
    <3> DEFINE d == Taken(link[c].down, k)
    <3>3. link' = [link EXCEPT ![c].down = d]
      BY <2>3
    <3> HIDE DEF d
    <3>4. link' = [link EXCEPT ![c].up = link[c].up, ![c].down = d]
      BY <1>2, <3>3 DEF LinkType
    <3> QED
      BY <1>2, <2>1, <3>2, <3>4 DEF d
  <2> QED
    BY <2>2, <2>3 DEF Drop
<1>6. /\ link' \in [Sessions -> LinkType] /\ link'[c].up = u /\ link'[c].down = d
      /\ \A b \in Sessions : /\ link'[b].client = link[b].client
                             /\ link'[b].server = link[b].server
                             /\ b # c => link'[b] = link[b]
  BY <1>2, <1>5 DEF LinkType
<1>7. Len(u) <= Len(link[c].up) /\ Len(d) <= Len(link[c].down)
  BY <1>5 DEF Cut
<1>8. Len(u) \in Nat /\ Len(d) \in Nat /\ Len(link[c].up) \in Nat /\ Len(link[c].down) \in Nat
  BY <1>2 DEF Bytes
<1>9. TypeOK'
  <2>1. Len(u) <= Capacity /\ Len(d) <= Capacity
    BY <1>1, <1>7, <1>8, SizesAssumption DEF TypeOK
  <2>2. \A b \in Sessions : Len(link'[b].up) <= Capacity /\ Len(link'[b].down) <= Capacity
    BY <1>1, <1>6, <2>1 DEF TypeOK
  <2> QED
    BY <1>1, <1>3, <1>6, <2>2 DEF TypeOK, LinkType
<1>10. LinkInv'
  BY <1>1, <1>3, <1>6 DEF LinkInv, Busy, Reading
<1>11. c <= session
  BY <1>1, <1>2, <1>4 DEF LinkInv, TypeOK, LinkType, Sessions
<1>12. FreshInv' /\ ReplyInv'
  <2>1. \A b \in Sessions : b > session => b # c
    BY <1>1, <1>11 DEF Sessions, TypeOK
  <2> QED
    BY <1>1, <1>3, <1>6, <2>1, KeptFresh
<1>13. ASSUME NEW b \in Sessions PROVE UpInv(b)' /\ DownInv(b)'
  <2>1. CASE b # c
    <3>1. UpStream(b)' = UpStream(b) /\ DownStream(b)' = DownStream(b)
      BY <1>3, <1>6, <2>1, RemainsSame DEF UpStream, UpHead, UpTail, DownStream, DownHead, DownTail
    <3>2. UpInv(b)'
      BY <1>1, <1>3, <1>6, <1>9, <3>1, UpSame
    <3>3. DownInv(b)'
      BY <1>1, <1>3, <1>6, <1>9, <3>1, DownSame DEF Reading
    <3> QED
      BY <3>2, <3>3
  <2>2. CASE b = c
    <3>1. UpHead(b) \in Bytes /\ DownHead(b) \in Bytes /\ UpTail(b) \in Bytes /\ DownTail(b) \in Bytes
      BY <1>1 DEF Typed
    <3>2. /\ UpStream(b)' = Stream(UpHead(b), u, UpTail(b))
          /\ DownStream(b)' = Stream(DownHead(b), d, DownTail(b))
      BY <1>3, <1>6, <2>2, RemainsSame DEF UpStream, UpHead, UpTail, DownStream, DownHead, DownTail
    <3>3. /\ Cut(Stream(UpHead(b), u, <<>>), UpStream(b))
          /\ Cut(Stream(DownHead(b), d, <<>>), DownStream(b))
      BY <1>2, <1>5, <2>2, <3>1, StreamCut DEF UpStream, DownStream
    <3>4. link'[b].server => ~(b = session' /\ running') /\ UpTail(b) = <<>>
      <4>1. link'[b].server => ~(b = session /\ running)
        BY <1>1, <1>2, <1>4, <1>6, <2>2 DEF LinkInv, LinkType
      <4>2. ~running => Remains = <<>>
        BY <1>1, NoneBegun, RemainsNone DEF LinkInv
      <4> QED
        BY <1>3, <4>1, <4>2 DEF UpTail
    <3>5. UpInv(b)'
      BY <1>1, <1>3, <1>6, <1>9, <3>2, <3>3, <3>4, UpCut
    <3>6. b = session' /\ Reading' => ~link'[b].server /\ DownTail(b) = <<>>
      <4>1. b = session' /\ Reading' => ~link[b].server
        BY <1>1, <1>2, <1>3, <1>4, <2>2 DEF LinkInv, Reading, LinkType
      <4>2. ~link[b].server => DownTail(b) = <<>>
        BY <1>1 DEF LinkInv, DownTail, TypeOK, Busy
      <4> QED
        BY <1>6, <4>1, <4>2
    <3>7. DownInv(b)'
      BY <1>1, <1>3, <1>9, <3>2, <3>3, <3>6, DownCut DEF Reading
    <3> QED
      BY <3>5, <3>7
  <2> QED
    BY <2>1, <2>2
<1> QED
  BY <1>1, <1>3, AloneSame, <1>9, <1>10, <1>12, <1>13 DEF IInv

LEMMA OpenInv == IInv /\ Open => IInv'
<1> SUFFICES ASSUME IInv, Open PROVE IInv'
  OBVIOUS
<1>1. TypeOK /\ LinkInv /\ FreshInv /\ ReplyInv /\ AloneInv
      /\ \A c \in Sessions : Typed(c) /\ UpInv(c) /\ DownInv(c)
  BY Types DEF IInv
<1> DEFINE n == session + 1
<1>2. /\ ~running /\ n \in Sessions /\ n \in 0..MaxSessions /\ server.pc # "killed"
      /\ session' = n /\ running' = TRUE /\ reader' = [pc |-> "header", size |-> 0]
      /\ link' = [link EXCEPT ![n].client = TRUE, ![n].server = TRUE]
      /\ UNCHANGED <<tx, server, short, mixed, sent, processed, replied, delivered>>
  BY <1>1, SizesAssumption DEF Open, TypeOK, Sessions
<1>3. session < n /\ server.conn < n /\ \A c \in Sessions : c # n => (c <= n <=> c <= session)
  <2>1. session \in Int /\ server.conn \in Int /\ server.conn <= session
    BY <1>1 DEF TypeOK
  <2> QED
    BY <2>1 DEF Sessions
<1> HIDE DEF n
<1>4. link \in [Sessions -> LinkType] /\ link[n] \in LinkType
  BY <1>1, <1>2 DEF Typed, TypeOK, LinkType
<1>5. /\ link' \in [Sessions -> LinkType]
      /\ link'[n].client = TRUE /\ link'[n].server = TRUE
      /\ \A c \in Sessions : /\ link'[c].up = link[c].up /\ link'[c].down = link[c].down
                             /\ c # n => link'[c] = link[c]
  BY <1>2, <1>4 DEF LinkType
<1>6. (\A t \in Threads : tx[t] = Idle) /\ Remains = <<>> /\ Remains' = <<>>
  <2>1. \A t \in Threads : tx[t] = Idle
    BY <1>1, <1>2 DEF LinkInv
  <2>2. Remains = <<>>
    BY <2>1, NoneBegun, RemainsNone
  <2> QED
    BY <1>2, <2>1, <2>2, RemainsSame
<1>7. TypeOK'
  <2>1. reader' \in ReaderType
    <3>1. 0 \in 0..Base*Base-1
      BY SizesAssumption
    <3> QED
      BY <1>2, <3>1 DEF ReaderType
  <2>2. \A c \in Sessions : Len(link'[c].up) <= Capacity /\ Len(link'[c].down) <= Capacity
    BY <1>1, <1>5 DEF TypeOK
  <2>3. server'.conn <= session'
    BY <1>1, <1>2, <1>3 DEF TypeOK
  <2> QED
    BY <1>1, <1>2, <1>5, <2>1, <2>2, <2>3 DEF TypeOK, LinkType, ReaderType
<1>8. LinkInv'
  <2>1. \A c \in Sessions : ~link[c].client
    BY <1>1, <1>2 DEF LinkInv
  <2>2. /\ running' => session' \in Sessions /\ link'[session'].client
        /\ \A c \in Sessions : link'[c].client => c = session' /\ running'
        /\ Reading' \/ (\E t \in Threads : tx'[t] # Idle) => running'
    BY <1>2, <1>5, <2>1
  <2>3. Busy' => server'.conn \in Sessions /\ link'[server'.conn].server
    BY <1>1, <1>2, <1>3, <1>5 DEF LinkInv, Busy
  <2>4. ASSUME NEW c \in Sessions
        PROVE  link'[c].server <=> /\ c <= session' /\ server'.pc # "killed"
                                   /\ server'.conn < c \/ (c = server'.conn /\ Busy')
    <3>1. CASE c = n
      <4>1. n <= n
        BY <1>2 DEF Sessions
      <4> QED
        BY <1>2, <1>3, <1>5, <3>1, <4>1
    <3>2. CASE c # n
      <4>1. link'[c].server <=> link[c].server
        BY <1>5, <3>2
      <4>2. Busy' <=> Busy
        BY <1>2 DEF Busy
      <4> QED
        BY <1>1, <1>2, <1>3, <3>2, <4>1, <4>2 DEF LinkInv
    <3> QED
      BY <3>1, <3>2
  <2> QED
    BY <2>2, <2>3, <2>4 DEF LinkInv
<1>9. FreshInv'
  <2>1. \A c \in Sessions : c > n => c > session
    BY <1>1, <1>3, <1>2 DEF TypeOK, Sessions
  <2> QED
    BY <1>1, <1>2, <1>5, <2>1 DEF FreshInv
<1>10. ReplyInv' /\ AloneInv'
  <2>1. \A t \in Threads : ~Begun(t)'
    BY <1>2, <1>6 DEF Begun, Idle
  <2> QED
    BY <1>1, <1>2, <2>1 DEF ReplyInv, AloneInv
<1>11. ASSUME NEW c \in Sessions PROVE UpInv(c)' /\ DownInv(c)'
  <2>1. CASE c = n
    <3>1. /\ link[n].up = <<>> /\ link[n].down = <<>> /\ sent[n] = <<>>
          /\ processed[n] = <<>> /\ replied[n] = <<>> /\ delivered[n] = <<>>
      <4>1. n > session
        BY <1>1, <1>2, <1>3 DEF TypeOK, Sessions
      <4> QED
        BY <1>1, <1>2, <4>1 DEF FreshInv
    <3>2. c # server.conn
      BY <1>1, <1>2, <1>3, <2>1 DEF TypeOK, Sessions
    <3>3. /\ UpHead(c)' = <<>> /\ UpTail(c)' = <<>>
          /\ DownHead(c)' = <<>> /\ DownTail(c)' = <<>>
      BY <1>2, <1>6, <3>2 DEF UpHead, UpTail, DownHead, DownTail
    <3>4. /\ link'[c].up = <<>> /\ link'[c].down = <<>> /\ link'[c].server = TRUE
          /\ sent'[c] = <<>> /\ processed'[c] = <<>>
          /\ replied'[c] = <<>> /\ delivered'[c] = <<>>
      BY <1>2, <1>5, <2>1, <3>1
    <3>5. (c = session' /\ running') = TRUE /\ (c = session' /\ Reading') = TRUE
      BY <1>2, <2>1 DEF Reading
    <3> QED
      BY <3>3, <3>4, <3>5, FlowNone DEF UpInv, DownInv
  <2>2. CASE c # n
    <3>1. UpStream(c)' = UpStream(c)
      BY <1>2, <1>5, <1>6, <2>2, RemainsSame DEF UpStream, UpHead, UpTail
    <3>2. UpInv(c)'
      BY <1>1, <1>2, <1>5, <1>7, <2>2, <3>1, UpSame
    <3>3. DownInv(c)'
      BY <1>1, <1>2, <1>7, <2>2, DownCut
    <3> QED
      BY <3>2, <3>3
  <2> QED
    BY <2>1, <2>2
<1> QED
  BY <1>7, <1>8, <1>9, <1>10, <1>11 DEF IInv

\* A thread whose tx waits to begin changes no stream.
LEMMA TxInv ==
  ASSUME NEW t \in Threads, NEW m \in Payloads PROVE IInv /\ Tx(t, m) => IInv'
<1> SUFFICES ASSUME IInv, Tx(t, m) PROVE IInv'
  OBVIOUS
<1>1. TypeOK /\ LinkInv /\ FreshInv /\ ReplyInv /\ AloneInv
      /\ \A c \in Sessions : Typed(c) /\ UpInv(c) /\ DownInv(c)
  BY Types DEF IInv
<1>2. /\ running /\ session \in Sessions /\ tx[t] = Idle
      /\ tx' = [tx EXCEPT ![t].msg = m]
      /\ UNCHANGED <<session, running, reader, server, link, short, mixed, sent, processed,
                     replied, delivered>>
  BY <1>1 DEF Tx, LinkInv
<1>3. tx \in [Threads -> TxType] /\ tx[t] \in TxType /\ m # <<>>
  BY <1>1, PayloadsAssumption DEF TypeOK, TxType
<1>4. /\ tx' \in [Threads -> TxType] /\ tx'[t].msg = m
      /\ \A u \in Threads : u # t => tx'[u] = tx[u]
  BY <1>2, <1>3 DEF TxType
<1>5. \A u \in Threads : /\ Begun(u)' <=> Begun(u)
                         /\ Begun(u) => tx'[u] = tx[u]
  BY <1>2, <1>3, <1>4 DEF Begun, Idle
<1>6. TypeOK'
  BY <1>1, <1>2, <1>4 DEF TypeOK, TxType
<1>7. LinkInv' /\ FreshInv' /\ ReplyInv'
  BY <1>1, <1>2 DEF LinkInv, FreshInv, ReplyInv, Busy, Reading
<1>8. AloneInv'
  BY <1>1, <1>2, <1>5 DEF AloneInv
<1>9. ASSUME ~mixed[session] PROVE Remains' = Remains
  <2>1. CASE \A u \in Threads : ~Begun(u)
    <3>1. \A u \in Threads : ~Begun(u)'
      BY <1>5, <2>1
    <3> QED
      BY <2>1, <3>1, RemainsNone, RemainsNoneNext
  <2>2. CASE \E u \in Threads : Begun(u)
    <3>1. PICK u \in Threads : Begun(u)
      BY <2>2
    <3>2. \A v \in Threads : (Begun(v) => v = u) /\ (Begun(v)' => v = u)
      BY <1>1, <1>2, <1>5, <1>9, <3>1 DEF AloneInv
    <3>3. Remains = IF Begun(u) THEN tx[u].left ELSE <<>>
      BY <3>2, RemainsOnly
    <3>4. Remains' = IF Begun(u)' THEN tx'[u].left ELSE <<>>
      BY <3>2, RemainsOnlyNext
    <3> QED
      BY <1>5, <3>1, <3>3, <3>4
  <2> QED
    BY <2>1, <2>2
<1>10. ASSUME NEW c \in Sessions PROVE UpInv(c)' /\ DownInv(c)'
  <2>1. DownStream(c)' = DownStream(c)
    BY <1>2 DEF DownStream, DownHead, DownTail
  <2>2. DownInv(c)'
    BY <1>1, <1>2, <1>6, <2>1, DownSame DEF Reading
  <2>3. CASE c = session /\ mixed[c]
    BY <1>2, <2>2, <2>3 DEF UpInv
  <2>4. CASE ~(c = session /\ mixed[c])
    <3>1. UpStream(c)' = UpStream(c)
      BY <1>2, <1>9, <2>4 DEF UpStream, UpHead, UpTail
    <3>2. UpInv(c)'
      BY <1>1, <1>2, <1>6, <3>1, UpSame
    <3> QED
      BY <2>2, <3>2
  <2> QED
    BY <2>2, <2>3, <2>4
<1> QED
  BY <1>6, <1>7, <1>8, <1>10 DEF IInv

\* A step of the reader's that reads nothing and does not bring it to life.
LEMMA ReaderMoves ==
  ASSUME IInv, reader' \in ReaderType, Reading' => Reading /\ DownHead(session)' = DownHead(session),
         UNCHANGED <<session, running, tx, server, link, short, mixed, sent, processed,
                     replied, delivered>>
  PROVE  IInv'
<1>1. TypeOK /\ LinkInv /\ FreshInv /\ ReplyInv /\ AloneInv
      /\ \A c \in Sessions : Typed(c) /\ UpInv(c) /\ DownInv(c)
  BY Types DEF IInv
<1>2. TypeOK'
  BY <1>1 DEF TypeOK, ReaderType
<1>3. LinkInv' /\ FreshInv' /\ ReplyInv' /\ AloneInv'
  BY <1>1, AloneSame DEF LinkInv, FreshInv, ReplyInv, Busy
<1>4. ASSUME NEW c \in Sessions PROVE UpInv(c)' /\ DownInv(c)'
  <2>1. UpStream(c)' = UpStream(c)
    BY RemainsSame DEF UpStream, UpHead, UpTail
  <2>2. UpInv(c)'
    BY <1>1, <1>2, <2>1, UpSame
  <2>3. c = session' /\ Reading' => DownStream(c)' = DownStream(c)
    BY DEF DownStream, DownTail
  <2>4. DownInv(c)'
    BY <1>1, <1>2, <2>3, DownSame
  <2> QED
    BY <2>2, <2>4
<1> QED
  BY <1>2, <1>3, <1>4 DEF IInv

LEMMA HandlerReturnsInv == IInv /\ HandlerReturns => IInv'
<1> SUFFICES ASSUME IInv, HandlerReturns PROVE IInv'
  OBVIOUS
<1>1. 0 \in 0..Base*Base-1
  BY SizesAssumption
<1>2. reader' \in ReaderType
  BY <1>1 DEF HandlerReturns, ReaderType
<1>3. Reading /\ DownHead(session)' = DownHead(session)
  BY DEF HandlerReturns, Reading, DownHead
<1> QED
  BY <1>2, <1>3, ReaderMoves DEF HandlerReturns

LEMMA InterruptInv == IInv /\ Interrupt => IInv'
<1> SUFFICES ASSUME IInv, Interrupt PROVE IInv'
  OBVIOUS
<1>1. 0 \in 0..Base*Base-1
  BY SizesAssumption
<1>2. reader' \in ReaderType /\ ~Reading'
  BY <1>1 DEF Interrupt, ReaderType, Reading
<1> QED
  BY <1>2, ReaderMoves DEF Interrupt

LEMMA CloseSocketInv == IInv /\ CloseSocket => IInv'
<1> SUFFICES ASSUME IInv, CloseSocket PROVE IInv'
  OBVIOUS
<1> DEFINE s == session
<1>1. TypeOK /\ LinkInv /\ FreshInv /\ ReplyInv /\ AloneInv
      /\ \A c \in Sessions : Typed(c) /\ UpInv(c) /\ DownInv(c)
  BY Types DEF IInv
<1>2. /\ running /\ s \in Sessions /\ running' = FALSE /\ reader' = NoReader
      /\ tx' = [t \in Threads |-> Idle]
      /\ link' = [link EXCEPT ![s].client = FALSE, ![s].down = <<>>]
      /\ UNCHANGED <<session, server, short, mixed, sent, processed, replied, delivered>>
  BY <1>1 DEF CloseSocket, LinkInv
<1> HIDE DEF s
<1>3. link \in [Sessions -> LinkType] /\ link[s] \in LinkType
  BY <1>1, <1>2 DEF Typed, TypeOK, LinkType
<1>4. /\ link' \in [Sessions -> LinkType]
      /\ link'[s].client = FALSE /\ link'[s].down = <<>>
      /\ \A c \in Sessions : /\ link'[c].up = link[c].up /\ link'[c].server = link[c].server
                             /\ c # s => link'[c] = link[c]
  BY <1>2, <1>3, NoBytes DEF LinkType
<1>5. tx' \in [Threads -> TxType] /\ \A t \in Threads : tx'[t] = Idle /\ ~Begun(t)'
  <2>1. Idle \in TxType
    BY NoBytes DEF Idle, TxType
  <2> QED
    BY <1>2, <2>1 DEF Begun, Idle
<1>6. TypeOK'
  <2>1. reader' \in ReaderType
    <3>1. 0 \in 0..Base*Base-1
      BY SizesAssumption
    <3> QED
      BY <1>2, <3>1 DEF NoReader, ReaderType
  <2>2. \A c \in Sessions : Len(link'[c].up) <= Capacity /\ Len(link'[c].down) <= Capacity
    <3>1. Len(<<>>) <= Capacity
      BY SizesAssumption, NoBytes
    <3> QED
      BY <1>1, <1>4, <3>1 DEF TypeOK
  <2> QED
    BY <1>1, <1>2, <1>4, <1>5, <2>1, <2>2 DEF TypeOK, LinkType, ReaderType, TxType
<1>7. LinkInv' /\ AloneInv'
  <2>1. \A c \in Sessions : ~link'[c].client
    BY <1>1, <1>4 DEF LinkInv, s
  <2>2. ~Reading'
    BY <1>2 DEF Reading, NoReader
  <2> QED
    BY <1>1, <1>2, <1>4, <1>5, <2>1, <2>2 DEF LinkInv, AloneInv, Busy
<1>8. FreshInv' /\ ReplyInv'
  <2>1. \A c \in Sessions : c > session => c # s
    BY <1>2 DEF Sessions, s
  <2> QED
    BY <1>1, <1>2, <1>4, <2>1, KeptFresh
<1>9. ASSUME NEW c \in Sessions PROVE UpInv(c)' /\ DownInv(c)'
  <2>1. ~Reading'
    BY <1>2 DEF Reading, NoReader
  <2>2. DownInv(c)'
    BY <1>1, <1>2, <1>6, <2>1, DownCut
  <2>3. UpHead(c) \in Bytes /\ UpTail(c) \in Bytes /\ link[c].up \in Bytes
    BY <1>1 DEF Typed
  <2>4. UpTail(c)' = <<>>
    BY <1>5, RemainsNoneNext DEF UpTail
  <2>5. UpStream(c)' = Stream(UpHead(c), link[c].up, <<>>)
    BY <1>2, <1>4, <2>4 DEF UpStream, UpHead
  <2>6. Cut(UpStream(c)', UpStream(c))
    BY <2>3, <2>5, StreamCut, CutSame DEF UpStream
  <2>7. UpInv(c)'
    BY <1>1, <1>2, <1>4, <1>6, <2>6, UpCut
  <2> QED
    BY <2>2, <2>7
<1> QED
  BY <1>6, <1>7, <1>8, <1>9 DEF IInv

LEMMA AcceptInv == IInv /\ Accept => IInv'
<1> SUFFICES ASSUME IInv, Accept PROVE IInv'
  OBVIOUS
<1> DEFINE n == server.conn + 1
<1>1. TypeOK /\ LinkInv /\ FreshInv /\ ReplyInv /\ AloneInv
      /\ \A c \in Sessions : Typed(c) /\ UpInv(c) /\ DownInv(c)
  BY Types DEF IInv
<1>2. /\ server.pc = "accept" /\ server.conn < session /\ server.out = <<>>
      /\ server' = [server EXCEPT !.conn = @ + 1, !.pc = "header"]
      /\ UNCHANGED <<session, running, tx, reader, short, mixed, sent, delivered, link, processed,
                     replied>>
  BY <1>1 DEF Accept, Stays, client, TypeOK
<1>3. n \in Sessions /\ n \in 0..MaxSessions /\ n <= session
  BY <1>1, <1>2, SizesAssumption DEF TypeOK, Sessions
<1>4. /\ server'.conn = n /\ server'.pc = "header" /\ server'.out = <<>>
      /\ server' \in [conn: 0..MaxSessions, size: 0..Buffer, out: Bytes,
                      pc: {"accept", "header", "body", "write", "killed"}]
  BY <1>1, <1>2, <1>3 DEF TypeOK
<1>5. TypeOK'
  BY <1>1, <1>2, <1>3, <1>4 DEF TypeOK
<1>6. LinkInv'
  <2>1. ~Busy /\ Busy'
    BY <1>2, <1>4 DEF Busy
  <2>2. \A c \in Sessions : server.conn < c <=> n < c \/ c = n
    BY <1>1 DEF TypeOK, Sessions
  <2> HIDE DEF n
  <2>3. \A c \in Sessions : link[c].server <=> c <= session /\ (n < c \/ c = n)
    BY <1>1, <1>2, <2>1, <2>2 DEF LinkInv
  <2>4. link[n].server
    BY <1>3, <2>3
  <2> QED
    BY <1>1, <1>2, <1>3, <1>4, <2>1, <2>3, <2>4 DEF LinkInv, Reading
<1>7. FreshInv' /\ ReplyInv'
  BY <1>1, <1>2, KeptFresh
<1>8. ASSUME NEW c \in Sessions PROVE UpInv(c)' /\ DownInv(c)'
  <2>1. UpStream(c)' = UpStream(c) /\ DownStream(c)' = DownStream(c)
    BY <1>2, <1>4, RemainsSame DEF UpStream, UpHead, UpTail, DownStream, DownHead, DownTail
  <2>2. UpInv(c)'
    BY <1>1, <1>2, <1>5, <2>1, UpSame
  <2>3. DownInv(c)'
    BY <1>1, <1>2, <1>5, <2>1, DownSame DEF Reading
  <2> QED
    BY <2>2, <2>3
<1> QED
  BY <1>1, <1>2, AloneSame, <1>5, <1>6, <1>7, <1>8 DEF IInv

\* What ReaderHeader and ReaderBody share: a read of at most n bytes by the client.
LEMMA ReadDown ==
  ASSUME TypeOK, LinkInv, FreshInv, ReplyInv, session \in Sessions, NEW n \in Nat,
         link' = [link EXCEPT ![session].down = Left(@, n)],
         UNCHANGED <<session, running, tx, server, sent, processed, replied>>
  PROVE  /\ link' \in [Sessions -> LinkType]
         /\ link'[session].down = Left(link[session].down, n)
         /\ \A c \in Sessions : /\ link'[c].up = link[c].up
                                /\ link'[c].client = link[c].client
                                /\ link'[c].server = link[c].server
                                /\ c # session => link'[c] = link[c]
         /\ \A c \in Sessions : Len(link'[c].up) <= Capacity /\ Len(link'[c].down) <= Capacity
         /\ ReplyInv'
         /\ \A c \in Sessions : c > session => c # session
<1>1. /\ link \in [Sessions -> LinkType] /\ link[session] \in LinkType
      /\ link[session].down \in Bytes
  BY Types DEF Typed, TypeOK, LinkType
<1> DEFINE new == Left(link[session].down, n)
<1>2. /\ new \in Bytes /\ Len(link[session].down) = Len(Taken(link[session].down, n)) + Len(new)
      /\ Taken(link[session].down, n) \in Bytes
  BY <1>1, Takes
<1>3. link' = [link EXCEPT ![session].down = new]
  OBVIOUS
<1> HIDE DEF new
<1>4. /\ link' \in [Sessions -> LinkType] /\ link'[session].down = new
      /\ \A c \in Sessions : /\ link'[c].up = link[c].up
                             /\ link'[c].client = link[c].client
                             /\ link'[c].server = link[c].server
                             /\ c # session => link'[c] = link[c]
  BY <1>1, <1>2, <1>3 DEF LinkType
<1>5. Len(new) <= Capacity
  <2>1. Len(link[session].down) <= Capacity
    BY DEF TypeOK
  <2>2. Len(new) \in Nat /\ Len(Taken(link[session].down, n)) \in Nat
    BY <1>2 DEF Bytes
  <2> QED
    BY <1>2, <2>1, <2>2, SizesAssumption
<1>6. \A c \in Sessions : Len(link'[c].up) <= Capacity /\ Len(link'[c].down) <= Capacity
  BY <1>4, <1>5 DEF TypeOK
<1>7. ReplyInv'
  BY DEF ReplyInv
<1>8. \A c \in Sessions : c > session => c # session
  BY DEF Sessions
<1> QED
  BY <1>4, <1>6, <1>7, <1>8 DEF new

LEMMA ReaderHeaderInv == IInv /\ ReaderHeader => IInv'
<1> SUFFICES ASSUME IInv, ReaderHeader PROVE IInv'
  OBVIOUS
<1> DEFINE stream == link[session].down
           got == Taken(stream, 2)
<1>1. TypeOK /\ LinkInv /\ FreshInv /\ ReplyInv /\ AloneInv
      /\ \A c \in Sessions : Typed(c) /\ UpInv(c) /\ DownInv(c)
  BY Types DEF IInv
<1>2. /\ reader.pc = "header" /\ running /\ session \in Sessions
      /\ reader' = IF Len(got) < 2 THEN NoReader
                   ELSE [pc |-> "body", size |-> Unpack(got)]
      /\ link' = [link EXCEPT ![session].down = Left(@, 2)]
      /\ short' = [short EXCEPT ![session] = @ \/ Len(got) = 1]
      /\ UNCHANGED <<session, running, tx, server, mixed, sent, processed, replied, delivered>>
  BY <1>1 DEF ReaderHeader, LinkInv, Reading
<1>3. stream \in Bytes
  BY <1>1, <1>2 DEF Typed
<1>4. /\ link' \in [Sessions -> LinkType] /\ link'[session].down = Left(stream, 2)
      /\ \A c \in Sessions : /\ link'[c].up = link[c].up
                             /\ link'[c].client = link[c].client
                             /\ link'[c].server = link[c].server
                             /\ c # session => link'[c] = link[c]
      /\ \A c \in Sessions : Len(link'[c].up) <= Capacity /\ Len(link'[c].down) <= Capacity
      /\ ReplyInv'
      /\ \A c \in Sessions : c > session => c # session
  BY <1>1, <1>2, ReadDown
<1>5. Len(got) \in Nat /\ Len(got) <= 2
  <2>1. Len(stream) \in Nat /\ Len(got) = (IF 2 < Len(stream) THEN 2 ELSE Len(stream))
    BY <1>3, Takes DEF Bytes
  <2> HIDE DEF stream, got
  <2> QED
    BY <2>1
<1> HIDE DEF stream, got
<1>6. Len(got) < 2 \/ Len(got) = 2
  <2>1. \A x \in Nat : x <= 2 => x < 2 \/ x = 2
    OBVIOUS
  <2> QED
    BY <1>5, <2>1
<1>7. short' \in [Sessions -> BOOLEAN] /\ \A c \in Sessions : ~short'[c] => ~short[c]
  BY <1>1, <1>2 DEF TypeOK
<1>8. Len(got) = 2 => /\ Unpack(got) \in 0..Base*Base-1
                      /\ Stream(Header(Unpack(got)), Left(stream, 2), DownTail(session))
                           = Stream(<<>>, stream, DownTail(session))
  BY <1>1, <1>2, <1>3, StreamHeader DEF Typed, got
<1>9. TypeOK'
  <2>1. reader' \in ReaderType
    <3>1. 0 \in 0..Base*Base-1
      BY SizesAssumption
    <3> QED
      BY <1>2, <1>6, <1>8, <3>1 DEF NoReader, ReaderType
  <2> QED
    BY <1>1, <1>2, <1>4, <1>7, <2>1 DEF TypeOK, LinkType, ReaderType
<1>10. LinkInv'
  BY <1>1, <1>2, <1>4 DEF LinkInv, Busy, Reading
<1>11. FreshInv'
  BY <1>1, <1>2, <1>4 DEF FreshInv
<1>12. ASSUME NEW c \in Sessions PROVE UpInv(c)' /\ DownInv(c)'
  <2>1. UpStream(c)' = UpStream(c)
    BY <1>2, <1>4, RemainsSame DEF UpStream, UpHead, UpTail
  <2>2. UpInv(c)'
    BY <1>1, <1>2, <1>4, <1>9, <2>1, UpSame
  <2>3. c = session' /\ Reading' => DownStream(c)' = DownStream(c)
    <3> SUFFICES ASSUME c = session', Reading'
                 PROVE  DownStream(c)' = DownStream(c)
      OBVIOUS
    <3>1. Len(got) = 2
      BY <1>2, <1>6 DEF NoReader, Reading
    <3>2. /\ DownHead(c) = <<>> /\ DownHead(c)' = Header(Unpack(got))
          /\ DownTail(c)' = DownTail(c) /\ c = session
      BY <1>2, <3>1 DEF DownHead, DownTail
    <3> QED
      BY <1>4, <1>8, <3>1, <3>2 DEF DownStream, stream
  <2>4. DownInv(c)'
    BY <1>1, <1>2, <1>4, <1>7, <1>9, <2>3, DownSame DEF Reading
  <2> QED
    BY <2>2, <2>4
<1> QED
  BY <1>1, <1>2, AloneSame, <1>4, <1>9, <1>10, <1>11, <1>12 DEF IInv

LEMMA ReaderBodyInv == IInv /\ ReaderBody => IInv'
<1> SUFFICES ASSUME IInv, ReaderBody PROVE IInv'
  OBVIOUS
<1> DEFINE stream == link[session].down
           n == reader.size
           got == Taken(stream, n)
<1>1. TypeOK /\ LinkInv /\ FreshInv /\ ReplyInv /\ AloneInv
      /\ \A c \in Sessions : Typed(c) /\ UpInv(c) /\ DownInv(c)
  BY Types DEF IInv
<1>2. /\ reader.pc = "body" /\ running /\ session \in Sessions
      /\ \/ reader' = [pc |-> "header", size |-> 0]
         \/ reader' = [pc |-> "handler", size |-> 0]
      /\ link' = [link EXCEPT ![session].down = Left(@, n)]
      /\ delivered' = [delivered EXCEPT ![session] = IF got = <<>> THEN @ ELSE Append(@, got)]
      /\ short' = [short EXCEPT ![session] = @ \/ Len(got) < n]
      /\ UNCHANGED <<session, running, tx, server, mixed, sent, processed, replied>>
  BY <1>1 DEF ReaderBody, LinkInv, Reading
<1>3. stream \in Bytes /\ n \in 0..Base*Base-1 /\ n \in Nat
  BY <1>1, <1>2, SizesAssumption DEF Typed, TypeOK
<1>4. /\ link' \in [Sessions -> LinkType] /\ link'[session].down = Left(stream, n)
      /\ \A c \in Sessions : /\ link'[c].up = link[c].up
                             /\ link'[c].client = link[c].client
                             /\ link'[c].server = link[c].server
                             /\ c # session => link'[c] = link[c]
      /\ \A c \in Sessions : Len(link'[c].up) <= Capacity /\ Len(link'[c].down) <= Capacity
      /\ ReplyInv'
      /\ \A c \in Sessions : c > session => c # session
  BY <1>1, <1>2, <1>3, ReadDown
<1>5. got \in Bytes /\ (Len(got) < n \/ Len(got) = n)
  <2> HIDE DEF stream, n
  <2>1. /\ Len(stream) \in Nat /\ got \in Bytes
        /\ Len(got) = (IF n < Len(stream) THEN n ELSE Len(stream))
    BY <1>3, Takes DEF Bytes
  <2> HIDE DEF got
  <2> QED
    BY <1>3, <2>1
<1> HIDE DEF stream, got, n
<1>6. /\ short' \in [Sessions -> BOOLEAN] /\ \A c \in Sessions : ~short'[c] => ~short[c]
      /\ ~short'[session] => Len(got) = n
  BY <1>1, <1>2, <1>5 DEF TypeOK
<1>7. /\ delivered' \in [Sessions -> Seq(Bytes)]
      /\ delivered'[session] = IF got = <<>> THEN delivered[session]
                               ELSE Append(delivered[session], got)
      /\ \A c \in Sessions : c # session => delivered'[c] = delivered[c]
  <2>1. delivered \in [Sessions -> Seq(Bytes)]
    BY <1>1 DEF TypeOK
  <2> DEFINE new == IF got = <<>> THEN delivered[session] ELSE Append(delivered[session], got)
  <2>2. new \in Seq(Bytes)
    BY <1>2, <1>5, <2>1
  <2>3. delivered' = [delivered EXCEPT ![session] = new]
    BY <1>2
  <2> HIDE DEF new
  <2>4. /\ delivered' \in [Sessions -> Seq(Bytes)] /\ delivered'[session] = new
        /\ \A c \in Sessions : c # session => delivered'[c] = delivered[c]
    BY <1>2, <2>1, <2>2, <2>3
  <2> QED
    BY <2>4 DEF new
<1>8. TypeOK'
  <2>1. reader' \in ReaderType
    <3>1. 0 \in 0..Base*Base-1
      BY SizesAssumption
    <3> QED
      BY <1>2, <3>1 DEF ReaderType
  <2>2. {processed', replied', delivered'} \subseteq [Sessions -> Seq(Bytes)]
    BY <1>1, <1>2, <1>7 DEF TypeOK
  <2> QED
    BY <1>1, <1>2, <1>4, <1>6, <2>1, <2>2 DEF TypeOK, LinkType, ReaderType
<1>9. LinkInv'
  BY <1>1, <1>2, <1>4 DEF LinkInv, Busy
<1>10. FreshInv'
  BY <1>1, <1>2, <1>4, <1>7 DEF FreshInv
<1>11. ASSUME NEW c \in Sessions PROVE UpInv(c)' /\ DownInv(c)'
  <2>1. UpStream(c)' = UpStream(c)
    BY <1>2, <1>4, RemainsSame DEF UpStream, UpHead, UpTail
  <2>2. UpInv(c)'
    BY <1>1, <1>2, <1>4, <1>8, <2>1, UpSame
  <2>3. CASE c # session
    <3>1. DownInv(c)'
      BY <1>1, <1>2, <1>6, <1>7, <1>8, <2>3, DownCut
    <3> QED
      BY <2>2, <3>1
  <2>4. CASE c = session
    <3> SUFFICES ASSUME ~short'[c]
                 PROVE  Flow(Stream(DownHead(c)', link'[c].down, DownTail(c)'), replied'[c],
                             delivered'[c], c = session' /\ Reading',
                             link'[c].server)
      BY <2>2 DEF DownInv
    <3> DEFINE t == DownTail(c)
               e == link[c].server
               ms == replied[c]
               k == delivered[c]
    <3>1. /\ t \in Bytes /\ e \in BOOLEAN /\ n \in Sizes /\ stream \in Bytes
          /\ ms \in Seq(Bytes) /\ k \in Seq(Bytes)
      BY <1>1, <1>3 DEF Typed, Sizes
    <3>2. ~short[c] /\ Len(Taken(stream, n)) = n
      BY <1>6, <2>4 DEF got
    <3>3. Read(Stream(Header(n), stream, t), ms, k, e)
      <4>1. DownHead(c) = Header(n) /\ link[c].down = stream /\ c = session /\ Reading
        BY <1>2, <2>4 DEF DownHead, Reading, stream, n
      <4> QED
        BY <1>1, <3>2, <4>1 DEF DownInv, Flow, Read
    <3>4. /\ DownHead(c)' = <<>> /\ link'[c].down = Left(stream, n) /\ DownTail(c)' = t
          /\ link'[c].server = e /\ replied'[c] = ms
      BY <1>2, <1>4, <2>4 DEF DownHead, DownTail
    <3> HIDE DEF t, e, ms, k
    <3>5. /\ Read(Stream(<<>>, Left(stream, n), t), ms, Append(k, Taken(stream, n)), e)
          /\ Small(ms) => \E i \in 1..Len(ms) : Taken(stream, n) = ms[i]
      BY <3>1, <3>2, <3>3, FlowNext
    <3>6. got # <<>>
      BY <1>1, <3>5 DEF ReplyInv, got, ms
    <3>7. delivered'[c] = Append(delivered[c], got)
      BY <1>7, <2>4, <3>6
    <3> QED
      BY <3>4, <3>5, <3>7 DEF Flow, Read, got, k
  <2> QED
    BY <2>3, <2>4
<1> QED
  BY <1>1, <1>2, AloneSame, <1>4, <1>8, <1>9, <1>10, <1>11 DEF IInv

ServerType == [conn: 0..MaxSessions, size: 0..Buffer, out: Bytes,
               pc: {"accept", "header", "body", "write", "killed"}]

\* What ServerHeader and ServerBody share: a read of at most n bytes by the server.
LEMMA ReadUp ==
  ASSUME TypeOK, NEW s \in Sessions, s <= session, NEW n \in Nat,
         link' = [link EXCEPT ![s].up = Left(@, n)]
  PROVE  /\ link' \in [Sessions -> LinkType]
         /\ link'[s].up = Left(link[s].up, n)
         /\ \A c \in Sessions : /\ link'[c].down = link[c].down
                                /\ link'[c].client = link[c].client
                                /\ link'[c].server = link[c].server
                                /\ c # s => link'[c] = link[c]
         /\ \A c \in Sessions : Len(link'[c].up) <= Capacity /\ Len(link'[c].down) <= Capacity
         /\ \A c \in Sessions : c > session => c # s
<1>1. /\ link \in [Sessions -> LinkType] /\ link[s] \in LinkType /\ link[s].up \in Bytes
  BY Types DEF Typed, TypeOK, LinkType
<1> DEFINE new == Left(link[s].up, n)
<1>2. /\ new \in Bytes /\ Len(link[s].up) = Len(Taken(link[s].up, n)) + Len(new)
      /\ Taken(link[s].up, n) \in Bytes
  BY <1>1, Takes
<1>3. link' = [link EXCEPT ![s].up = new]
  OBVIOUS
<1> HIDE DEF new
<1>4. /\ link' \in [Sessions -> LinkType] /\ link'[s].up = new
      /\ \A c \in Sessions : /\ link'[c].down = link[c].down
                             /\ link'[c].client = link[c].client
                             /\ link'[c].server = link[c].server
                             /\ c # s => link'[c] = link[c]
  BY <1>1, <1>2, <1>3 DEF LinkType
<1>5. Len(new) <= Capacity
  <2>1. Len(link[s].up) <= Capacity
    BY DEF TypeOK
  <2>2. Len(new) \in Nat /\ Len(Taken(link[s].up, n)) \in Nat
    BY <1>2 DEF Bytes
  <2> QED
    BY <1>2, <2>1, <2>2, SizesAssumption
<1>6. \A c \in Sessions : Len(link'[c].up) <= Capacity /\ Len(link'[c].down) <= Capacity
  BY <1>4, <1>5 DEF TypeOK
<1>7. \A c \in Sessions : c > session => c # s
  BY DEF TypeOK, Sessions
<1> QED
  BY <1>4, <1>6, <1>7 DEF new

LEMMA LeavesInv ==
  ASSUME IInv, NEW s \in Sessions, s = server.conn, server.pc \in {"header", "body"},
         Leaves(s), UNCHANGED <<client, processed, replied>>
  PROVE  IInv'
<1>1. TypeOK /\ LinkInv /\ FreshInv /\ ReplyInv /\ AloneInv
      /\ \A c \in Sessions : Typed(c) /\ UpInv(c) /\ DownInv(c)
  BY Types DEF IInv
<1>2. /\ server'.conn = s /\ server'.pc = "accept" /\ server'.size = 0 /\ server'.out = <<>>
      /\ server' \in ServerType
  <2>1. s \in 0..MaxSessions
    BY <1>1 DEF TypeOK
  <2> QED
    BY <2>1, NoBytes, SizesAssumption DEF Leaves, Listening, ServerType
<1>3. UNCHANGED <<session, running, tx, reader, short, mixed, sent, delivered, processed, replied>>
  BY DEF client
<1>4. link \in [Sessions -> LinkType] /\ link[s] \in LinkType
  BY <1>1 DEF Typed, TypeOK, LinkType
<1>5. /\ link' \in [Sessions -> LinkType]
      /\ link'[s].server = FALSE /\ link'[s].up = <<>>
      /\ \A c \in Sessions : /\ link'[c].down = link[c].down
                             /\ link'[c].client = link[c].client
                             /\ c # s => link'[c] = link[c]
  BY <1>4, NoBytes DEF LinkType, Leaves
<1>6. s <= session /\ server.out = <<>>
  BY <1>1 DEF TypeOK
<1>7. TypeOK'
  <2>1. \A c \in Sessions : Len(link'[c].up) <= Capacity /\ Len(link'[c].down) <= Capacity
    <3>1. Len(<<>>) <= Capacity
      BY SizesAssumption, NoBytes
    <3> QED
      BY <1>1, <1>5, <3>1 DEF TypeOK
  <2> QED
    BY <1>1, <1>2, <1>3, <1>5, <1>6, <2>1 DEF TypeOK, LinkType, ServerType
<1>8. LinkInv'
  <2>1. ~Busy'
    BY <1>2 DEF Busy
  <2>2. ASSUME NEW c \in Sessions
        PROVE  link'[c].server <=> c <= session /\ s < c
    <3>1. CASE c = s
      BY <1>5, <3>1 DEF Sessions
    <3>2. CASE c # s
      BY <1>1, <1>5, <3>2 DEF LinkInv
    <3> QED
      BY <3>1, <3>2
  <2> QED
    BY <1>1, <1>2, <1>3, <1>5, <2>1, <2>2 DEF LinkInv, Reading
<1>9. FreshInv' /\ ReplyInv'
  <2>1. \A c \in Sessions : c > session => c # s
    BY <1>1, <1>6 DEF Sessions, TypeOK
  <2> QED
    BY <1>1, <1>3, <1>5, <2>1, KeptFresh
<1>10. ASSUME NEW c \in Sessions PROVE UpInv(c)' /\ DownInv(c)'
  <2>1. link'[c].server => link[c].server /\ UpStream(c)' = UpStream(c)
    BY <1>2, <1>3, <1>5, RemainsSame DEF UpStream, UpHead, UpTail
  <2>2. UpInv(c)'
    BY <1>1, <1>3, <1>7, <2>1, UpSame
  <2>3. DownStream(c)' = DownStream(c)
    BY <1>2, <1>3, <1>5, <1>6 DEF DownStream, DownHead, DownTail
  <2>4. DownInv(c)'
    BY <1>1, <1>3, <1>7, <2>1, <2>3, DownSame DEF Reading
  <2> QED
    BY <2>2, <2>4
<1> QED
  BY <1>1, <1>3, AloneSame, <1>7, <1>8, <1>9, <1>10 DEF IInv

LEMMA ServerHeaderInv == IInv /\ ServerHeader => IInv'
<1> SUFFICES ASSUME IInv, ServerHeader PROVE IInv'
  OBVIOUS
<1> DEFINE s == server.conn
           stream == link[s].up
           got == Taken(stream, 2)
           n == Unpack(got)
<1>1. TypeOK /\ LinkInv /\ FreshInv /\ ReplyInv /\ AloneInv
      /\ \A c \in Sessions : Typed(c) /\ UpInv(c) /\ DownInv(c)
  BY Types DEF IInv
<1>2. server.pc = "header" /\ s \in Sessions /\ s <= session /\ server.out = <<>>
  BY <1>1 DEF ServerHeader, LinkInv, Busy, TypeOK
<1>3. UNCHANGED <<session, running, tx, reader, short, mixed, sent, delivered, processed, replied>>
  BY DEF ServerHeader, Stays, client
<1>4. CASE Leaves(s)
  <2>1. UNCHANGED <<client, processed, replied>>
    BY DEF ServerHeader, Stays
  <2> QED
    BY <1>2, <1>4, <2>1, LeavesInv
<1>5. CASE ~Leaves(s)
  <2>1. /\ Len(got) = 2 /\ Fits(n)
        /\ server' = [server EXCEPT !.pc = "body", !.size = n]
        /\ link' = [link EXCEPT ![s].up = Left(@, 2)]
    BY <1>5 DEF ServerHeader
  <2>2. stream \in Bytes
    BY <1>1, <1>2 DEF Typed
  <2>3. /\ link' \in [Sessions -> LinkType] /\ link'[s].up = Left(stream, 2)
        /\ \A c \in Sessions : /\ link'[c].down = link[c].down
                               /\ link'[c].client = link[c].client
                               /\ link'[c].server = link[c].server
                               /\ c # s => link'[c] = link[c]
        /\ \A c \in Sessions : Len(link'[c].up) <= Capacity /\ Len(link'[c].down) <= Capacity
        /\ \A c \in Sessions : c > session => c # s
    <3> HIDE DEF s
    <3> QED
      BY <1>1, <1>2, <2>1, ReadUp
  <2>4. UpTail(s) \in Bytes
    BY <1>1, <1>2 DEF Typed
  <2> HIDE DEF stream
  <2>5. /\ n \in 0..Base*Base-1
        /\ Stream(Header(n), Left(stream, 2), UpTail(s)) = Stream(<<>>, stream, UpTail(s))
    BY <2>1, <2>2, <2>4, StreamHeader
  <2> HIDE DEF got, n
  <2>6. n \in 0..Buffer
    BY <2>1, <2>5, SizesAssumption DEF Fits
  <2>7. /\ server'.conn = s /\ server'.pc = "body" /\ server'.size = n /\ server'.out = <<>>
        /\ server' \in ServerType
    BY <1>1, <1>2, <2>1, <2>6 DEF TypeOK, ServerType
  <2> HIDE DEF s
  <2>8. TypeOK'
    BY <1>1, <1>2, <1>3, <2>3, <2>7 DEF TypeOK, LinkType, ServerType
  <2>9. LinkInv'
    BY <1>1, <1>2, <1>3, <2>3, <2>7 DEF LinkInv, Reading, Busy, s
  <2>10. FreshInv' /\ ReplyInv'
    BY <1>1, <1>3, <2>3, KeptFresh
  <2>11. ASSUME NEW c \in Sessions PROVE UpInv(c)' /\ DownInv(c)'
    <3>1. UpStream(c)' = UpStream(c)
      <4>1. CASE c = s
        <5>1. UpHead(c) = <<>> /\ UpHead(c)' = Header(n) /\ UpTail(c)' = UpTail(c)
          BY <1>2, <1>3, <2>7, <4>1, RemainsSame DEF UpHead, UpTail, s
        <5> QED
          BY <2>3, <2>5, <4>1, <5>1 DEF UpStream, stream
      <4>2. CASE c # s
        BY <1>3, <2>3, <2>7, <4>2, RemainsSame DEF UpStream, UpHead, UpTail, s
      <4> QED
        BY <4>1, <4>2
    <3>2. UpInv(c)'
      BY <1>1, <1>3, <2>3, <2>8, <3>1, UpSame
    <3>3. DownStream(c)' = DownStream(c)
      BY <1>2, <1>3, <2>3, <2>7 DEF DownStream, DownHead, DownTail, s
    <3>4. DownInv(c)'
      BY <1>1, <1>3, <2>3, <2>8, <3>3, DownSame DEF Reading
    <3> QED
      BY <3>2, <3>4
  <2> QED
    BY <1>1, <1>3, AloneSame, <2>8, <2>9, <2>10, <2>11 DEF IInv
<1> QED
  BY <1>4, <1>5

LEMMA ServerWrittenInv == IInv /\ ServerWritten => IInv'
<1> SUFFICES ASSUME IInv, ServerWritten PROVE IInv'
  OBVIOUS
<1> DEFINE s == server.conn
<1>1. TypeOK /\ LinkInv /\ FreshInv /\ ReplyInv /\ AloneInv
      /\ \A c \in Sessions : Typed(c) /\ UpInv(c) /\ DownInv(c)
  BY Types DEF IInv
<1>2. /\ server.pc = "write" /\ s \in Sessions /\ s <= session
      /\ server.out = <<>> \/ ~link[s].client
  BY <1>1 DEF ServerWritten, LinkInv, Busy, TypeOK
<1>3. UNCHANGED <<session, running, tx, reader, short, mixed, sent, delivered, processed, replied>>
  BY DEF ServerWritten, Stays, client
<1>4. link \in [Sessions -> LinkType]
  BY <1>1 DEF TypeOK, LinkType
\* A client that reads is there, so that nothing was left to write to it.
<1>5. \A c \in Sessions : c = session /\ Reading => DownTail(c) = <<>>
  BY <1>1, <1>2 DEF LinkInv, DownTail
<1>6. CASE server' = [server EXCEPT !.pc = "header", !.out = <<>>] /\ link' = link
  <2>1. /\ server'.conn = s /\ server'.pc = "header" /\ server'.out = <<>>
        /\ server' \in ServerType
    BY <1>1, <1>6, NoBytes DEF TypeOK, ServerType
  <2>2. TypeOK'
    BY <1>1, <1>2, <1>3, <1>6, <2>1 DEF TypeOK, ServerType
  <2>3. LinkInv'
    BY <1>1, <1>2, <1>3, <1>6, <2>1 DEF LinkInv, Busy, Reading
  <2>4. FreshInv' /\ ReplyInv'
    BY <1>1, <1>3, <1>6, KeptFresh
  <2>5. ASSUME NEW c \in Sessions PROVE UpInv(c)' /\ DownInv(c)'
    <3>1. UpStream(c)' = UpStream(c)
      BY <1>2, <1>3, <1>6, <2>1, RemainsSame DEF UpStream, UpHead, UpTail
    <3>2. UpInv(c)'
      BY <1>1, <1>3, <1>6, <2>2, <3>1, UpSame
    <3>3. c = session /\ Reading => DownStream(c)' = DownStream(c)
      BY <1>3, <1>5, <1>6, <2>1 DEF DownStream, DownHead, DownTail
    <3>4. DownInv(c)'
      BY <1>1, <1>3, <1>6, <2>2, <3>3, DownSame DEF Reading
    <3> QED
      BY <3>2, <3>4
  <2> QED
    BY <1>1, <1>3, AloneSame, <2>2, <2>3, <2>4, <2>5 DEF IInv
<1>7. CASE /\ server' = [server EXCEPT !.pc = "killed", !.out = <<>>]
           /\ link' = [d \in Sessions |-> [link[d] EXCEPT !.server = FALSE]]
  <2>1. /\ server'.conn = s /\ server'.pc = "killed" /\ server'.out = <<>>
        /\ server' \in ServerType
    BY <1>1, <1>7, NoBytes DEF TypeOK, ServerType
  <2>2. /\ link' \in [Sessions -> LinkType]
        /\ \A c \in Sessions : /\ link'[c].up = link[c].up /\ link'[c].down = link[c].down
                               /\ link'[c].client = link[c].client
                               /\ link'[c].server = FALSE
    BY <1>4, <1>7 DEF LinkType
  <2>3. TypeOK'
    BY <1>1, <1>2, <1>3, <2>1, <2>2 DEF TypeOK, LinkType, ServerType
  <2>4. LinkInv'
    BY <1>1, <1>2, <1>3, <2>1, <2>2 DEF LinkInv, Busy, Reading
  <2>5. FreshInv' /\ ReplyInv'
    BY <1>1, <1>3, <2>2, KeptFresh
  <2>6. ASSUME NEW c \in Sessions PROVE UpInv(c)' /\ DownInv(c)'
    <3>1. UpInv(c)'
      BY <1>1, <1>3, <2>2, <2>3, UpCut
    <3>2. c = session /\ Reading => DownStream(c)' = DownStream(c)
      BY <1>3, <1>5, <2>1, <2>2 DEF DownStream, DownHead, DownTail
    <3>3. DownInv(c)'
      BY <1>1, <1>3, <2>2, <2>3, <3>2, DownSame DEF Reading
    <3> QED
      BY <3>1, <3>3
  <2> QED
    BY <1>1, <1>3, AloneSame, <2>3, <2>4, <2>5, <2>6 DEF IInv
<1> QED
  BY <1>6, <1>7 DEF ServerWritten

\* What is answered fits into the size before it.
LEMMA ReplyFits ==
  ASSUME NEW m \in Bytes, Len(m) <= Buffer
  PROVE  Reply(m) \in Bytes /\ Len(Reply(m)) < Base * Base
<1>1. Len(m) \in 0..Buffer /\ m \in [1..Len(m) -> 0..Base-1]
  BY SizesAssumption DEF Bytes
<1>2. Reply(m) \in Bytes /\ Len(Reply(m)) <= Buffer
  BY <1>1, ReplyAssumption
<1>3. Len(Reply(m)) \in Nat
  BY <1>2 DEF Bytes
<1> QED
  BY <1>2, <1>3, SizesAssumption

LEMMA ServerBodyInv == IInv /\ ServerBody => IInv'
<1> SUFFICES ASSUME IInv, ServerBody PROVE IInv'
  OBVIOUS
<1> DEFINE s == server.conn
           stream == link[s].up
           n == server.size
           got == Taken(stream, n)
           reply == Reply(got)
<1>1. TypeOK /\ LinkInv /\ FreshInv /\ ReplyInv /\ AloneInv
      /\ \A c \in Sessions : Typed(c) /\ UpInv(c) /\ DownInv(c)
  BY Types DEF IInv
<1>2. /\ server.pc = "body" /\ s \in Sessions /\ s <= session /\ server.out = <<>>
      /\ link[s].server
  BY <1>1 DEF ServerBody, LinkInv, Busy, TypeOK
<1>3. CASE ~Whole(got, n)
  <2>1. UNCHANGED <<client, processed, replied>> /\ Leaves(s)
    BY <1>3 DEF ServerBody
  <2> QED
    BY <1>2, <2>1, LeavesInv
<1>4. CASE Whole(got, n)
  <2>1. /\ Len(got) = n
        /\ processed' = [processed EXCEPT ![s] = Append(@, got)]
        /\ \/ /\ reply # <<>>
              /\ server' = [server EXCEPT !.pc = "write", !.out = Pack(reply)]
              /\ replied' = [replied EXCEPT ![s] = Append(@, reply)]
           \/ /\ reply = <<>>
              /\ server' = [server EXCEPT !.pc = "header"] /\ replied' = replied
        /\ link' = [link EXCEPT ![s].up = Left(@, n)]
        /\ UNCHANGED <<session, running, tx, reader, short, mixed, sent, delivered>>
    BY <1>4 DEF ServerBody, Whole, client
  <2>2. /\ stream \in Bytes /\ n \in Nat /\ n \in 0..Buffer /\ n \in Sizes
        /\ processed[s] \in Seq(Bytes) /\ replied[s] \in Seq(Bytes)
    BY <1>1, <1>2, SizesAssumption DEF Typed, TypeOK, Sizes
  <2>3. /\ link' \in [Sessions -> LinkType] /\ link'[s].up = Left(stream, n)
        /\ \A c \in Sessions : /\ link'[c].down = link[c].down
                               /\ link'[c].client = link[c].client
                               /\ link'[c].server = link[c].server
                               /\ c # s => link'[c] = link[c]
        /\ \A c \in Sessions : Len(link'[c].up) <= Capacity /\ Len(link'[c].down) <= Capacity
        /\ \A c \in Sessions : c > session => c # s
    <3> HIDE DEF s, n
    <3> QED
      BY <1>1, <1>2, <2>1, <2>2, ReadUp
  <2>4. got \in Bytes
    <3> HIDE DEF stream, n
    <3> QED
      BY <2>2, Takes
  <2> HIDE DEF stream, n, got
  <2>5. Len(got) <= Buffer
    BY <2>1, <2>2
  <2>6. reply \in Bytes /\ Len(reply) < Base * Base
    BY <2>4, <2>5, ReplyFits
  <2> HIDE DEF reply
  <2>7. Pack(reply) \in Bytes
    BY <2>6, PackType
  <2>8. /\ server'.conn = s /\ server'.pc \in {"header", "write"} /\ server' \in ServerType
        /\ server'.out = IF reply = <<>> THEN <<>> ELSE Pack(reply)
        /\ (server'.out # <<>> => server'.pc = "write")
    <3>1. server \in ServerType
      BY <1>1 DEF TypeOK, ServerType
    <3> QED
      BY <1>2, <2>1, <2>7, <3>1, NoBytes DEF ServerType
  <2> HIDE DEF s
  <2>9. /\ processed' \in [Sessions -> Seq(Bytes)]
        /\ processed'[s] = Append(processed[s], got)
        /\ \A c \in Sessions : c # s => processed'[c] = processed[c]
    <3>1. processed \in [Sessions -> Seq(Bytes)] /\ Append(processed[s], got) \in Seq(Bytes)
      BY <1>1, <2>2, <2>4 DEF TypeOK
    <3> QED
      BY <1>2, <2>1, <3>1
  <2>10. /\ replied' \in [Sessions -> Seq(Bytes)]
         /\ replied'[s] = IF reply = <<>> THEN replied[s] ELSE Append(replied[s], reply)
         /\ \A c \in Sessions : c # s => replied'[c] = replied[c]
    <3>1. replied \in [Sessions -> Seq(Bytes)] /\ Append(replied[s], reply) \in Seq(Bytes)
      BY <1>1, <2>2, <2>6 DEF TypeOK
    <3> QED
      BY <1>2, <2>1, <3>1
  <2>11. TypeOK'
    <3>1. {processed', replied', delivered'} \subseteq [Sessions -> Seq(Bytes)]
      BY <1>1, <2>1, <2>9, <2>10 DEF TypeOK
    <3>2. server'.conn <= session
      BY <1>2, <2>8
    <3>3. UNCHANGED <<session, running, tx, reader, short, mixed, sent>>
      BY <2>1
    <3> QED
      BY <1>1, <2>3, <2>8, <3>1, <3>2, <3>3 DEF TypeOK, LinkType, ServerType
  <2>12. LinkInv'
    <3>1. Busy /\ Busy' /\ server'.pc # "killed" /\ server.pc # "killed"
      BY <1>2, <2>8 DEF Busy
    <3>2. UNCHANGED <<session, running, tx, reader>>
      BY <2>1
    <3> QED
      BY <1>1, <1>2, <2>3, <2>8, <3>1, <3>2 DEF LinkInv, Reading, s
  <2>13. FreshInv'
    BY <1>1, <2>1, <2>3, <2>9, <2>10 DEF FreshInv
  <2>14. ReplyInv'
    <3> SUFFICES ASSUME NEW c \in Sessions
                 PROVE  /\ Small(replied'[c])
                        /\ \A i \in 1..Len(replied'[c]) : replied'[c][i] # <<>>
      BY DEF ReplyInv
    <3>1. Small(replied[c]) /\ \A i \in 1..Len(replied[c]) : replied[c][i] # <<>>
      BY <1>1 DEF ReplyInv
    <3>2. CASE replied'[c] = replied[c]
      BY <3>1, <3>2
    <3>3. CASE replied'[c] = Append(replied[c], reply) /\ reply # <<>>
      <4> DEFINE ms == replied[c]
                 u == Append(ms, reply)
      <4>1. ms \in Seq(Bytes)
        BY <1>1 DEF Typed
      <4>2. Small(u)
        BY <2>6, <3>1, <4>1, SmallLess
      <4>3. \A i \in 1..Len(u) : u[i] # <<>>
        <5> HIDE DEF ms
        <5>1. /\ Len(u) = Len(ms) + 1 /\ Len(ms) \in Nat /\ u[Len(ms) + 1] = reply
              /\ \A i \in 1..Len(ms) : u[i] = ms[i]
          BY <2>6, <4>1
        <5> HIDE DEF u
        <5>2. \A i \in 1..Len(u) : i \in 1..Len(ms) \/ i = Len(ms) + 1
          BY <5>1
        <5> QED
          BY <3>1, <3>3, <5>1, <5>2 DEF ms
      <4> QED
        BY <3>3, <4>2, <4>3
    <3> QED
      BY <2>10, <3>2, <3>3
  <2>15. ASSUME NEW c \in Sessions, c # s PROVE UpInv(c)' /\ DownInv(c)'
    <3>1. UpStream(c)' = UpStream(c) /\ DownStream(c)' = DownStream(c)
      BY <2>1, <2>3, <2>8, <2>15, RemainsSame
      DEF UpStream, UpHead, UpTail, DownStream, DownHead, DownTail, s
    <3>2. UpInv(c)'
      BY <1>1, <2>1, <2>3, <2>9, <2>11, <2>15, <3>1, UpSame
    <3>3. DownInv(c)'
      BY <1>1, <2>1, <2>3, <2>10, <2>11, <2>15, <3>1, DownSame DEF Reading
    <3> QED
      BY <3>2, <3>3
  <2>16. ASSUME NEW c \in Sessions, c = s PROVE UpInv(c)' /\ DownInv(c)'
    <3> DEFINE t == UpTail(c)
               e == c = session /\ running
               ms == sent[c]
               k == processed[c]
    <3>1. /\ t \in Bytes /\ e \in BOOLEAN /\ n \in Sizes /\ stream \in Bytes
          /\ ms \in Seq(Bytes) /\ k \in Seq(Bytes)
      BY <1>1, <2>2 DEF Typed
    <3>2. Len(Taken(stream, n)) = n
      BY <2>1 DEF got
    <3>3. ~mixed[c] => Read(Stream(Header(n), stream, t), ms, k, e)
      <4>1. UpHead(c) = Header(n) /\ link[c].up = stream /\ link[c].server
        BY <1>2, <2>16 DEF UpHead, stream, n, s
      <4> QED
        BY <1>1, <4>1 DEF UpInv, Flow, Read
    <3>4. /\ UpHead(c)' = <<>> /\ link'[c].up = Left(stream, n)
          /\ processed'[c] = Append(k, Taken(stream, n))
      BY <2>3, <2>8, <2>9, <2>16 DEF UpHead, got
    <3>5. UpTail(c)' = t /\ sent'[c] = ms /\ mixed' = mixed /\ (c = session' /\ running') = e
      BY <2>1, RemainsSame DEF UpTail
    <3> HIDE DEF t, e, ms, k
    <3>6. ~mixed[c] => Read(Stream(<<>>, Left(stream, n), t), ms, Append(k, Taken(stream, n)), e)
      BY <3>1, <3>2, <3>3, FlowNext
    <3>7. UpInv(c)'
      BY <3>4, <3>5, <3>6 DEF UpInv, Flow, Read
    <3>8. DownInv(c)'
      <4>1. CASE reply = <<>>
        <5>1. DownStream(c)' = DownStream(c)
          BY <1>2, <2>1, <2>3, <2>8, <2>16, <4>1 DEF DownStream, DownHead, DownTail, s
        <5>2. replied'[c] = replied[c]
          BY <2>10, <2>16, <4>1
        <5> QED
          BY <1>1, <2>1, <2>3, <2>11, <5>1, <5>2, DownSame DEF Reading
      <4>2. CASE reply # <<>>
        <5> SUFFICES ASSUME ~short'[c]
                     PROVE  Flow(Stream(DownHead(c)', link'[c].down, DownTail(c)'), replied'[c],
                                 delivered'[c], c = session' /\ Reading',
                                 link'[c].server)
          BY DEF DownInv
        <5> DEFINE h == DownHead(c)
                   b == link[c].down
                   rs == replied[c]
                   d == delivered[c]
                   o == c = session /\ Reading
                   f == link[c].server
        <5>1. /\ h \in Bytes /\ b \in Bytes /\ rs \in Seq(Bytes) /\ d \in Seq(Bytes)
              /\ o \in BOOLEAN /\ f \in BOOLEAN /\ (o => f)
          BY <1>1, <1>2, <2>16 DEF Typed
        <5>2. Flow(Stream(h, b, <<>>), rs, d, o, f)
          <6>1. DownTail(c) = <<>> /\ ~short[c]
            BY <1>2, <2>1 DEF DownTail
          <6> QED
            BY <1>1, <6>1 DEF DownInv
        <5>3. DownHead(c)' = h /\ (c = session' /\ Reading') = o /\ delivered'[c] = d
          BY <2>1 DEF DownHead, Reading
        <5>4. /\ link'[c].down = b /\ link'[c].server = f /\ DownTail(c)' = Pack(reply)
              /\ replied'[c] = Append(rs, reply)
          BY <2>3, <2>8, <2>10, <2>16, <4>2 DEF DownTail
        <5> HIDE DEF h, b, rs, d, o, f
        <5>5. Flow(Stream(h, b, Pack(reply)), Append(rs, reply), d, o, f)
          BY <2>6, <5>1, <5>2, FlowMore
        <5> QED
          BY <5>3, <5>4, <5>5
      <4> QED
        BY <4>1, <4>2
    <3> QED
      BY <3>7, <3>8
  <2>17. ASSUME NEW c \in Sessions PROVE UpInv(c)' /\ DownInv(c)'
    BY <2>15, <2>16
  <2> QED
    BY <1>1, <2>1, AloneSame, <2>11, <2>12, <2>13, <2>14, <2>17 DEF IInv
<1> QED
  BY <1>3, <1>4

LEMMA Step == IInv /\ [Next]_vars => IInv'
<1> SUFFICES ASSUME IInv, [Next]_vars PROVE IInv'
  OBVIOUS
<1>1. ASSUME NEW t \in Threads, FlowUp(t) PROVE IInv'
  BY <1>1, FlowUpInv
<1>2. CASE FlowDown
  BY <1>2, FlowDownInv
<1>3. ASSUME NEW c \in Sessions, Drop(c) PROVE IInv'
  BY <1>3, DropInv
<1>4. CASE Open
  BY <1>4, OpenInv
<1>5. ASSUME NEW t \in Threads, NEW m \in Payloads, Tx(t, m) PROVE IInv'
  BY <1>5, TxInv
<1>6. CASE Reads
  BY <1>6, ReaderHeaderInv, ReaderBodyInv, HandlerReturnsInv DEF Reads
<1>7. CASE Interrupt \/ CloseSocket
  BY <1>7, InterruptInv, CloseSocketInv
<1>8. CASE Accept
  BY <1>8, AcceptInv
<1>9. CASE Serving
  BY <1>9, ServerHeaderInv, ServerBodyInv, ServerWrittenInv DEF Serving
<1>10. CASE UNCHANGED vars
  <2>1. UNCHANGED <<session, running, tx, reader, server, link, short, mixed, sent, processed,
                    replied, delivered>>
    BY <1>10 DEF vars
  <2>2. TypeOK' /\ LinkInv' /\ FreshInv' /\ ReplyInv' /\ AloneInv'
    BY <2>1, AloneSame DEF IInv, TypeOK, LinkInv, FreshInv, ReplyInv, Busy, Reading
  <2>3. \A c \in Sessions : UpInv(c)' /\ DownInv(c)'
    BY <2>1, RemainsSame
    DEF IInv, UpInv, DownInv, UpHead, UpTail, DownHead, DownTail, Reading
  <2> QED
    BY <2>2, <2>3 DEF IInv
<1> QED
  BY <1>1, <1>2, <1>3, <1>4, <1>5, <1>6, <1>7, <1>8, <1>9, <1>10 DEF Next

LEMMA Invariance == Spec => []IInv
  BY InitInv, Step, PTL DEF Spec
-----------------------------------------------------------------------------
(* The theorems. *)

\* Every variable holds what the code may store in it; what the server reads into
\* rx_buffer has room there (main.c's test of the size against the buffer).
THEOREM TypeCorrect == Spec => []TypeOK
<1>1. IInv => TypeOK
  BY DEF IInv
<1> QED
  BY Invariance, <1>1, PTL

\* The server processes what was sent, whole, in order and once, if the sizes fit
\* into two bytes and no thread writes between the bytes of another (tcp.rb's tx,
\* which takes no lock, and main.c's loop).
THEOREM UpCorrect == Spec => []UpKept
<1>1. IInv => UpKept
  BY DEF IInv, UpInv, Flow, Small, UpKept
<1> QED
  BY Invariance, <1>1, PTL

\* The handler gets what the server wrote, whole, in order and once, while recv
\* gives what it is asked for (main.c's writes and tcp.rb's reader).
THEOREM DownCorrect == Spec => []DownKept
<1>1. IInv => DownKept
  BY DEF IInv, DownInv, Flow, ReplyInv, DownKept
<1> QED
  BY Invariance, <1>1, PTL
=============================================================================
