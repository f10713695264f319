------------------------- MODULE AloofServer_proofs -------------------------
(***************************************************************************)
(* The server keeps its types, takes every request to its last byte, and   *)
(* implements AloofService.                                                *)
(*                                                                         *)
(* IInv is the types: the input is bytes and its position is among them,   *)
(* the output is bytes and fits its buffer, and every object holds a value *)
(* of its type.  A step keeps them because what is read was there (IsRead, *)
(* IsData), and because a write that does not fit is not made (Output).    *)
(*                                                                         *)
(* Pending is what the position means: behind it stand the requests that   *)
(* were not processed, each encoded, and nothing else.  A step keeps it    *)
(* because what follows an encoded request is never read with it           *)
(* (UintTaken, ValueTaken, HelloTaken), so that the step takes the request *)
(* to its last byte (Consumed).                                            *)
(*                                                                         *)
(* FlattenSeq is a recursive function.  What is said of it for sequences   *)
(* of any length rests on a set of numbers that is not empty having a      *)
(* least one: Induction is stated for sets, not for operators.             *)
(*                                                                         *)
(* That it implements AloofService means, for all requests, alerts, sizes  *)
(* of the output and handlers that are Proper: what a reader makes of the  *)
(* output is the true outcome of each confirmed request and each alert.    *)
(*                                                                         *)
(* The mapping reads the output (Replies), and the server writes it piece  *)
(* by piece into a buffer that may end anywhere.  So a message is first    *)
(* read: what the server writes for an answer is read as that answer, by   *)
(* a reader who sees any bytes behind it (IsMessage).  Then it is cut:     *)
(* before its last piece is there, nothing is read, whatever stands there  *)
(* instead and fits, as long as it starts as a message does (IsAnswer).    *)
(*                                                                         *)
(* The invariant is Readable.  An output is alive when what comes next is  *)
(* read as if nothing came before it, and dead when nothing that comes     *)
(* next and fits is read.  An answer that fits keeps an output alive; one  *)
(* that is cut leaves it dead, and then there was no room for the longest  *)
(* answer, so that the service may leave the answer out (Answers).  Quiet  *)
(* is the other invariant: when an unconfirmed command is processed,       *)
(* nothing was read or written before it, and taking away its output       *)
(* leaves nothing.                                                         *)
(***************************************************************************)
EXTENDS AloofServer, AloofCodec_proofs, SequenceTheorems, WellFoundedInduction, TLAPS

-----------------------------------------------------------------------------
(* Induction over the numbers, from a set of numbers that has no least one. *)

\* The order of the numbers, as a relation.
Below == {p \in Nat \X Nat : p[1] < p[2]}

\* No set of numbers is without a least one.
LEMMA BelowWellFounded == IsWellFoundedOn(Below, Nat)
  BY NatLessThanWellFounded, Zenon DEF Below, OpToRel

\* A set of numbers that is not empty has a least one.
LEMMA Least ==
  ASSUME NEW T, T \subseteq Nat, T # {}
  PROVE  \E x \in T : \A y \in T : x <= y
<1>1. \E x \in T : \A y \in T : ~(<<y, x>> \in Below)
  BY BelowWellFounded, WFMin, Zenon
<1>2. \A x, y \in Nat : ~(<<y, x>> \in Below) => x <= y
  BY SMT DEF Below
<1> QED
  BY <1>1, <1>2

\* A set of numbers that holds 0, and n + 1 with each n, holds all of them.
LEMMA Induction ==
  ASSUME NEW S, 0 \in S, \A n \in Nat : n \in S => n + 1 \in S
  PROVE  \A n \in Nat : n \in S
<1> SUFFICES ASSUME Nat \ S # {} PROVE FALSE
  OBVIOUS
<1>1. PICK x \in Nat \ S : \A y \in Nat \ S : x <= y
  BY Least
<1>2. x # 0 /\ x - 1 \in Nat /\ (x - 1) + 1 = x /\ ~(x <= x - 1)
  BY <1>1, SMT
<1>3. x - 1 \in S
  BY <1>1, <1>2
<1> QED
  BY <1>1, <1>2, <1>3

-----------------------------------------------------------------------------
(* Two sequences of bytes, one behind the other. *)

\* What two of them make.
Concats(s, t) ==
    /\ s \o t \in Seq(Byte) /\ Len(s \o t) = Len(s) + Len(t)
    /\ Len(s) \in Nat /\ Len(t) \in Nat

\* They are as long as both.
LEMMA ConcatLen ==
  ASSUME NEW s \in Seq(Byte), NEW t \in Seq(Byte)
  PROVE  Concats(s, t)
<1>1. s \o t \in Seq(Byte) /\ Len(s \o t) = Len(s) + Len(t)
  BY SMTT(30)
<1>2. Len(s) \in Nat /\ Len(t) \in Nat
  BY SMTT(30)
<1> QED
  BY <1>1, <1>2 DEF Concats

\* Of three, any two may be joined first.
LEMMA Assoc ==
  ASSUME NEW s \in Seq(Byte), NEW t \in Seq(Byte), NEW u \in Seq(Byte)
  PROVE  (s \o t) \o u = s \o (t \o u)
  BY SMTT(30)

-----------------------------------------------------------------------------
(* Sequences one behind the other. *)

\* What FlattenSeq makes of the first ones of ps, as a function.
Flattens(f, ps, n) ==
    f = [i \in 1..n |-> IF i = 1 THEN ps[i] ELSE f[i - 1] \o ps[i]]

\* What such a function is at one place.
LEMMA FlattensAt ==
  ASSUME NEW ps, NEW n, NEW f, Flattens(f, ps, n), NEW i \in 1..n
  PROVE  f[i] = IF i = 1 THEN ps[i] ELSE f[i - 1] \o ps[i]
<1> DEFINE g == [j \in 1..n |-> IF j = 1 THEN ps[j] ELSE f[j - 1] \o ps[j]]
<1>1. f = g
  BY DEF Flattens
<1>2. g[i] = IF i = 1 THEN ps[i] ELSE f[i - 1] \o ps[i]
  OBVIOUS
<1> HIDE DEF g
<1> QED
  BY <1>1, <1>2

\* From one to the next.
FlattensSteps(f, ps, n) ==
    \A k \in Nat : k + 1 \in 1..n =>
        /\ k = 0 => f[k + 1] = ps[k + 1]
        /\ k # 0 => f[k + 1] = f[k] \o ps[k + 1]

\* Each place of such a function, from the place before it.
LEMMA FlattensNext ==
  ASSUME NEW ps, NEW n, NEW f, Flattens(f, ps, n)
  PROVE  FlattensSteps(f, ps, n)
<1> SUFFICES ASSUME NEW k \in Nat, k + 1 \in 1..n
             PROVE  /\ k = 0 => f[k + 1] = ps[k + 1]
                    /\ k # 0 => f[k + 1] = f[k] \o ps[k + 1]
  BY DEF FlattensSteps
<1> DEFINE i == k + 1
<1>1. i \in 1..n /\ i - 1 = k /\ (i = 1 <=> k = 0)
  BY SMT
<1> HIDE DEF i
<1>2. f[i] = IF i = 1 THEN ps[i] ELSE f[i - 1] \o ps[i]
  BY <1>1, FlattensAt
<1>3. /\ k = 0 => f[i] = ps[i]
      /\ k # 0 => f[i] = f[k] \o ps[i]
  BY <1>1, <1>2
<1> QED
  BY <1>3 DEF i

\* There is such a function for every number of parts.
LEMMA FlattensExists ==
  ASSUME NEW ps
  PROVE  \A n \in Nat : \E f : Flattens(f, ps, n)
<1> DEFINE S == {n \in Nat : \E f : Flattens(f, ps, n)}
<1>1. 0 \in S
  <2> DEFINE f == [i \in 1..0 |-> ps[i]]
  <2>1. Flattens(f, ps, 0)
    BY SMT DEF Flattens
  <2> QED
    BY <2>1
<1>2. ASSUME NEW n \in Nat, n \in S PROVE n + 1 \in S
  <2>1. PICK f : Flattens(f, ps, n)
    BY <1>2
  <2> DEFINE g == [i \in 1..n + 1 |-> IF i = n + 1
                    THEN IF i = 1 THEN ps[i] ELSE f[n] \o ps[i] ELSE f[i]]
  <2>2. ASSUME NEW i \in 1..n + 1 PROVE g[i] = IF i = 1 THEN ps[i] ELSE g[i - 1] \o ps[i]
    <3>1. CASE i = n + 1
      <4>1. i # 1 => g[i - 1] = f[n]
        BY <3>1, SMT
      <4> QED
        BY <3>1, <4>1, SMT
    <3>2. CASE i # n + 1
      <4>1. i \in 1..n /\ g[i] = f[i]
        BY <3>2, SMT
      <4>2. f[i] = IF i = 1 THEN ps[i] ELSE f[i - 1] \o ps[i]
        BY <2>1, <4>1, FlattensAt
      <4>3. i # 1 => g[i - 1] = f[i - 1]
        BY <4>1, SMT
      <4> QED
        BY <4>1, <4>2, <4>3
    <3> QED
      BY <3>1, <3>2
  <2>3. Flattens(g, ps, n + 1)
    BY <2>2, Zenon DEF Flattens
  <2> QED
    BY <2>3
<1> HIDE DEF S
<1>3. \A n \in Nat : n \in S
  BY <1>1, <1>2, Induction
<1> QED
  BY <1>3 DEF S

\* FlattenSeq is the last value of such a function, whichever is chosen.
LEMMA FlattenFunction ==
  ASSUME NEW ps \in Seq(Seq(Byte)), ps # <<>>
  PROVE  \E f : Flattens(f, ps, Len(ps)) /\ FlattenSeq(ps) = f[Len(ps)]
<1> DEFINE f == CHOOSE f : Flattens(f, ps, Len(ps))
<1>1. Flattens(f, ps, Len(ps))
  <2>1. \E g : Flattens(g, ps, Len(ps))
    <3>1. Len(ps) \in Nat
      OBVIOUS
    <3> QED
      BY <3>1, FlattensExists
  <2> QED
    BY <2>1, Zenon
<1>2. FlattenSeq(ps) = f[Len(ps)]
  <2>1. Len(ps) # 0
    OBVIOUS
  <2> QED
   BY <2>1, Zenon DEF FlattenSeq, Flattens
<1> QED
  BY <1>1, <1>2

\* Functions that agree up to k.
AlikeTo(f, g, k) == \A i \in 1..k : f[i] = g[i]

\* Functions that flatten sequences alike up to k are alike up to k.
LEMMA FlattensAlike ==
  ASSUME NEW ps, NEW n \in Nat, NEW f, Flattens(f, ps, n),
         NEW qs, NEW m \in Nat, NEW g, Flattens(g, qs, m),
         NEW k \in Nat, k <= n, k <= m, AlikeTo(ps, qs, k)
  PROVE  AlikeTo(f, g, k)
<1> DEFINE S == {i \in Nat : i \in 1..k => f[i] = g[i]}
<1>1. 0 \in S
  BY SMT
<1>2. ASSUME NEW i \in Nat, i \in S PROVE i + 1 \in S
  <2> SUFFICES ASSUME i + 1 \in 1..k PROVE f[i + 1] = g[i + 1]
    OBVIOUS
  <2>1. i + 1 \in 1..n /\ i + 1 \in 1..m /\ (i + 1) - 1 = i /\ ps[i + 1] = qs[i + 1]
    BY SMT DEF AlikeTo
  <2>2. f[i + 1] = IF i + 1 = 1 THEN ps[i + 1] ELSE f[i] \o ps[i + 1]
    BY <2>1, FlattensAt
  <2>3. g[i + 1] = IF i + 1 = 1 THEN qs[i + 1] ELSE g[i] \o qs[i + 1]
    BY <2>1, FlattensAt
  <2>4. i + 1 = 1 \/ i \in 1..k
    BY SMT
  <2> QED
    BY <1>2, <2>1, <2>2, <2>3, <2>4
<1> HIDE DEF S
<1>3. \A i \in Nat : i \in S
  BY <1>1, <1>2, Induction
<1> QED
  BY <1>3, SMT DEF S, AlikeTo

\* The first k of ps, one behind the other.
Flat(ps, k) == FlattenSeq(SubSeq(ps, 1, k))

\* The first k parts are parts.
LEMMA FlatFirst ==
  ASSUME NEW ps \in Seq(Seq(Byte)), NEW k \in 0..Len(ps)
  PROVE  /\ SubSeq(ps, 1, k) \in Seq(Seq(Byte)) /\ Len(SubSeq(ps, 1, k)) = k
         /\ \A i \in 1..k : SubSeq(ps, 1, k)[i] = ps[i]
  BY SMT

\* Flattening part by part.
LEMMA FlatStep ==
  ASSUME NEW ps \in Seq(Seq(Byte))
  PROVE  /\ Flat(ps, 0) = <<>> /\ FlattenSeq(ps) = Flat(ps, Len(ps))
         /\ \A k \in 0..Len(ps)-1 : Flat(ps, k + 1) = Flat(ps, k) \o ps[k + 1]
<1>1. Flat(ps, 0) = <<>>
  <2>1. SubSeq(ps, 1, 0) = <<>> /\ Len(<<>>) = 0
    OBVIOUS
  <2> QED
    BY <2>1, Zenon DEF Flat, FlattenSeq
<1>2. FlattenSeq(ps) = Flat(ps, Len(ps))
  <2>1. SubSeq(ps, 1, Len(ps)) = ps
    OBVIOUS
  <2> QED
    BY <2>1 DEF Flat
<1>3. ASSUME NEW k \in 0..Len(ps)-1 PROVE Flat(ps, k + 1) = Flat(ps, k) \o ps[k + 1]
  <2> DEFINE qs == SubSeq(ps, 1, k + 1)
             rs == SubSeq(ps, 1, k)
  <2>1. /\ k + 1 \in 0..Len(ps) /\ k \in 0..Len(ps) /\ k \in Nat /\ k + 1 \in Nat
        /\ k + 1 \in 1..k+1 /\ (k + 1) - 1 = k /\ k <= k + 1 /\ (k + 1 = 1 <=> k = 0)
        /\ k <= k /\ 1..k \subseteq 1..k+1
    BY SMT
  <2>2. /\ qs \in Seq(Seq(Byte)) /\ Len(qs) = k + 1
        /\ \A i \in 1..k+1 : qs[i] = ps[i]
    BY <2>1, FlatFirst
  <2>3. /\ rs \in Seq(Seq(Byte)) /\ Len(rs) = k
        /\ \A i \in 1..k : rs[i] = ps[i]
    BY <2>1, FlatFirst
  <2> HIDE DEF qs, rs
  <2>4. qs # <<>>
    BY <2>1, <2>2, SMT
  <2>5. PICK f : Flattens(f, qs, k + 1) /\ FlattenSeq(qs) = f[k + 1]
    BY <2>2, <2>4, FlattenFunction
  <2>6. /\ k = 0 => f[k + 1] = ps[k + 1]
        /\ k # 0 => f[k + 1] = f[k] \o ps[k + 1]
    <3>1. FlattensSteps(f, qs, k + 1)
      BY <2>5, FlattensNext, Zenon
    <3>2. qs[k + 1] = ps[k + 1]
      BY <2>1, <2>2
    <3> QED
      BY <2>1, <3>1, <3>2 DEF FlattensSteps
  <2>7. CASE k = 0
    <3>1. ps[k + 1] \in Seq(Byte)
      BY SMT
    <3>2. <<>> \o ps[k + 1] = ps[k + 1]
      BY <3>1, SMT
    <3>3. Flat(ps, k) = <<>>
      BY <1>1, <2>7
    <3> QED
      BY <2>5, <2>6, <2>7, <3>2, <3>3 DEF Flat, qs
  <2>8. CASE k # 0
    <3>1. rs # <<>>
      BY <2>1, <2>3, <2>8, SMT
    <3>2. PICK g : Flattens(g, rs, k) /\ FlattenSeq(rs) = g[k]
      BY <2>3, <3>1, FlattenFunction
    <3>3. AlikeTo(qs, rs, k)
      BY <2>1, <2>2, <2>3 DEF AlikeTo
    <3>4. k \in 1..k
      BY <2>8, SMT
    <3>5. f[k] = g[k]
      <4> DEFINE n == k + 1
      <4>1. n \in Nat /\ k <= n /\ Flattens(f, qs, n)
        BY <2>1, <2>5
      <4> HIDE DEF n
      <4>2. AlikeTo(f, g, k)
        BY <2>1, <4>1, <3>2, <3>3, FlattensAlike
      <4> QED
        BY <4>2, <3>4 DEF AlikeTo
    <3> QED
      BY <2>5, <2>6, <2>8, <3>2, <3>5 DEF Flat, qs, rs
  <2> QED
    BY <2>7, <2>8
<1> QED
  BY <1>1, <1>2, <1>3

\* Flattened sequences of bytes are sequences of bytes.
LEMMA FlatType ==
  ASSUME NEW ps \in Seq(Seq(Byte))
  PROVE  /\ \A k \in 0..Len(ps) : Flat(ps, k) \in Seq(Byte)
         /\ FlattenSeq(ps) \in Seq(Byte)
<1> DEFINE S == {k \in Nat : k \in 0..Len(ps) => Flat(ps, k) \in Seq(Byte)}
<1>1. 0 \in S
  <2>1. Flat(ps, 0) = <<>> /\ <<>> \in Seq(Byte)
    BY FlatStep
  <2> QED
    BY <2>1
<1>2. ASSUME NEW k \in Nat, k \in S PROVE k + 1 \in S
  <2> SUFFICES ASSUME k + 1 \in 0..Len(ps) PROVE Flat(ps, k + 1) \in Seq(Byte)
    OBVIOUS
  <2>1. k \in 0..Len(ps)-1 /\ k \in 0..Len(ps) /\ ps[k + 1] \in Seq(Byte)
    BY SMT
  <2>2. Flat(ps, k) \in Seq(Byte) /\ Flat(ps, k + 1) = Flat(ps, k) \o ps[k + 1]
    BY <1>2, <2>1, FlatStep
  <2>3. Concats(Flat(ps, k), ps[k + 1])
    BY <2>1, <2>2, ConcatLen
  <2> QED
    BY <2>2, <2>3 DEF Concats
<1> HIDE DEF S
<1>3. \A k \in Nat : k \in S
  BY <1>1, <1>2, Induction
<1>4. \A k \in 0..Len(ps) : Flat(ps, k) \in Seq(Byte)
  BY <1>3, SMT DEF S
<1>5. Len(ps) \in 0..Len(ps)
  BY SMT
<1> QED
  BY <1>4, <1>5, FlatStep

\* Two of them, one behind the other.
LEMMA FlatConcat ==
  ASSUME NEW ps \in Seq(Seq(Byte)), NEW qs \in Seq(Seq(Byte))
  PROVE  /\ \A k \in 0..Len(ps) : Flat(ps \o qs, k) = Flat(ps, k)
         /\ \A k \in 0..Len(qs) : Flat(ps \o qs, Len(ps) + k) = FlattenSeq(ps) \o Flat(qs, k)
         /\ FlattenSeq(ps \o qs) = FlattenSeq(ps) \o FlattenSeq(qs)
<1> DEFINE rs == ps \o qs
<1>1. /\ rs \in Seq(Seq(Byte)) /\ Len(rs) = Len(ps) + Len(qs)
      /\ \A i \in 1..Len(ps) : rs[i] = ps[i]
      /\ \A i \in 1..Len(qs) : rs[Len(ps) + i] = qs[i]
  BY SMT
<1>2. \A k \in 0..Len(ps) : Flat(rs, k) = Flat(ps, k)
  <2> SUFFICES ASSUME NEW k \in 0..Len(ps) PROVE SubSeq(rs, 1, k) = SubSeq(ps, 1, k)
    BY DEF Flat
  <2> QED
    BY SMT
<1> HIDE DEF rs
<1>3. FlattenSeq(ps) \in Seq(Byte) /\ \A k \in 0..Len(qs) : Flat(qs, k) \in Seq(Byte)
  BY FlatType
<1>4. \A k \in 0..Len(qs) : Flat(rs, Len(ps) + k) = FlattenSeq(ps) \o Flat(qs, k)
  <2> DEFINE S == {k \in Nat : k \in 0..Len(qs) =>
                       Flat(rs, Len(ps) + k) = FlattenSeq(ps) \o Flat(qs, k)}
  <2>1. 0 \in S
    <3>1. FlattenSeq(ps) \o <<>> = FlattenSeq(ps)
      BY <1>3, SMT
    <3>2. Len(ps) \in 0..Len(ps) /\ Len(ps) + 0 = Len(ps)
      BY SMT
    <3>3. Flat(rs, Len(ps)) = FlattenSeq(ps) /\ Flat(qs, 0) = <<>>
      BY <1>2, <3>2, FlatStep
    <3> QED
      BY <3>1, <3>2, <3>3
  <2>2. ASSUME NEW k \in Nat, k \in S PROVE k + 1 \in S
    <3> SUFFICES ASSUME k + 1 \in 0..Len(qs)
                 PROVE  Flat(rs, Len(ps) + (k + 1)) = FlattenSeq(ps) \o Flat(qs, k + 1)
      OBVIOUS
    <3>1. /\ k \in 0..Len(qs)-1 /\ k \in 0..Len(qs) /\ k + 1 \in 1..Len(qs)
          /\ Len(ps) + k \in 0..Len(rs)-1 /\ Len(ps) + (k + 1) = (Len(ps) + k) + 1
      BY <1>1, SMT
    <3>2. Flat(rs, Len(ps) + (k + 1)) = Flat(rs, Len(ps) + k) \o qs[k + 1]
      <4> DEFINE j == Len(ps) + k
      <4>1. j \in 0..Len(rs)-1 /\ rs[j + 1] = qs[k + 1]
        <5>1. rs[Len(ps) + (k + 1)] = qs[k + 1]
          BY <1>1, <3>1
        <5> QED
          BY <3>1, <5>1
      <4> HIDE DEF j
      <4>2. Flat(rs, j + 1) = Flat(rs, j) \o qs[k + 1]
        BY <1>1, <4>1, FlatStep
      <4> QED
        BY <3>1, <4>2 DEF j
    <3>3. Flat(qs, k + 1) = Flat(qs, k) \o qs[k + 1]
      BY <3>1, FlatStep
    <3>4. Flat(rs, Len(ps) + k) = FlattenSeq(ps) \o Flat(qs, k)
      BY <2>2, <3>1
    <3>5. FlattenSeq(ps) \in Seq(Byte) /\ Flat(qs, k) \in Seq(Byte) /\ qs[k + 1] \in Seq(Byte)
      BY <1>3, <3>1
    <3>6. (FlattenSeq(ps) \o Flat(qs, k)) \o qs[k + 1]
            = FlattenSeq(ps) \o (Flat(qs, k) \o qs[k + 1])
      BY <3>5, Assoc
    <3> QED
      BY <3>2, <3>3, <3>4, <3>6
  <2> HIDE DEF S
  <2>3. \A k \in Nat : k \in S
    BY <2>1, <2>2, Induction
  <2> QED
    BY <2>3, SMT DEF S
<1>5. FlattenSeq(rs) = FlattenSeq(ps) \o FlattenSeq(qs)
  <2>1. Len(qs) \in 0..Len(qs)
    BY SMT
  <2> QED
    BY <1>1, <1>4, <2>1, FlatStep
<1> QED
  BY <1>2, <1>4, <1>5 DEF rs

-----------------------------------------------------------------------------
(* What is read is there, and is a number. *)

\* A number read from s, and the bytes it took of s.
IsRead(r, s) ==
    /\ r.ok \in BOOLEAN /\ r.lo \in Int /\ r.used \in 0..Len(s)
    /\ r.ok => r.lo >= 0

\* What a successful read and a refusal are, field by field.
LEMMA ReadFields ==
  ASSUME NEW form, NEW lo \in Nat, NEW s \in Seq(Byte), NEW used \in 0..Len(s), NEW hi
  PROVE  IsRead(Got(form, hi, lo, used), s) /\ IsRead(Refused, s)
<1>1. /\ Got(form, hi, lo, used).ok = TRUE /\ Got(form, hi, lo, used).lo = lo
      /\ Got(form, hi, lo, used).used = used
      /\ Refused.ok = FALSE /\ Refused.lo = 0 /\ Refused.used = 0
  BY DEF Got, Refused
<1>2. 0 \in 0..Len(s) /\ lo \in Int /\ lo >= 0 /\ 0 \in Int
  BY SMT
<1> QED
  BY <1>1, <1>2 DEF IsRead

\* A byte is a number from 0 to 255.
LEMMA Bytes ==
  /\ \A b \in Byte : b \in Int /\ b \in Nat /\ 0 <= b /\ b <= 255
  /\ \A b \in Int : 0 <= b /\ b <= 255 => b \in Byte
  BY SMT DEF Byte

\* Up to four bytes make a number.
LEMMA NumberType ==
  ASSUME NEW s \in Seq(Byte), Len(s) \in 1..4
  PROVE  Number(s) \in Nat
<1>1. \A i \in 1..4 : i <= Len(s) => s[i] \in Byte
  BY SMT
<1>2. \A i \in 1..4 : i <= Len(s) => s[i] \in Nat
  BY <1>1, Bytes
<1>3. CASE Len(s) = 1
  BY <1>2, <1>3, SMTT(30) DEF Number, Shifted
<1>4. CASE Len(s) = 2
  BY <1>2, <1>4, SMTT(30) DEF Number, Shifted
<1>5. CASE Len(s) = 3
  BY <1>2, <1>5, SMTT(30) DEF Number, Shifted
<1>6. CASE Len(s) = 4
  BY <1>2, <1>6, SMTT(30) DEF Number, Shifted
<1> QED
  BY <1>3, <1>4, <1>5, <1>6, SMT

\* A uint that is read is a number and was all there (aloof_data_get_uint).
LEMMA UintType ==
  ASSUME NEW s \in Seq(Byte), NEW d \in Ends
  PROVE  /\ IsRead(GetVarint(d, "uint", s), s)
         /\ GetVarint(d, "uint", s).ok => GetVarint(d, "uint", s).used >= 1
<1> DEFINE n == s[1] - 128
           body == SubSeq(s, 2, 1 + n)
           r == GetVarint(d, "uint", s)
<1>0. IsRead(Refused, s) /\ Refused.ok = FALSE
  <2>1. 0 \in Nat /\ 0 \in 0..Len(s)
    BY SMT
  <2> QED
    BY <2>1, ReadFields DEF Refused
<1>1. CASE s = <<>>
  <2>1. r = Refused
    BY <1>1 DEF GetVarint
  <2> QED
    BY <1>0, <2>1
<1>2. CASE s # <<>> /\ n < 0
  <2>1. r = Got("uint", 0, s[1], 1)
    BY <1>2, SMT DEF GetVarint
  <2>4. Got("uint", 0, s[1], 1).used >= 1
    BY SMT DEF Got
  <2>2. s[1] \in Nat /\ 1 \in 0..Len(s)
    <3>1. s[1] \in Byte /\ 1 \in 0..Len(s)
      BY <1>2, SMT
    <3> QED
      BY <3>1, Bytes
  <2>3. IsRead(Got("uint", 0, s[1], 1), s)
    BY <2>2, ReadFields
  <2> QED
    BY <2>1, <2>3, <2>4
<1>3. CASE s # <<>> /\ n = 0
  <2>1. r = Got("uint", 0, 0, 1) \/ r = Refused
    BY <1>3, SMT DEF GetVarint
  <2>2. 0 \in Nat /\ 1 \in 0..Len(s)
    BY <1>3, SMT
  <2>3. IsRead(Got("uint", 0, 0, 1), s)
    BY <2>2, ReadFields
  <2>4. Got("uint", 0, 0, 1).used >= 1
    BY SMT DEF Got
  <2> QED
    BY <1>0, <2>1, <2>3, <2>4
<1>4. CASE s # <<>> /\ n \in 1..4 /\ Len(s) > n
  <2>1. r = Got("uint", 0, Number(body), 1 + n)
    BY <1>4, SMT DEF GetVarint, Unjoined
  <2>2. body \in Seq(Byte) /\ Len(body) \in 1..4 /\ 1 + n \in 0..Len(s) /\ 1 + n >= 1
    BY <1>4, SMT
  <2>3. Number(body) \in Nat
    BY <2>2, NumberType
  <2> HIDE DEF body, n
  <2>4. IsRead(Got("uint", 0, Number(body), 1 + n), s)
    BY <2>2, <2>3, ReadFields
  <2>5. Got("uint", 0, Number(body), 1 + n).used = 1 + n
    BY DEF Got
  <2> QED
    BY <2>1, <2>2, <2>4, <2>5
<1>5. CASE s # <<>> /\ ~(n < 0) /\ n # 0 /\ ~(n \in 1..4 /\ Len(s) > n)
  <2>1. r = Refused
    BY <1>5, SMT DEF GetVarint
  <2> QED
    BY <1>0, <2>1
<1> QED
  BY <1>1, <1>2, <1>3, <1>4, <1>5

\* The same of a uint that the server reads, whose value it may wrap.
LEMMA UintAtType ==
  ASSUME NEW s \in Seq(Byte)
  PROVE  /\ IsRead(UintAt(s), s)
         /\ UintAt(s).ok => UintAt(s).used >= 1
         /\ UintAt(s).ok => UintAt(s) = GetVarint("c", "uint", s)
         /\ UintAt(s).ok = GetVarint("c", "uint", s).ok
<1> DEFINE r == GetVarint("c", "uint", s)
<1>1. IsRead(r, s) /\ (r.ok => r.used >= 1)
  BY UintType DEF Ends
<1>2. CASE r.ok \/ s = <<>>
  <2>1. UintAt(s) = r
    BY <1>2 DEF UintAt
  <2> QED
    BY <1>1, <2>1
<1>3. CASE ~(r.ok \/ s = <<>>)
  <2> DEFINE u == [r EXCEPT !.used = 1]
  <2>1. UintAt(s) = u
    BY <1>3 DEF UintAt
  <2>2. r = Refused \/ \E form, hi, lo, used : r = Got(form, hi, lo, used)
    BY SMT DEF GetVarint
  <2>3. u.ok = r.ok /\ u.lo = r.lo /\ u.used = 1
    BY <2>2, SMT DEF Refused, Got
  <2>4. 1 \in 0..Len(s)
    BY <1>3, SMT
  <2> HIDE DEF u, r
  <2> QED
    BY <1>1, <1>3, <2>1, <2>3, <2>4, SMT DEF IsRead, r
<1> QED
  BY <1>2, <1>3

\* A hello takes no more than there is (get_hello).
LEMMA HelloAtType ==
  ASSUME NEW s \in Seq(Byte)
  PROVE  HelloAt(s).ok \in BOOLEAN /\ HelloAt(s).used \in 0..Len(s)
<1> DEFINE version == UintAt(From(s, 1))
<1>1. CASE s = <<>>
  <2>1. HelloAt(s) = [ok |-> FALSE, used |-> 0]
    BY <1>1 DEF HelloAt
  <2> QED
    BY <2>1, SMT
<1>2. CASE s # <<>> /\ s[1] >= 2
  <2>0. s[1] \in Int
    <3>1. s[1] \in Byte
      BY <1>2
    <3> QED
      BY <3>1, Bytes
  <2>1. HelloAt(s) = [ok |-> FALSE, used |-> 1]
    BY <1>2, <2>0, SMT DEF HelloAt
  <2>2. 1 \in 0..Len(s)
    BY <1>2, SMT
  <2> QED
    BY <2>1, <2>2
<1>3. CASE s # <<>> /\ s[1] < 2
  <2>1. From(s, 1) \in Seq(Byte) /\ Len(From(s, 1)) = Len(s) - 1 /\ Len(s) \in Nat
    BY <1>3, SMTT(30) DEF From
  <2>2. version.used \in 0..Len(s)-1
    <3> DEFINE x == From(s, 1)
    <3>1. x \in Seq(Byte) /\ Len(x) = Len(s) - 1
      BY <2>1
    <3> HIDE DEF x
    <3>3. IsRead(UintAt(x), x)
      BY <3>1, UintAtType
    <3>2. UintAt(x).used \in 0..Len(x)
      BY <3>3 DEF IsRead
    <3> QED
      BY <3>1, <3>2 DEF x
  <2> HIDE DEF version
  <2>3. HelloAt(s) = IF version.ok /\ Len(s) >= 5 + version.used
                       THEN [ok |-> TRUE, used |-> 5 + version.used]
                       ELSE [ok |-> FALSE, used |-> 1 + version.used]
    BY <1>3, SMT DEF HelloAt, version
  <2> QED
    BY <2>1, <2>2, <2>3, SMT
<1>4. s # <<>> => s[1] >= 2 \/ s[1] < 2
  <2>1. s # <<>> => s[1] \in Byte
    BY SMT
  <2> QED
    BY <2>1, Bytes, SMT
<1> QED
  BY <1>1, <1>2, <1>3, <1>4

\* Every tag is that of its type.
LEMMA TypeTags ==
  ASSUME NEW n \in 0..13
  PROVE  DataTypes[n + 1] \in TypeNames /\ Tag(DataTypes[n + 1]) = n
<1>1. DataTypes[n + 1] \in TypeNames
  BY SMT DEF TypeNames, DataTypes
<1>2. Tag(DataTypes[n + 1]) \in 0..13 /\ DataTypes[Tag(DataTypes[n + 1]) + 1] = DataTypes[n + 1]
  BY <1>1, TagNames
<1>3. \A i, j \in 0..13 : DataTypes[i + 1] = DataTypes[j + 1] => i = j
  BY SMT DEF DataTypes
<1> QED
  BY <1>1, <1>2, <1>3

\* A record as Refused and Got make them.
IsShaped(r) ==
    \E ok, form, hi, lo, used :
        r = [ok |-> ok, form |-> form, hi |-> hi, lo |-> lo, used |-> used]

\* What is read is a record of the same five fields.
LEMMA Shapes ==
  ASSUME NEW s
  PROVE  IsShaped(Refused) /\ IsShaped(GetVarint("c", "uint", s)) /\ IsShaped(UintAt(s))
<1>1. IsShaped(Refused) /\ \A form, hi, lo, used : IsShaped(Got(form, hi, lo, used))
  BY DEF IsShaped, Refused, Got
<1>2. GetVarint("c", "uint", s) = Refused \/ \E form, hi, lo, used :
          GetVarint("c", "uint", s) = Got(form, hi, lo, used)
  BY SMT DEF GetVarint
<1>3. \A r : IsShaped(r) => IsShaped([r EXCEPT !.used = 1])
  <2> SUFFICES ASSUME NEW r, IsShaped(r) PROVE IsShaped([r EXCEPT !.used = 1])
    OBVIOUS
  <2>1. PICK ok, form, hi, lo, used :
            r = [ok |-> ok, form |-> form, hi |-> hi, lo |-> lo, used |-> used]
    BY DEF IsShaped
  <2>2. [r EXCEPT !.used = 1] = [ok |-> ok, form |-> form, hi |-> hi, lo |-> lo, used |-> 1]
    BY <2>1, SMT
  <2> QED
    BY <2>2 DEF IsShaped
<1> QED
  BY <1>1, <1>2, <1>3 DEF UintAt

\* What is known of a value read from s.
IsData(r, s) ==
    /\ r.ok \in BOOLEAN /\ r.used \in 0..Len(s)
    /\ r.ok => /\ s # <<>> /\ s[1] \in 0..13 /\ r.form = DataTypes[s[1] + 1]
               /\ r.form \in Strings => r.lo \in Nat /\ r.used >= 2
               /\ r.form \notin Strings => r.used = 1 + BodySize(s[1])
               /\ r.form = "bool" => s[2] \in {0, 1}

\* A body that is read is there, and a bool is 0 or 1.
IsBody(r, form, n, s) ==
    /\ r = Refused \/ \E hi, lo : r = Got(form, hi, lo, BodySize(n)) /\ BodySize(n) <= Len(s)
    /\ BodySize(n) \in 0..8
    /\ form = "bool" /\ r.ok => s[1] \in {0, 1}

\* The body of every type but the strings is what IsBody says.
LEMMA SizesOfBodies ==
  ASSUME NEW form, NEW s \in Seq(Byte), form \in TypeNames \ Strings, NEW n \in 0..13, form = DataTypes[n + 1]
  PROVE  IsBody(GetBody("c", form, s), form, n, s)
<1> DEFINE r == GetBody("c", form, s)
<1>0. Len(s) \in Nat
  OBVIOUS
<1>1. CASE form = "nil"
  <2>1. r = Got(form, 0, 0, 0)
    BY <1>1, SMT DEF GetBody, Strings, Doubles
  <2>2. BodySize(n) = 0
    BY <1>1, SMT DEF BodySize, Strings, Doubles
  <2> QED
    BY <1>0, <1>1, <2>1, <2>2, SMT DEF IsBody
<1>2. CASE form \in Doubles
  <2>1. r = DoubleBody(form, s)
    BY <1>2, SMT DEF GetBody, Strings, Doubles
  <2>2. BodySize(n) = 8
    BY <1>2, SMT DEF BodySize, Doubles, Strings
  <2>3. r = Refused \/ (Len(s) >= 8 /\ \E hi, lo : r = Got(form, hi, lo, 8))
    BY <1>0, <2>1, SMT DEF DoubleBody
  <2> QED
    BY <1>0, <1>2, <2>2, <2>3, SMT DEF Doubles, IsBody
<1>3. CASE form = "bool"
  <2>1. r = BoolBody(s)
    BY <1>3, SMT DEF GetBody, Strings, Doubles
  <2>2. BodySize(n) = 1
    BY <1>3, SMT DEF BodySize, Doubles, Strings, Width
  <2>3. CASE Len(s) < 1
    <3>1. r = Refused
      BY <2>1, <2>3, SMT DEF BoolBody, Fixed, Refused
    <3>2. Refused.ok = FALSE
      BY DEF Refused
    <3> QED
      BY <2>2, <3>1, <3>2, SMT DEF IsBody
  <2>4. CASE ~(Len(s) < 1)
    <3>1. s[1] \in Byte /\ Len(SubSeq(s, 1, 1)) = 1 /\ SubSeq(s, 1, 1)[1] = s[1]
      BY <2>4, SMT
    <3>2. Number(SubSeq(s, 1, 1)) = s[1]
      BY <3>1, SMT DEF Number, Shifted
    <3>3. Fixed("bool", s, 1) = Got("bool", 0, s[1], 1)
      BY <2>4, <3>2, SMT DEF Fixed
    <3>8. Got("bool", 0, s[1], 1).lo = s[1]
      BY DEF Got
    <3>4. r = Refused \/ (s[1] <= 1 /\ r = Got("bool", 0, s[1], 1))
      BY <2>1, <3>3, <3>8 DEF BoolBody
    <3>5. s[1] <= 1 => s[1] \in {0, 1}
      BY <3>1, Bytes, SMT
    <3>6. Refused.ok = FALSE
      BY DEF Refused
    <3>7. 1 <= Len(s) /\ 1 \in 0..8
      BY <1>0, <2>4, SMT
    <3> QED
      BY <1>3, <2>2, <3>4, <3>5, <3>6, <3>7 DEF IsBody
  <2> QED
    BY <2>3, <2>4
<1>4. CASE form \in {"u8", "u16", "u32", "i8", "i16", "i32", "float"}
  <2>1. r = Fixed(form, s, Width(form))
    BY <1>4, SMT DEF GetBody, Strings, Doubles
  <2>2. BodySize(n) = Width(form) /\ Width(form) \in 1..4
    BY <1>4, SMT DEF BodySize, Doubles, Strings, Width
  <2>3. r = Refused \/ (Width(form) <= Len(s) /\ \E lo : r = Got(form, 0, lo, Width(form)))
    BY <1>0, <2>1, <2>2, SMT DEF Fixed
  <2> QED
    BY <1>0, <1>4, <2>2, <2>3, SMT DEF IsBody
<1>5. form \in {"nil", "bool", "u8", "u16", "u32", "i8", "i16", "i32", "float"} \cup Doubles
  BY SMT DEF TypeNames, DataTypes, Strings, Doubles
<1> QED
  BY <1>1, <1>2, <1>3, <1>4, <1>5

\* Every value that is read is what IsData says (aloof_data_get).
LEMMA DataAtType ==
  ASSUME NEW s \in Seq(Byte)
  PROVE  IsData(DataAt(s), s)
<1>0. Len(s) \in Nat /\ Refused.ok = FALSE /\ Refused.used = 0 /\ Refused.lo = 0
  BY DEF Refused
<1>1. CASE s = <<>>
  <2>1. DataAt(s) = Refused
    BY <1>1 DEF DataAt
  <2>2. 0 \in 0..Len(s)
    BY <1>0, SMT
  <2> QED
    BY <1>0, <2>1, <2>2 DEF IsData
<1>2. CASE s # <<>>
  <2>0. s[1] \in Byte
    BY <1>2
  <2>1. s[1] \in Int /\ s[1] \in Nat /\ 1 \in 0..Len(s)
    BY <1>2, <2>0, Bytes, SMT
  <2>2. CASE s[1] >= 14
    <3>0. ~(s[1] < 14)
      BY <2>1, <2>2, SMT
    <3>1. DataAt(s) = [Refused EXCEPT !.used = 1]
      BY <1>2, <2>2, <3>0, Zenon DEF DataAt
    <3>2. DataAt(s).ok = FALSE /\ DataAt(s).used = 1
      BY <3>1 DEF Refused
    <3> QED
      BY <2>1, <3>2 DEF IsData
  <2>3. CASE s[1] < 14
    <3> DEFINE n == s[1]
               form == DataTypes[n + 1]
               bool == form = "bool" /\ Len(s) > 1
               r == IF form \in Strings THEN UintAt(Tail(s)) ELSE GetBody("c", form, Tail(s))
    <3>1. /\ n \in 0..13 /\ Tail(s) \in Seq(Byte) /\ Len(Tail(s)) = Len(s) - 1
          /\ Tail(s) # <<>> => Tail(s)[1] = s[2]
      BY <1>2, <2>1, <2>3, SMT
    <3>2. form \in TypeNames
      BY <3>1, TypeTags
    <3>3. DataAt(s) = [r EXCEPT !.form = form, !.used = 1 + (IF bool THEN 1 ELSE @)]
      <4>1. ~(s[1] >= 14)
        BY <2>1, <2>3, SMT
      <4> QED
        BY <1>2, <2>3, <4>1, Zenon DEF DataAt
    <3>4. /\ IsShaped(r) /\ r.ok \in BOOLEAN /\ r.used \in 0..Len(s)-1
          /\ r.ok => /\ form \in Strings => r.lo \in Nat /\ r.used >= 1
                     /\ form \notin Strings => r.used = BodySize(n)
                     /\ form = "bool" => Tail(s)[1] \in {0, 1} /\ Tail(s) # <<>> /\ r.used = 1
      <4> DEFINE x == Tail(s)
      <4>1. x \in Seq(Byte) /\ Len(x) = Len(s) - 1
        BY <3>1
      <4>2. CASE form \in Strings
        <5>1. r = UintAt(x) /\ form # "bool"
          BY <4>2 DEF Strings
        <5> HIDE DEF x, form, n
        <5>2. /\ IsRead(UintAt(x), x) /\ IsShaped(UintAt(x))
              /\ UintAt(x).ok => UintAt(x).used >= 1
          BY <4>1, UintAtType, Shapes
        <5>3. UintAt(x).lo \in Int /\ UintAt(x).lo >= 0 => UintAt(x).lo \in Nat
          BY SMT
        <5> QED
          BY <4>1, <4>2, <5>1, <5>2, <5>3 DEF IsRead
      <4>3. CASE form \notin Strings
        <5>1. r = GetBody("c", form, x)
          BY <4>3
        <5> HIDE DEF x, r
        <5>2. /\ r = Refused \/ \E hi, lo : r = Got(form, hi, lo, BodySize(n)) /\ BodySize(n) <= Len(x)
              /\ BodySize(n) \in 0..8
              /\ form = "bool" /\ r.ok => x[1] \in {0, 1}
          <6>1. form \in TypeNames \ Strings /\ form = DataTypes[n + 1] /\ n \in 0..13
            BY <3>1, <3>2, <4>3
          <6>2. IsBody(r, form, n, x)
            <7> HIDE DEF form, n
            <7> QED
              BY <4>1, <5>1, <6>1, SizesOfBodies
          <6> QED
            BY <6>2 DEF IsBody
        <5>3. CASE r = Refused
          <6>1. 0 \in 0..Len(s)-1
            BY <1>0, <3>1, SMT
          <6> QED
            BY <1>0, <5>3, <6>1, <4>3, Shapes
        <5>4. CASE r # Refused
          <6>1. PICK hi, lo : r = Got(form, hi, lo, BodySize(n)) /\ BodySize(n) <= Len(x)
            BY <5>2, <5>4
          <6>2. r.ok = TRUE /\ r.used = BodySize(n) /\ IsShaped(r)
            BY <6>1 DEF Got, IsShaped
          <6>3. BodySize(n) \in 0..Len(s)-1
            BY <4>1, <5>2, <6>1, SMT
          <6>4. form = "bool" => BodySize(n) = 1
            BY SMT DEF BodySize, Strings, Doubles, Width
          <6>5. BodySize(n) = 1 => x # <<>>
            BY <4>1, <6>1, SMT
          <6> QED
            BY <4>3, <5>2, <6>2, <6>3, <6>4, <6>5 DEF x
        <5> QED
          BY <5>3, <5>4
      <4> QED
        BY <4>2, <4>3
    <3> HIDE DEF r, form, n
    <3>5. /\ DataAt(s).ok = r.ok /\ DataAt(s).lo = r.lo /\ DataAt(s).form = form
          /\ DataAt(s).used = 1 + (IF bool THEN 1 ELSE r.used)
      BY <3>3, <3>4, Zenon DEF IsShaped
    <3>6. DataAt(s).used \in 0..Len(s)
      BY <1>0, <3>4, <3>5, SMT
    <3>7. ASSUME r.ok
          PROVE  /\ form \in Strings => DataAt(s).lo \in Nat /\ DataAt(s).used >= 2
                 /\ form \notin Strings => DataAt(s).used = 1 + BodySize(n)
                 /\ form = "bool" => s[2] \in {0, 1}
      <4>1. form = "bool" => r.used = 1
        BY <3>4, <3>7
      <4>2. DataAt(s).used = 1 + r.used
        BY <3>5, <4>1
      <4>3. form = "bool" => s[2] \in {0, 1}
        BY <3>1, <3>4, <3>7
      <4> QED
        BY <3>4, <3>5, <3>7, <4>2, <4>3, SMT
    <3>8. n = s[1] /\ form = DataTypes[s[1] + 1]
      BY DEF n, form
    <3> QED
      BY <1>2, <3>1, <3>4, <3>5, <3>6, <3>7, <3>8 DEF IsData
  <2> QED
    BY <2>1, <2>2, <2>3, SMT
<1> QED
  BY <1>1, <1>2

-----------------------------------------------------------------------------
(* What is written is bytes, and fits. *)

\* A set of numbers up to n has a greatest one.
LEMMA MaxOf ==
  ASSUME NEW n \in Nat, NEW T, T \subseteq 0..n, T # {}
  PROVE  Max(T) \in T /\ \A x \in T : x <= Max(T)
<1> DEFINE U == {n - x : x \in T}
<1>1. U \subseteq Nat /\ U # {}
  BY SMT
<1>2. PICK u \in U : \A y \in U : u <= y
  <2> HIDE DEF U
  <2> QED
    BY <1>1, Least
<1>3. PICK x \in T : u = n - x
  BY <1>2
<1>4. \A y \in T : x >= y
  <2> SUFFICES ASSUME NEW y \in T PROVE x >= y
    OBVIOUS
  <2>1. n - y \in U
    OBVIOUS
  <2>2. u <= n - y
    BY <1>2, <2>1
  <2>3. x \in 0..n /\ y \in 0..n
    OBVIOUS
  <2> QED
    BY <1>3, <2>2, <2>3, SMT
<1>5. Max(T) \in T /\ \A y \in T : Max(T) >= y
  BY <1>4, Zenon DEF Max
<1>6. \A y \in T : Max(T) \in 0..n /\ y \in 0..n
  BY <1>5
<1> QED
  BY <1>5, <1>6, SMT

\* An output: bytes that fit.
Output(t) == t \in Seq(Byte) /\ Len(t) <= TxSize

\* The first k of the writes are made, and no more of them fit.
WrittenTo(u, t, ps, k) ==
    /\ u = t \o Flat(ps, k)
    /\ Len(Flat(ps, k)) <= TxSize - Len(t)
    /\ \A j \in 0..Len(ps) : Len(Flat(ps, j)) <= TxSize - Len(t) => j <= k

\* A sequence of writes leaves a prefix of its pieces, the longest that fits.
LEMMA WrittenAllTo ==
  ASSUME NEW t, Output(t), NEW ps \in Seq(Seq(Byte))
  PROVE  /\ \E k \in 0..Len(ps) : WrittenTo(WrittenAll(t, ps), t, ps, k)
         /\ Output(WrittenAll(t, ps))
<1> DEFINE fit == {k \in 0..Len(ps) : Len(Flat(ps, k)) <= TxSize - Len(t)}
           k == Max(fit)
<1>0. t \in Seq(Byte) /\ Len(t) \in Nat /\ Len(t) <= TxSize /\ TxSize \in Nat /\ Len(ps) \in Nat
  BY SizeAssumption DEF Output
<1>1. 0 \in fit
  <2>1. Flat(ps, 0) = <<>> /\ Len(<<>>) = 0
    BY FlatStep
  <2>2. 0 <= TxSize - Len(t) /\ 0 \in 0..Len(ps)
    BY <1>0, SMT
  <2> QED
    BY <2>1, <2>2
<1>2. k \in fit /\ \A j \in fit : j <= k
  <2>1. fit \subseteq 0..Len(ps) /\ fit # {}
    BY <1>1
  <2> HIDE DEF fit
  <2> QED
    BY <1>0, <2>1, MaxOf
<1>3. WrittenAll(t, ps) = t \o Flat(ps, k)
  BY Zenon DEF WrittenAll, Flat
<1>4. k \in 0..Len(ps) /\ Len(Flat(ps, k)) <= TxSize - Len(t)
  BY <1>2
<1>5. \A j \in 0..Len(ps) : Len(Flat(ps, j)) <= TxSize - Len(t) => j <= k
  BY <1>2
<1> HIDE DEF k, fit
<1>6. Flat(ps, k) \in Seq(Byte)
  BY <1>4, FlatType
<1>7. Output(WrittenAll(t, ps))
  <2>1. t \o Flat(ps, k) \in Seq(Byte) /\ Len(t \o Flat(ps, k)) = Len(t) + Len(Flat(ps, k))
        /\ Len(Flat(ps, k)) \in Nat
    BY <1>0, <1>6, SMT
  <2> QED
    BY <1>0, <1>3, <1>4, <2>1, SMT DEF Output
<1> QED
  BY <1>3, <1>4, <1>5, <1>7 DEF WrittenTo

\* A write that does not fit leaves the output as it is.
LEMMA WrittenType ==
  ASSUME NEW t, Output(t), NEW s \in Seq(Byte)
  PROVE  Output(Written(t, s))
<1>1. CASE TxSize - Len(t) >= Len(s)
  <2>1. Written(t, s) = t \o s /\ t \in Seq(Byte) /\ TxSize \in Nat /\ Len(t) \in Nat
    BY <1>1, SizeAssumption DEF Written, Output
  <2>2. t \o s \in Seq(Byte) /\ Len(t \o s) = Len(t) + Len(s) /\ Len(s) \in Nat
    BY <2>1, SMT
  <2> QED
    BY <1>1, <2>1, <2>2, SMT DEF Output
<1>2. CASE ~(TxSize - Len(t) >= Len(s))
  BY <1>2 DEF Written
<1> QED
  BY <1>1, <1>2

\* A seek leaves bytes, and stays in the buffer.
LEMMA SeekSetType ==
  ASSUME NEW t, Output(t), NEW offset \in Nat, NEW u \in SeekSet(t, offset)
  PROVE  Output(u)
<1>0. t \in Seq(Byte) /\ Len(t) \in Nat /\ Len(t) <= TxSize /\ TxSize \in Nat /\ Stale \subseteq Byte
  BY SizeAssumption DEF Output
<1>1. CASE offset <= Len(t)
  <2>1. u = SubSeq(t, 1, offset)
    BY <1>0, <1>1, SMT DEF SeekSet
  <2>2. SubSeq(t, 1, offset) \in Seq(Byte) /\ Len(SubSeq(t, 1, offset)) = offset
    BY <1>0, <1>1, SMT
  <2> QED
    BY <1>0, <1>1, <2>1, <2>2, SMT DEF Output
<1>2. CASE offset > Len(t) /\ offset <= TxSize
  <2>1. PICK junk \in [1..offset - Len(t) -> Stale] : u = t \o junk
    <3>1. ~(offset <= Len(t))
      BY <1>0, <1>2, SMT
    <3>2. SeekSet(t, offset) = {t \o junk : junk \in [1..offset - Len(t) -> Stale]}
      BY <1>2, <3>1, Zenon DEF SeekSet
    <3> QED
      BY <3>2, Zenon
  <2>2. offset - Len(t) \in Nat
    BY <1>0, <1>2, SMT
  <2>3. junk \in Seq(Byte) /\ Len(junk) = offset - Len(t)
    <3> DEFINE n == offset - Len(t)
    <3>1. n \in Nat /\ junk \in [1..n -> Byte]
      BY <1>0, <2>2
    <3> HIDE DEF n
    <3>2. junk \in Seq(Byte) /\ Len(junk) = n
      BY <3>1, SMT
    <3> QED
      BY <3>2 DEF n
  <2>4. t \o junk \in Seq(Byte) /\ Len(t \o junk) = Len(t) + Len(junk)
    BY <1>0, <2>3, SMT
  <2> QED
    BY <1>0, <1>2, <2>1, <2>3, <2>4, SMT DEF Output
<1>3. CASE offset > Len(t) /\ ~(offset <= TxSize)
  <2>1. u = t
    BY <1>0, <1>3, SMT DEF SeekSet
  <2> QED
    BY <2>1
<1> QED
  BY <1>0, <1>1, <1>2, <1>3, SMT

\* An encoded uint is one to five bytes.
LEMMA CUintType ==
  ASSUME NEW n \in Nat, NEW e \in Ends
  PROVE  Varint(n, SizeofUint(e, n)) \in Seq(Byte) /\ SizeofUint(e, n) \in 1..5
         /\ Len(Varint(n, SizeofUint(e, n))) = SizeofUint(e, n)
<1>1. SizeofUint(e, n) \in 1..5
  BY SMT DEF SizeofUint
<1>2. n \in Int
  OBVIOUS
<1> QED
  BY <1>1, <1>2, VarintType

\* A value that may be put: its type is one, and its body is bytes.
Puttable(v) == v.type \in 0..13 /\ v.body \in Seq(Byte)

\* The bytes of the protocol are bytes.
LEMMA ByteSeqs ==
  /\ \A b \in Byte : <<b>> \in Seq(Byte) /\ Len(<<b>>) = 1
  /\ \A n \in 0..13 : n \in Byte
  /\ UNKNOWN \in Byte /\ ARGUMENT \in Byte /\ APPLICATION \in Byte
  /\ HELLOHELLO \in Byte /\ RESPONSE \in Byte /\ ALERT \in Byte /\ COMMAND \in Byte
  /\ READ \in Byte /\ WRITE \in Byte /\ 0 \in Byte /\ 1 \in Byte /\ HELLO \in Byte
<1>1. \A b \in Byte : <<b>> \in Seq(Byte) /\ Len(<<b>>) = 1
  OBVIOUS
<1>2. \A n \in 0..13 : n \in Byte
  BY SMT DEF Byte
<1>3. /\ UNKNOWN \in 0..13 /\ ARGUMENT \in 0..13 /\ APPLICATION \in 0..13
      /\ HELLOHELLO \in 0..13 /\ RESPONSE \in 0..13 /\ ALERT \in 0..13 /\ COMMAND \in 0..13
      /\ READ \in 0..13 /\ WRITE \in 0..13 /\ 0 \in 0..13 /\ 1 \in 0..13 /\ HELLO \in 0..13
  BY SMT DEF UNKNOWN, ARGUMENT, APPLICATION, HELLOHELLO, RESPONSE, ALERT, COMMAND, READ, WRITE, HELLO
<1> QED
  BY <1>1, <1>2, <1>3

\* A value is put as pieces that are bytes.
LEMMA PutValueType ==
  ASSUME NEW v, Puttable(v)
  PROVE  PutValue(v) \in Seq(Seq(Byte))
<1>1. CASE v.type \in StringTags
  <2>1. Len(v.body) \in Nat /\ Tag("string") \in Byte
    <3>1. Tag("string") \in 0..13
      BY TagNames, SMT DEF TypeNames, DataTypes
    <3> QED
      BY <3>1, ByteSeqs DEF Puttable
  <2>2. CUint(Len(v.body)) \in Seq(Byte)
    BY <2>1, CUintType DEF CUint, Ends
  <2>3. <<Tag("string")>> \in Seq(Byte) /\ v.body \in Seq(Byte)
    BY <2>1, ByteSeqs DEF Puttable
  <2>4. PutValue(v) = <<<<Tag("string")>>, CUint(Len(v.body)), v.body>>
    BY <1>1 DEF PutValue
  <2> QED
    BY <2>2, <2>3, <2>4
<1>2. CASE v.type \notin StringTags
  <2>1. <<v.type>> \in Seq(Byte) /\ v.body \in Seq(Byte)
    BY ByteSeqs DEF Puttable
  <2>2. PutValue(v) = <<<<v.type>>, v.body>>
    BY <1>2 DEF PutValue
  <2> QED
    BY <2>1, <2>2
<1> QED
  BY <1>1, <1>2

-----------------------------------------------------------------------------
(* Requests and their bytes. *)

\* A value is encoded as bytes.
LEMMA EncodeValueType ==
  ASSUME NEW v, Typed(v)
  PROVE  EncodeValue(v) \in Seq(Byte) /\ Puttable(v)
<1>1. v.type \in 0..13 /\ v.body \in Seq(Byte) /\ Len(v.body) \in Nat
  BY DEF Typed
<1>2. <<v.type>> \in Seq(Byte)
  BY <1>1, ByteSeqs
<1> DEFINE len == IF v.type \in StringTags THEN Uint(Len(v.body)) ELSE <<>>
<1>3. len \in Seq(Byte)
  <2>1. Uint(Len(v.body)) \in Seq(Byte)
    BY <1>1, CUintType DEF Uint, Ends
  <2>2. <<>> \in Seq(Byte)
    OBVIOUS
  <2> QED
    BY <2>1, <2>2
<1>4. EncodeValue(v) = (<<v.type>> \o len) \o v.body
  BY DEF EncodeValue
<1> HIDE DEF len
<1>5. (<<v.type>> \o len) \in Seq(Byte)
  <2>1. Concats(<<v.type>>, len)
    BY <1>2, <1>3, ConcatLen
  <2> QED
    BY <2>1 DEF Concats
<1>6. (<<v.type>> \o len) \o v.body \in Seq(Byte)
  <2> DEFINE a == <<v.type>> \o len
  <2>1. a \in Seq(Byte)
    BY <1>5
  <2> HIDE DEF a
  <2>2. Concats(a, v.body)
    BY <1>1, <2>1, ConcatLen
  <2> QED
    BY <2>2 DEF Concats, a
<1> QED
  BY <1>1, <1>4, <1>6 DEF Puttable

\* Three bytes are a sequence of bytes.
LEMMA Head3 ==
  ASSUME NEW a \in Byte, NEW b \in Byte, NEW c \in Byte
  PROVE  <<a, b, c>> \in Seq(Byte) /\ Len(<<a, b, c>>) = 3
  OBVIOUS

\* A u32 is a number.
LEMMA U32Nat == \A n \in U32 : n \in Nat /\ n \in Int
  BY SMT DEF U32

\* A request is encoded as bytes, of which there is one.
LEMMA EncodeType ==
  ASSUME NEW q, IsRequest(q)
  PROVE  Encode(q) \in Seq(Byte) /\ Encode(q) # <<>> /\ q.kind \in {"read", "write", "hello", "other"}
<1>1. CASE q.kind = "read"
  <2>1. q.field \in Byte /\ q.oid \in U32
    BY <1>1 DEF IsRequest
  <2>2. Uint(q.oid) \in Seq(Byte)
    BY <2>1, U32Nat, CUintType DEF Uint, Ends
  <2>3. <<COMMAND, q.field, READ>> \in Seq(Byte) /\ Len(<<COMMAND, q.field, READ>>) = 3
    BY <2>1, ByteSeqs, Head3
  <2>4. Encode(q) = <<COMMAND, q.field, READ>> \o Uint(q.oid)
    BY <1>1 DEF Encode
  <2>5. <<COMMAND, q.field, READ>> \o Uint(q.oid) \in Seq(Byte)
        /\ Len(<<COMMAND, q.field, READ>> \o Uint(q.oid)) = 3 + Len(Uint(q.oid)) /\ Len(Uint(q.oid)) \in Nat
    <3>1. Concats(<<COMMAND, q.field, READ>>, Uint(q.oid))
      BY <2>2, <2>3, ConcatLen
    <3> QED
      BY <2>3, <3>1 DEF Concats
  <2>6. Len(Encode(q)) # 0
    BY <2>4, <2>5, SMT
  <2> QED
    BY <1>1, <2>4, <2>5, <2>6
<1>2. CASE q.kind = "write"
  <2> DEFINE h == <<COMMAND, q.field, WRITE>>
             o == Uint(q.oid)
             e == EncodeValue(q.value)
  <2>1. q.field \in Byte /\ q.oid \in U32 /\ Typed(q.value)
    BY <1>2 DEF IsRequest
  <2>2. o \in Seq(Byte) /\ e \in Seq(Byte)
    BY <2>1, U32Nat, CUintType, EncodeValueType DEF Uint, Ends
  <2>3. h \in Seq(Byte) /\ Len(h) = 3
    BY <2>1, ByteSeqs, Head3
  <2>4. Encode(q) = (h \o o) \o e
    BY <1>2 DEF Encode
  <2> HIDE DEF h, o, e
  <2>5. (h \o o) \o e \in Seq(Byte) /\ Len((h \o o) \o e) = 3 + Len(o) + Len(e) /\ Len(o) \in Nat /\ Len(e) \in Nat
    <3> DEFINE ho == h \o o
    <3>1. ho \in Seq(Byte) /\ Len(ho) = 3 + Len(o) /\ Len(o) \in Nat
      <4>1. Concats(h, o)
        BY <2>2, <2>3, ConcatLen
      <4> QED
        BY <2>3, <4>1 DEF Concats
    <3> HIDE DEF ho
    <3>2. ho \o e \in Seq(Byte) /\ Len(ho \o e) = Len(ho) + Len(e) /\ Len(e) \in Nat
      <4>1. Concats(ho, e)
        BY <2>2, <3>1, ConcatLen
      <4> QED
        BY <4>1 DEF Concats
    <3> QED
      BY <3>1, <3>2 DEF ho
  <2>6. Len(Encode(q)) # 0
    BY <2>4, <2>5, SMT
  <2> QED
    BY <1>2, <2>4, <2>5, <2>6
<1>3. CASE q.kind \in {"hello", "other"}
  <2>1. q.bytes \in Seq(Byte) /\ q.bytes # <<>>
    BY <1>3 DEF IsRequest
  <2>2. Encode(q) = q.bytes
    BY <1>3 DEF Encode
  <2> QED
    BY <1>3, <2>1, <2>2
<1>4. q.kind \in {"read", "write", "hello", "other"}
  BY Zenon DEF IsRequest
<1> QED
  BY <1>1, <1>2, <1>3, <1>4

\* The requests that may arrive.
Request == UNION {Range(batch) : batch \in Batches}

\* What arrives are requests.
LEMMA RequestsAre ==
  /\ \A q \in Request : IsRequest(q)
  /\ \A batch \in Batches : batch \in Seq(Request)
<1>1. \A q \in Request : IsRequest(q)
  BY RequestAssumption DEF Request
<1>2. ASSUME NEW batch \in Batches PROVE batch \in Seq(Request)
  <2>1. batch \in Seq(Range(batch)) /\ Range(batch) \subseteq Request
    BY RequestAssumption DEF Request
  <2> HIDE DEF Request
  <2>2. \A S, T : S \subseteq T => Seq(S) \subseteq Seq(T)
    OBVIOUS
  <2> QED
    BY <2>1, <2>2
<1> QED
  BY <1>1, <1>2

\* The requests of a batch, as bytes.
Frames(batch) == [i \in 1..Len(batch) |-> Encode(batch[i])]

\* Their encodings are sequences of bytes.
LEMMA FramesType ==
  ASSUME NEW batch \in Seq(Request)
  PROVE  Frames(batch) \in Seq(Seq(Byte)) /\ Len(Frames(batch)) = Len(batch)
<1>1. \A i \in 1..Len(batch) : Encode(batch[i]) \in Seq(Byte)
  <2>1. \A i \in 1..Len(batch) : batch[i] \in Request
    OBVIOUS
  <2> QED
    BY <2>1, RequestsAre, EncodeType
<1> QED
  BY <1>1 DEF Frames

-----------------------------------------------------------------------------
(* Types. *)

\* Every object holds a value of its type.
ObjectsOK ==
    /\ DOMAIN objects = 0..13
    /\ \A oid \in 0..13 :
         /\ objects[oid] \in Seq(Byte)
         /\ IF oid \in StringTags THEN Len(objects[oid]) <= Capacity
                                  ELSE Len(objects[oid]) = BodySize(oid)
    /\ objects[Tag("bool")] \in {<<0>>, <<1>>}

\* TypeOK, and that the input is a record.
IInv ==
    /\ rx.bytes \in Seq(Byte) /\ rx.pos \in 0..Len(rx.bytes)
    /\ rx = [bytes |-> rx.bytes, pos |-> rx.pos]
    /\ Output(tx)
    /\ requests \in Seq(Request)
    /\ ObjectsOK
    /\ handlers \in Handlers

\* The tags of strings and blobs are those of the string types.
LEMMA StringTagsAre ==
  ASSUME NEW n \in 0..13
  PROVE  n \in StringTags <=> DataTypes[n + 1] \in Strings
<1>1. DataTypes[n + 1] \in TypeNames /\ Tag(DataTypes[n + 1]) = n
  BY TypeTags
<1>2. \A ty \in Strings : ty \in TypeNames
  BY SMT DEF Strings, TypeNames, DataTypes
<1>3. \A ty \in Strings : DataTypes[Tag(ty) + 1] = ty
  BY <1>2, TagNames
<1> QED
  BY <1>1, <1>3, Zenon DEF StringTags

\* The size of a body is a number, and that of a string is 0.
LEMMA BodySizes ==
  \A oid \in 0..13 : BodySize(oid) \in Nat /\ (oid \in StringTags => BodySize(oid) = 0)
<1> SUFFICES ASSUME NEW oid \in 0..13
             PROVE  BodySize(oid) \in Nat /\ (oid \in StringTags => BodySize(oid) = 0)
  OBVIOUS
<1> DEFINE form == DataTypes[oid + 1]
<1>1. form \in TypeNames
  BY TypeTags
<1>2. oid \in StringTags => form \in Strings
  BY StringTagsAre
<1>3. BodySize(oid) = CASE form \in {"nil"} \cup Strings -> 0
                        [] form \in Doubles -> 8
                        [] OTHER -> Width(form)
  BY DEF BodySize
<1> HIDE DEF form
<1> QED
  BY <1>1, <1>2, <1>3, SMT DEF TypeNames, DataTypes, Strings, Doubles, Width

\* The first state is well typed.
LEMMA Inits == Init => IInv
<1> SUFFICES ASSUME Init PROVE IInv
  OBVIOUS
<1>1. rx = [bytes |-> <<>>, pos |-> 0] /\ tx = <<>> /\ requests = <<>> /\ handlers \in Handlers
      /\ objects = [oid \in 0..13 |-> [i \in 1..BodySize(oid) |-> 0]]
  BY DEF Init
<1>2. /\ rx.bytes \in Seq(Byte) /\ rx.pos \in 0..Len(rx.bytes)
      /\ rx = [bytes |-> rx.bytes, pos |-> rx.pos]
  BY <1>1, SMT
<1>3. Output(tx) /\ requests \in Seq(Request)
  BY <1>1, SizeAssumption, SMT DEF Output
<1>4. ObjectsOK
  <2>1. ASSUME NEW oid \in 0..13
        PROVE  /\ objects[oid] \in Seq(Byte) /\ Len(objects[oid]) = BodySize(oid)
               /\ oid \in StringTags => Len(objects[oid]) <= Capacity
    <3> DEFINE n == BodySize(oid)
    <3>1. n \in Nat /\ 0 \in Byte /\ (oid \in StringTags => n = 0)
      BY BodySizes, ByteSeqs
    <3>2. objects[oid] = [i \in 1..n |-> 0]
      BY <1>1
    <3> HIDE DEF n
    <3>3. [i \in 1..n |-> 0] \in Seq(Byte) /\ Len([i \in 1..n |-> 0]) = n
      BY <3>1, SMT
    <3>4. Len(objects[oid]) = n => (oid \in StringTags => Len(objects[oid]) <= Capacity)
      BY <3>1, SizeAssumption, SMT
    <3> QED
      BY <3>2, <3>3, <3>4 DEF n
  <2>2. objects[Tag("bool")] \in {<<0>>, <<1>>}
    <3>1. Tag("bool") \in 0..13 /\ DataTypes[Tag("bool") + 1] = "bool"
      BY TagNames, SMT DEF TypeNames, DataTypes
    <3>2. BodySize(Tag("bool")) = 1
      BY <3>1, SMT DEF BodySize, Strings, Doubles, Width
    <3>3. objects[Tag("bool")] = [i \in 1..1 |-> 0]
      BY <1>1, <3>1, <3>2
    <3>4. [i \in 1..1 |-> 0] = <<0>>
      OBVIOUS
    <3> QED
      BY <3>3, <3>4
  <2> QED
    BY <1>1, <2>1, <2>2 DEF ObjectsOK
<1> QED
  BY <1>1, <1>2, <1>3, <1>4 DEF IInv

-----------------------------------------------------------------------------
(* What the server answers fits its output. *)

\* What a command leaves of the output stays in the buffer.
LEMMA ConfirmType ==
  ASSUME IInv, NEW field, NEW t, Output(t), NEW u \in Confirm(field, t)
  PROVE  Output(u)
<1>1. rx.pos \in Nat
  BY SMT DEF IInv
<1>2. u = t \/ u \in SeekSet(t, rx.pos)
  BY DEF Confirm
<1> QED
  BY <1>1, <1>2, SeekSetType

\* One byte is a sequence of bytes.
LEMMA Bytes1 ==
  ASSUME NEW a \in Byte
  PROVE  <<a>> \in Seq(Byte)
  OBVIOUS

\* The reason of a refusal is a byte.
LEMMA WhyType == \A oid \in Nat : Why(oid) \in Byte
<1>1. \A oid \in Nat : Why(oid) \in 0..13
  BY SMT DEF Why, UNKNOWN
<1> QED
  BY <1>1, ByteSeqs

\* The response to a read stays in the buffer.
LEMMA ReadResponseType ==
  ASSUME IInv, NEW field \in Byte, NEW oid \in Nat
  PROVE  Output(ReadResponse(field, oid))
<1> DEFINE ps == <<<<RESPONSE>>, <<field>>, <<READ>>>>
           head == WrittenAll(tx, ps)
           said == Written(head, <<0>>)
           v == [type |-> oid, body |-> objects[oid]]
           no == <<<<1>>, <<UNKNOWN>>>>
           why == <<<<1>>, <<Why(oid)>>>>
           kept == SubSeq(said, 1, Len(head))
<1>1. ps \in Seq(Seq(Byte)) /\ <<0>> \in Seq(Byte) /\ no \in Seq(Seq(Byte)) /\ why \in Seq(Seq(Byte))
  <2>1. /\ <<RESPONSE>> \in Seq(Byte) /\ <<field>> \in Seq(Byte) /\ <<READ>> \in Seq(Byte)
        /\ <<0>> \in Seq(Byte) /\ <<1>> \in Seq(Byte) /\ <<UNKNOWN>> \in Seq(Byte)
        /\ <<Why(oid)>> \in Seq(Byte)
    BY ByteSeqs, WhyType
  <2> QED
    BY <2>1
<1>2. Output(tx)
  BY DEF IInv
<1> HIDE DEF ps
<1>3. Output(head)
  BY <1>1, <1>2, WrittenAllTo
<1> HIDE DEF head
<1>4. Output(said)
  BY <1>1, <1>3, WrittenType
<1>5. Output(kept)
  <2>1. Len(head) \in Nat /\ head \in Seq(Byte) /\ said \in Seq(Byte) /\ Len(head) <= TxSize /\ Len(said) <= TxSize
    BY <1>3, <1>4 DEF Output
  <2>2. Len(head) <= Len(said)
    <3>1. said = head \/ (said = head \o <<0>> /\ Len(head \o <<0>>) = Len(head) + 1)
      BY <2>1 DEF Written
    <3> QED
      BY <2>1, <3>1, SMT
  <2> HIDE DEF said
  <2>3. SubSeq(said, 1, Len(head)) \in Seq(Byte) /\ Len(SubSeq(said, 1, Len(head))) = Len(head)
    BY <2>1, <2>2, SMT
  <2> QED
    BY <2>1, <2>3 DEF Output
<1> HIDE DEF said, kept
<1>6. CASE "read" \notin handlers
  <2>1. ReadResponse(field, oid) = WrittenAll(said, no)
    BY <1>6, Zenon DEF ReadResponse, said, head, ps
  <2> HIDE DEF no
  <2> QED
    BY <1>1, <1>4, <2>1, WrittenAllTo
<1>7. CASE "read" \in handlers /\ oid \in 0..13
  <2>1. ReadResponse(field, oid) = WrittenAll(said, PutValue(v))
    BY <1>7, Zenon DEF ReadResponse, said, head, ps
  <2>2. Puttable(v)
    BY <1>7, Zenon DEF Puttable, IInv, ObjectsOK
  <2> HIDE DEF v
  <2> QED
    BY <1>4, <2>1, <2>2, PutValueType, WrittenAllTo
<1>8. CASE "read" \in handlers /\ oid \notin 0..13
  <2>1. ReadResponse(field, oid) = WrittenAll(kept, why)
    BY <1>8, Zenon DEF ReadResponse, kept, said, head, ps
  <2> HIDE DEF why
  <2> QED
    BY <1>1, <1>5, <2>1, WrittenAllTo
<1> QED
  BY <1>6, <1>7, <1>8

\* Why a value is refused, and of what type one is that is not.
LEMMA RefusalType ==
  ASSUME NEW oid \in Nat, NEW data, NEW taken, data.form \in TypeNames
  PROVE  /\ \A why \in Refusal(oid, data, taken) : why \in Reasons
         /\ Refusal(oid, data, taken) = {} => oid \in 0..13 /\ oid = Tag(data.form)
              /\ (data.form \in Strings => ~(data.lo > Capacity \/ taken < data.lo))
<1> DEFINE r == Refusal(oid, data, taken)
<1>0. UNKNOWN \in Reasons /\ ARGUMENT \in Reasons /\ APPLICATION \in Reasons
  BY SMT DEF UNKNOWN, ARGUMENT, APPLICATION, Reasons
<1>1. CASE oid \notin 0..19
  <2>1. r = {UNKNOWN}
    <3>1. oid \notin 0..13 /\ oid \notin 14..19
      BY <1>1, SMT
    <3> QED
      BY <1>1, <3>1, Zenon DEF Refusal
  <2> QED
    BY <1>0, <2>1
<1>2. CASE oid \in 0..19 /\ TypeOf(oid) # Tag(data.form)
  <2>1. r = {ARGUMENT}
    <3>1. ~(oid \in 0..13 /\ oid = Tag(data.form)) 
      BY <1>2 DEF TypeOf
    <3>2. ~(oid \in 14..19 /\ data.form = "nil")
      <4>1. oid \in 14..19 => oid \notin 0..13
        BY SMT
      <4> QED
        BY <1>2, <4>1 DEF TypeOf
    <3>3. ~(oid \notin 0..19)
      BY <1>2
    <3> QED
      BY <1>2, <3>1, <3>2, <3>3, Zenon DEF Refusal
  <2> QED
    BY <1>0, <2>1
<1>3. CASE oid \in 0..19 /\ TypeOf(oid) = Tag(data.form) /\ oid \notin 0..13
  <2>1. oid \in 14..19
    BY <1>3, SMT
  <2>2. data.form = "nil"
    <3>1. Tag(data.form) = Tag("nil") /\ "nil" \in TypeNames
      BY <1>3, SMT DEF TypeOf, TypeNames, DataTypes
    <3> QED
      BY <3>1, TagNames
  <2>3. r = {Why(oid)}
    <3>1. ~(oid \notin 0..19) /\ ~(TypeOf(oid) # Tag(data.form))
      BY <1>3
    <3> QED
      BY <1>3, <2>1, <2>2, <3>1, Zenon DEF Refusal
  <2>4. Why(oid) \in Reasons
    BY <2>1, SMT DEF Why, Reasons
  <2> QED
    BY <2>3, <2>4
<1>4. CASE oid \in 0..13 /\ oid = Tag(data.form)
  <2> DEFINE x == IF data.form \in Strings /\ (data.lo > Capacity \/ taken < data.lo)
                    THEN {APPLICATION} ELSE {}
  <2>1. r = x
    <3>1. ~(oid \notin 0..19) /\ ~(TypeOf(oid) # Tag(data.form)) /\ ~(oid \in 14..19)
      BY <1>4, SMT DEF TypeOf
    <3> QED
      BY <1>4, <3>1, Zenon DEF Refusal
  <2> QED
    BY <1>0, <1>4, <2>1
<1>5. oid \in 0..19 /\ oid \in 0..13 /\ TypeOf(oid) = Tag(data.form) => oid = Tag(data.form)
  BY DEF TypeOf
<1> QED
  BY <1>1, <1>2, <1>3, <1>4, <1>5, SMT

\* The response to a write stays in the buffer.
LEMMA WriteResponseType ==
  ASSUME IInv, NEW field \in Byte, NEW refusal, \A why \in refusal : why \in Reasons
  PROVE  Output(WriteResponse(field, refusal))
<1> DEFINE head == <<<<RESPONSE>>, <<field>>, <<WRITE>>>>
           w == CHOOSE why \in refusal : TRUE
           no == <<<<1>>, <<w>>>>
           tail == IF refusal = {} THEN <<<<0>>>> ELSE no
           ps == head \o tail
<1>1. head \in Seq(Seq(Byte)) /\ tail \in Seq(Seq(Byte))
  <2>1. refusal # {} => w \in Byte
    <3>1. \A n \in Reasons : n \in 0..13
      BY SMT DEF Reasons
    <3> QED
      BY <3>1, ByteSeqs
  <2>2. /\ <<RESPONSE>> \in Seq(Byte) /\ <<field>> \in Seq(Byte) /\ <<WRITE>> \in Seq(Byte)
        /\ <<0>> \in Seq(Byte) /\ <<1>> \in Seq(Byte)
        /\ refusal # {} => <<w>> \in Seq(Byte)
    BY <2>1, ByteSeqs
  <2> HIDE DEF w
  <2> QED
    BY <2>2
<1>2. WriteResponse(field, refusal) = WrittenAll(tx, ps)
  BY Zenon DEF WriteResponse
<1>3. Output(tx)
  BY DEF IInv
<1> HIDE DEF head, tail
<1>4. ps \in Seq(Seq(Byte))
  BY <1>1
<1> HIDE DEF ps
<1> QED
  BY <1>2, <1>3, <1>4, WrittenAllTo

-----------------------------------------------------------------------------
(* Every step keeps the types. *)

\* What is left of bytes is bytes.
LEMMA FromType ==
  ASSUME NEW s \in Seq(Byte), NEW n \in 0..Len(s)
  PROVE  From(s, n) \in Seq(Byte) /\ Len(From(s, n)) = Len(s) - n
  BY SMT DEF From

\* What is left of the input.
LEMMA Remainder ==
  ASSUME IInv
  PROVE  /\ Ahead(0) \in Seq(Byte)
         /\ Len(Ahead(0)) = Len(rx.bytes) - rx.pos
         /\ rx.pos \in Nat /\ Len(rx.bytes) \in Nat
         /\ \A n \in 0..Len(Ahead(0)) : Skip(n) =>
                rx' = [bytes |-> rx.bytes, pos |-> rx.pos + n]
                /\ rx.pos + n \in 0..Len(rx.bytes)
<1>1. rx.bytes \in Seq(Byte) /\ rx.pos \in 0..Len(rx.bytes)
      /\ rx = [bytes |-> rx.bytes, pos |-> rx.pos]
  BY DEF IInv
<1>2. /\ rx.pos \in Nat /\ Len(rx.bytes) \in Nat /\ rx.pos <= Len(rx.bytes)
      /\ rx.pos + 0 = rx.pos
  BY <1>1, SMT
<1>3. Ahead(0) = From(rx.bytes, rx.pos)
  BY <1>2 DEF Ahead
<1>4. Ahead(0) \in Seq(Byte) /\ Len(Ahead(0)) = Len(rx.bytes) - rx.pos
  BY <1>1, <1>3, FromType
<1>5. ASSUME NEW n \in 0..Len(Ahead(0)), Skip(n)
      PROVE  rx' = [bytes |-> rx.bytes, pos |-> rx.pos + n]
  <2>1. rx' = [rx EXCEPT !.pos = rx.pos + n]
    BY <1>5 DEF Skip
  <2>2. \A b, p, m : [[bytes |-> b, pos |-> p] EXCEPT !.pos = m] = [bytes |-> b, pos |-> m]
    OBVIOUS
  <2> QED
    BY <1>1, <2>1, <2>2
<1>6. \A n \in 0..Len(Ahead(0)) : rx.pos + n \in 0..Len(rx.bytes)
  BY <1>2, <1>4, SMT
<1> QED
  BY <1>2, <1>4, <1>5, <1>6

\* A step that takes n of what is left, and answers.
LEMMA Moves ==
  ASSUME IInv, NEW n \in 0..Len(Ahead(0)), Skip(n), Process(Ahead(0)), Output(tx'),
         ObjectsOK'
  PROVE  IInv'
<1>1. rx' = [bytes |-> rx.bytes, pos |-> rx.pos + n] /\ rx.pos + n \in 0..Len(rx.bytes)
  BY Remainder
<1>2. /\ rx'.bytes \in Seq(Byte) /\ rx'.pos \in 0..Len(rx'.bytes)
      /\ rx' = [bytes |-> rx'.bytes, pos |-> rx'.pos]
  BY <1>1 DEF IInv
<1>3. requests' \in Seq(Request) /\ handlers' \in Handlers
  <2>1. requests # <<>> /\ requests' = Tail(requests) /\ handlers' = handlers
    BY DEF Process
  <2> QED
    BY <2>1 DEF IInv
<1> QED
  BY <1>2, <1>3 DEF IInv

\* A step that leaves the objects alone keeps them well typed.
LEMMA SameObjects ==
  ASSUME IInv, UNCHANGED objects
  PROVE  ObjectsOK'
  BY DEF IInv, ObjectsOK

\* A message of another type is passed over byte by byte.
LEMMA Ignoreds ==
  ASSUME IInv, ProcessIgnored(Ahead(0)) PROVE IInv'
<1>1. 1 \in 0..Len(Ahead(0)) /\ Skip(1) /\ Process(Ahead(0)) /\ UNCHANGED <<objects, tx>>
  <2>1. Ahead(0) # <<>> /\ Ahead(0) \in Seq(Byte)
    BY Remainder DEF ProcessIgnored, Process
  <2>2. \A s \in Seq(Byte) : s # <<>> => 1 \in 0..Len(s)
    BY SMT
  <2> QED
    BY <2>1, <2>2 DEF ProcessIgnored
<1>2. Output(tx') /\ ObjectsOK'
  BY <1>1, SameObjects DEF IInv
<1> QED
  BY <1>1, <1>2, Moves

\* The four bytes at the end of an answer to a hello.
LEMMA Zeros == <<0, 0, 0, 0>> \in Seq(Byte) /\ Len(<<0, 0, 0, 0>>) = 4
<1>1. 0 \in Byte
  BY ByteSeqs
<1> QED
  BY <1>1

\* A hello is taken and answered.
LEMMA Hellos ==
  ASSUME IInv, ProcessHello(Ahead(0)) PROVE IInv'
<1> DEFINE s == Ahead(0)
           hello == HelloAt(Tail(s))
           ps == <<<<HELLOHELLO>>, <<1>>, <<0>>, <<0, 0, 0, 0>>>>
<1>1. /\ Process(s) /\ Skip(1 + hello.used) /\ UNCHANGED objects
      /\ tx' = IF hello.ok THEN WrittenAll(tx, ps) ELSE tx
  BY Zenon DEF ProcessHello
<1>2. s # <<>> /\ s \in Seq(Byte) /\ Output(tx)
  BY <1>1, Remainder DEF Process, IInv
<1> HIDE DEF s
<1>3. Tail(s) \in Seq(Byte) /\ Len(Tail(s)) = Len(s) - 1 /\ Len(s) \in Nat
  BY <1>2, SMT
<1>4. hello.used \in 0..Len(s)-1
  BY <1>3, HelloAtType
<1> HIDE DEF hello
<1>5. 1 + hello.used \in 0..Len(s)
  BY <1>3, <1>4, SMT
<1>6. Output(tx')
  <2>1. ps \in Seq(Seq(Byte))
    <3>1. <<HELLOHELLO>> \in Seq(Byte) /\ <<1>> \in Seq(Byte) /\ <<0>> \in Seq(Byte) /\ <<0, 0, 0, 0>> \in Seq(Byte)
      BY ByteSeqs, Zeros
    <3> QED
      BY <3>1
  <2> HIDE DEF ps
  <2> QED
    BY <1>1, <1>2, <2>1, WrittenAllTo
<1>7. ObjectsOK'
  BY <1>1, SameObjects
<1> HIDE DEF ps
<1> QED
  BY <1>1, <1>5, <1>6, <1>7, Moves DEF s

\* A command that is cut short, or invokes nothing known, is taken.
LEMMA Unknowns ==
  ASSUME IInv, ProcessUnknown(Ahead(0)) PROVE IInv'
<1> DEFINE s == Ahead(0)
           n == IF Len(s) < 3 THEN Len(s) ELSE 3
<1>1. Process(s) /\ Skip(n) /\ UNCHANGED objects /\ \E field : tx' \in Confirm(field, tx)
  BY Zenon DEF ProcessUnknown
<1>2. s \in Seq(Byte) /\ Output(tx)
  BY Remainder DEF IInv
<1> HIDE DEF s
<1>3. n \in 0..Len(s)
  BY <1>2, SMT
<1>4. Output(tx') /\ ObjectsOK'
  BY <1>1, <1>2, ConfirmType, SameObjects
<1> HIDE DEF n
<1> QED
  BY <1>1, <1>3, <1>4, Moves DEF s

\* The first three bytes of a command.
LEMMA CommandBytes ==
  ASSUME NEW s \in Seq(Byte), Len(s) >= 3
  PROVE  /\ s[2] \in Byte /\ Len(s) \in Nat
         /\ From(s, 3) \in Seq(Byte) /\ Len(From(s, 3)) = Len(s) - 3
<1>1. s[2] \in Byte /\ Len(s) \in Nat /\ 3 \in 0..Len(s)
  BY SMT
<1> QED
  BY <1>1, FromType

\* A read is taken and answered.
LEMMA Reads ==
  ASSUME IInv, ProcessRead(Ahead(0)) PROVE IInv'
<1> DEFINE s == Ahead(0)
           oid == UintAt(From(s, 3))
           t == IF oid.ok THEN ReadResponse(s[2], oid.lo) ELSE tx
<1>1. /\ Process(s) /\ Len(s) >= 3 /\ UNCHANGED objects /\ Skip(3 + oid.used)
      /\ tx' \in Confirm(s[2], t)
  BY Zenon DEF ProcessRead
<1>2. s \in Seq(Byte) /\ Output(tx)
  BY Remainder DEF IInv
<1> HIDE DEF s
<1>3. /\ s[2] \in Byte /\ Len(s) \in Nat
      /\ From(s, 3) \in Seq(Byte) /\ Len(From(s, 3)) = Len(s) - 3
  BY <1>1, <1>2, CommandBytes
<1>4. IsRead(oid, From(s, 3))
  BY <1>3, UintAtType
<1> HIDE DEF oid
<1>5. oid.used \in 0..Len(s)-3 /\ (oid.ok => oid.lo \in Nat)
  BY <1>3, <1>4, SMT DEF IsRead
<1>6. 3 + oid.used \in 0..Len(s)
  BY <1>3, <1>5, SMT
<1>7. Output(t)
  BY <1>2, <1>3, <1>5, ReadResponseType
<1> HIDE DEF t
<1>8. Output(tx') /\ ObjectsOK'
  BY <1>1, <1>7, ConfirmType, SameObjects
<1> QED
  BY <1>1, <1>6, <1>8, Moves DEF s

\* What object oid may hold.
Fitting(oid, body) ==
    /\ oid \in 0..13 /\ body \in Seq(Byte)
    /\ IF oid \in StringTags THEN Len(body) <= Capacity ELSE Len(body) = BodySize(oid)
    /\ oid = Tag("bool") => body \in {<<0>>, <<1>>}

\* A value of its type takes the place of an object's.
LEMMA NewObject ==
  ASSUME IInv, NEW oid, NEW body, Fitting(oid, body),
         objects' = [objects EXCEPT ![oid] = body]
  PROVE  ObjectsOK'
<1> USE DEF Fitting
<1>1. DOMAIN objects = 0..13
  BY DEF IInv, ObjectsOK
<1>2. \A o \in 0..13 : objects'[o] = IF o = oid THEN body ELSE objects[o]
  BY <1>1
<1>3. DOMAIN objects' = 0..13
  BY <1>1
<1>4. \A o \in 0..13 : /\ objects'[o] \in Seq(Byte)
                       /\ IF o \in StringTags THEN Len(objects'[o]) <= Capacity
                                              ELSE Len(objects'[o]) = BodySize(o)
  BY <1>2 DEF IInv, ObjectsOK
<1>5. Tag("bool") \in 0..13
  BY TagNames, SMT DEF TypeNames, DataTypes
<1>6. objects'[Tag("bool")] \in {<<0>>, <<1>>}
  BY <1>2, <1>5 DEF IInv, ObjectsOK
<1> QED
  BY <1>3, <1>4, <1>6 DEF ObjectsOK

\* A part of bytes is bytes.
LEMMA SubType ==
  ASSUME NEW s \in Seq(Byte), NEW a \in Nat, NEW b \in Nat, 1 <= a, b <= Len(s), a <= b + 1
  PROVE  SubSeq(s, a, b) \in Seq(Byte) /\ Len(SubSeq(s, a, b)) = b - a + 1
         /\ (a <= b => SubSeq(s, a, b)[1] = s[a])
  BY SMT

\* The bytes of what is left, by their places.
LEMMA FromAt ==
  ASSUME NEW s \in Seq(Byte), NEW n \in 0..Len(s), NEW i \in 1..Len(s)-n
  PROVE  From(s, n)[i] = s[n + i]
  BY SMT DEF From

\* The body that a write stores.
StoredBody(s, n, m, data) ==
    IF data.form \in Strings THEN SubSeq(s, n + 1, n + data.lo) ELSE SubSeq(s, m + 2, n)

\* A value was read.
IsDatum(data, f) == IsData(data, f) /\ data.ok

\* A value that is not refused fits its object (app_writer).
LEMMA StoredType ==
  ASSUME NEW s \in Seq(Byte), NEW m \in 0..Len(s), NEW data, IsDatum(data, From(s, m)),
         NEW n, n = m + data.used, NEW oid \in Nat, Refusal(oid, data, Len(s) - n) = {}
  PROVE  /\ Fitting(oid, StoredBody(s, n, m, data))
         /\ data.form \in Strings => n + data.lo <= Len(s)
<1> DEFINE f == From(s, m)
           body == StoredBody(s, n, m, data)
<1>0. f \in Seq(Byte) /\ Len(f) = Len(s) - m /\ Len(s) \in Nat /\ m \in Nat /\ Capacity \in Nat
  BY FromType, SizeAssumption
<1>1. /\ data.used \in 0..Len(f) /\ f # <<>> /\ f[1] \in 0..13 /\ data.form = DataTypes[f[1] + 1]
      /\ data.form \in Strings => data.lo \in Nat /\ data.used >= 2
      /\ data.form \notin Strings => data.used = 1 + BodySize(f[1])
      /\ data.form = "bool" => f[2] \in {0, 1}
  BY DEF IsData, IsDatum
<1> HIDE DEF f
<1>2. data.form \in TypeNames /\ Tag(data.form) = f[1]
  BY <1>1, TypeTags
<1> DEFINE taken == Len(s) - n
<1>3. Refusal(oid, data, taken) = {}
  OBVIOUS
<1> HIDE DEF taken
<1>4. /\ oid \in 0..13 /\ oid = Tag(data.form)
      /\ data.form \in Strings => ~(data.lo > Capacity \/ taken < data.lo)
  BY <1>2, <1>3, RefusalType
<1>5. oid = f[1] /\ (oid \in StringTags <=> data.form \in Strings)
  BY <1>1, <1>2, <1>4, StringTagsAre
<1>6. n \in Nat /\ n <= Len(s) /\ m <= n
  BY <1>0, <1>1, SMT
<1>7. CASE data.form \in Strings
  <2>1. data.lo \in Nat /\ data.lo <= Capacity /\ n + data.lo <= Len(s)
    BY <1>0, <1>1, <1>4, <1>6, <1>7, SMTT(30) DEF taken
  <2>2. /\ n + 1 \in Nat /\ n + data.lo \in Nat /\ 1 <= n + 1
        /\ n + 1 <= (n + data.lo) + 1 /\ (n + data.lo) - (n + 1) + 1 = data.lo
    BY <1>6, <2>1, SMT
  <2>3. body = SubSeq(s, n + 1, n + data.lo)
    BY <1>7 DEF StoredBody
  <2>4. body \in Seq(Byte) /\ Len(body) = data.lo
    <3> DEFINE a == n + 1
               b == n + data.lo
    <3>1. a \in Nat /\ b \in Nat /\ 1 <= a /\ b <= Len(s) /\ a <= b + 1
          /\ b - a + 1 = data.lo /\ body = SubSeq(s, a, b)
      BY <2>1, <2>2, <2>3
    <3> HIDE DEF a, b, body
    <3>2. SubSeq(s, a, b) \in Seq(Byte) /\ Len(SubSeq(s, a, b)) = b - a + 1
      BY <3>1, SubType
    <3> QED
      BY <3>1, <3>2
  <2>5. oid # Tag("bool")
    <3>1. DataTypes[Tag("bool") + 1] = "bool" /\ "bool" \notin Strings
      BY TagNames, SMT DEF TypeNames, DataTypes, Strings
    <3> QED
      BY <1>1, <1>5, <1>7, <3>1
  <2> QED
    BY <1>4, <1>5, <1>7, <2>1, <2>4, <2>5 DEF Fitting
<1>8. CASE data.form \notin Strings
  <2>1. BodySize(oid) \in Nat /\ n = m + 1 + BodySize(oid)
    <3>1. oid \in 0..13 /\ data.used = 1 + BodySize(oid)
      BY <1>1, <1>4, <1>5, <1>8
    <3>2. BodySize(oid) \in Nat
      BY <3>1, BodySizes
    <3> QED
      BY <1>0, <3>1, <3>2, SMT
  <2>2. /\ m + 2 \in Nat /\ 1 <= m + 2 /\ m + 2 <= n + 1 /\ n - (m + 2) + 1 = BodySize(oid)
        /\ (BodySize(oid) = 1 => m + 2 <= n)
    BY <1>0, <2>1, SMT
  <2>3. body = SubSeq(s, m + 2, n)
    BY <1>8 DEF StoredBody
  <2>4. body \in Seq(Byte) /\ Len(body) = BodySize(oid) /\ (BodySize(oid) = 1 => body[1] = s[m + 2])
    <3> DEFINE a == m + 2
    <3>1. a \in Nat /\ 1 <= a /\ n <= Len(s) /\ n \in Nat /\ a <= n + 1
          /\ n - a + 1 = BodySize(oid) /\ (BodySize(oid) = 1 => a <= n) /\ body = SubSeq(s, a, n)
      BY <1>6, <2>2, <2>3
    <3> HIDE DEF a, body
    <3>2. SubSeq(s, a, n) \in Seq(Byte) /\ Len(SubSeq(s, a, n)) = n - a + 1
          /\ (a <= n => SubSeq(s, a, n)[1] = s[a])
      BY <3>1, SubType
    <3> QED
      BY <3>1, <3>2 DEF a
  <2>5. ASSUME oid = Tag("bool") PROVE body \in {<<0>>, <<1>>}
    <3>1. data.form = "bool" /\ BodySize(oid) = 1
      <4>1. DataTypes[Tag("bool") + 1] = "bool"
        BY TagNames, SMT DEF TypeNames, DataTypes
      <4>2. DataTypes[oid + 1] = "bool"
        BY <2>5, <4>1
      <4> QED
        BY <1>1, <1>5, <4>2, SMT DEF BodySize, Strings, Doubles, Width
    <3>2. 2 \in 1..Len(s)-m
      BY <1>0, <1>1, <1>5, <1>8, <3>1, SMT
    <3>3. f[2] = s[m + 2]
      BY <3>2, FromAt DEF f
    <3>4. body[1] \in {0, 1} /\ Len(body) = 1
      BY <1>1, <2>4, <3>1, <3>3
    <3>5. body = <<body[1]>>
      BY <2>4, <3>4
    <3> QED
      BY <3>4, <3>5
  <2> QED
    BY <1>4, <1>5, <1>8, <2>4, <2>5 DEF Fitting
<1> QED
  BY <1>7, <1>8

\* A write is taken and answered, and what it stores fits its object.
LEMMA Writes ==
  ASSUME IInv, ProcessWrite(Ahead(0)) PROVE IInv'
<1> DEFINE s == Ahead(0)
           oid == UintAt(From(s, 3))
           m == 3 + oid.used
           data == DataAt(From(s, m))
           n == m + data.used
           refusal == IF "write" \in handlers THEN Refusal(oid.lo, data, Len(s) - n)
                      ELSE {UNKNOWN}
           body == StoredBody(s, n, m, data)
<1>1. /\ Process(s) /\ Len(s) >= 3
      /\ \/ /\ oid.ok /\ data.ok
            /\ Skip(EndOf(n, data))
            /\ tx' \in Confirm(s[2], WriteResponse(s[2], refusal))
            /\ objects' = IF refusal = {} THEN [objects EXCEPT ![oid.lo] = body] ELSE objects
         \/ /\ ~(oid.ok /\ data.ok)
            /\ Skip(IF oid.ok THEN n ELSE m)
            /\ tx' \in Confirm(s[2], tx)
            /\ UNCHANGED objects
  BY Zenon DEF ProcessWrite, StoredBody
<1>2. s \in Seq(Byte) /\ Output(tx) /\ Len(s) = Len(rx.bytes) - rx.pos /\ rx.pos \in Nat /\ Len(rx.bytes) \in Nat
  BY Remainder DEF IInv
<1> HIDE DEF s
<1>3. /\ s[2] \in Byte /\ Len(s) \in Nat
      /\ From(s, 3) \in Seq(Byte) /\ Len(From(s, 3)) = Len(s) - 3
  BY <1>1, <1>2, CommandBytes
<1>4. IsRead(oid, From(s, 3))
  BY <1>3, UintAtType
<1> HIDE DEF oid
<1>5. oid.used \in 0..Len(s)-3 /\ (oid.ok => oid.lo \in Nat)
  BY <1>3, <1>4, SMT DEF IsRead
<1>6. m \in 0..Len(s)
  BY <1>3, <1>5, SMT
<1> HIDE DEF m
<1>7. From(s, m) \in Seq(Byte) /\ Len(From(s, m)) = Len(s) - m
  BY <1>2, <1>6, FromType
<1>8. IsData(data, From(s, m))
  BY <1>7, DataAtType
<1> HIDE DEF data
<1>9. data.used \in 0..Len(s)-m
  BY <1>7, <1>8 DEF IsData
<1>10. n \in 0..Len(s) /\ n = m + data.used
  BY <1>3, <1>6, <1>9, SMT
<1> HIDE DEF n
<1>11. CASE /\ oid.ok /\ data.ok
            /\ Skip(EndOf(n, data))
            /\ tx' \in Confirm(s[2], WriteResponse(s[2], refusal))
            /\ objects' = IF refusal = {} THEN [objects EXCEPT ![oid.lo] = body] ELSE objects
  <2>1. data.form \in TypeNames /\ (data.form \in Strings => data.lo \in Nat) /\ oid.lo \in Nat
    BY <1>5, <1>8, <1>11, TypeTags DEF IsData
  <2>2. EndOf(n, data) \in 0..Len(s)
    <3> DEFINE k == data.lo
               p == rx.pos
               e == Len(rx.bytes)
               l == Len(s)
    <3>1. l = e - p /\ p \in Nat /\ e \in Nat /\ n \in 0..l
      BY <1>2, <1>10
    <3>2. ASSUME k \in Nat, p + n + k <= e PROVE n + k \in 0..l
      <4> HIDE DEF k, p, e, l
      <4> QED
        BY <3>1, <3>2, SMT
    <3>3. data.form \in Strings /\ rx.pos + n + data.lo <= Len(rx.bytes) => n + data.lo \in 0..Len(s)
      BY <2>1, <3>2
    <3> QED
      BY <1>10, <3>3 DEF EndOf
  <2>3. \A why \in refusal : why \in Reasons
    <3>1. UNKNOWN \in Reasons
      BY SMT DEF UNKNOWN, Reasons
    <3> DEFINE taken == Len(s) - n
    <3>2. refusal = Refusal(oid.lo, data, taken) \/ refusal = {UNKNOWN}
      OBVIOUS
    <3> HIDE DEF taken, refusal
    <3>3. \A why \in Refusal(oid.lo, data, taken) : why \in Reasons
      BY <2>1, RefusalType
    <3> QED
      BY <3>1, <3>2, <3>3
  <2>4. Output(tx')
    <3> HIDE DEF refusal
    <3>1. Output(WriteResponse(s[2], refusal))
      BY <1>3, <2>3, WriteResponseType
    <3> QED
      BY <1>11, <3>1, ConfirmType
  <2>5. ObjectsOK'
    <3>1. CASE refusal # {}
      BY <1>11, <3>1, SameObjects
    <3>2. CASE refusal = {}
      <4>1. Refusal(oid.lo, data, Len(s) - n) = {}
        BY <3>2
      <4>2. objects' = [objects EXCEPT ![oid.lo] = body]
        BY <1>11, <3>2
      <4> HIDE DEF refusal
      <4>3. Fitting(oid.lo, body)
        <5>1. IsDatum(data, From(s, m))
          BY <1>8, <1>11 DEF IsDatum
        <5> QED
          BY <1>2, <1>6, <1>10, <2>1, <4>1, <5>1, StoredType
      <4> HIDE DEF body
      <4> QED
        BY <4>2, <4>3, NewObject
    <3> QED
      BY <3>1, <3>2
  <2> HIDE DEF refusal, body
  <2> DEFINE e == EndOf(n, data)
  <2>6. e \in 0..Len(s) /\ Skip(e)
    BY <1>11, <2>2
  <2> HIDE DEF e
  <2> QED
    BY <1>1, <2>4, <2>5, <2>6, Moves DEF s
<1>12. CASE /\ ~(oid.ok /\ data.ok)
            /\ Skip(IF oid.ok THEN n ELSE m)
            /\ tx' \in Confirm(s[2], tx)
            /\ UNCHANGED objects
  <2> DEFINE e == IF oid.ok THEN n ELSE m
  <2>1. e \in 0..Len(s) /\ Skip(e)
    BY <1>6, <1>10, <1>12
  <2>2. Output(tx') /\ ObjectsOK'
    BY <1>2, <1>12, ConfirmType, SameObjects
  <2> HIDE DEF e
  <2> QED
    BY <1>1, <2>1, <2>2, Moves DEF s
<1> HIDE DEF refusal, body
<1> QED
  BY <1>1, <1>11, <1>12

\* An alert stays in the buffer.
LEMMA AlertSteps ==
  ASSUME IInv, NEW a \in Alerts, SendAlert(a) PROVE IInv'
<1>1. PICK v : /\ v \in IF a.value.type = Tag("double")
                          THEN {[type |-> Tag("i8"), body |-> <<b>>] : b \in Byte}
                          ELSE {a.value}
               /\ tx' = WrittenAll(tx, <<<<ALERT>>, CUint(a.aid)>> \o PutValue(v))
  BY Zenon DEF SendAlert
<1>2. Puttable(v)
  <2>1. CASE a.value.type = Tag("double")
    <3>1. PICK b \in Byte : v = [type |-> Tag("i8"), body |-> <<b>>]
      BY <1>1, <2>1
    <3>2. Tag("i8") \in 0..13
      BY TagNames, SMT DEF TypeNames, DataTypes
    <3>3. <<b>> \in Seq(Byte)
      OBVIOUS
    <3> QED
      BY <3>1, <3>2, <3>3 DEF Puttable
  <2>2. CASE a.value.type # Tag("double")
    <3>1. v = a.value
      BY <1>1, <2>2
    <3> QED
      BY <3>1, AlertAssumption, EncodeValueType
  <2> QED
    BY <2>1, <2>2
<1> DEFINE head == <<<<ALERT>>, CUint(a.aid)>>
           ps == head \o PutValue(v)
<1>3. head \in Seq(Seq(Byte))
  <2>1. <<ALERT>> \in Seq(Byte) /\ CUint(a.aid) \in Seq(Byte)
    BY AlertAssumption, U32Nat, CUintType, ByteSeqs DEF CUint, Ends
  <2> QED
    BY <2>1
<1>4. tx' = WrittenAll(tx, ps)
  BY <1>1
<1> HIDE DEF head
<1>5. ps \in Seq(Seq(Byte))
  BY <1>2, <1>3, PutValueType
<1> HIDE DEF ps
<1>6. Output(tx')
  BY <1>4, <1>5, WrittenAllTo DEF IInv
<1>7. UNCHANGED <<handlers, objects, rx, requests>>
  BY Zenon DEF SendAlert
<1>8. ObjectsOK'
  BY <1>7, SameObjects
<1> QED
  BY <1>6, <1>7, <1>8 DEF IInv

\* Messages arrive, and both streams are initialised.
LEMMA Receives ==
  ASSUME IInv, NEW batch \in Batches, Receive(batch) PROVE IInv'
<1>1. /\ requests' = batch /\ tx' = <<>> /\ UNCHANGED <<handlers, objects>>
      /\ rx' = [bytes |-> FlattenSeq(Frames(batch)), pos |-> 0]
  BY Zenon DEF Receive, Frames
<1>2. batch \in Seq(Request)
  BY RequestsAre
<1>3. FlattenSeq(Frames(batch)) \in Seq(Byte)
  BY <1>2, FramesType, FlatType
<1>4. /\ rx'.bytes \in Seq(Byte) /\ rx'.pos \in 0..Len(rx'.bytes)
      /\ rx' = [bytes |-> rx'.bytes, pos |-> rx'.pos]
  <2> DEFINE b == FlattenSeq(Frames(batch))
  <2>1. rx' = [bytes |-> b, pos |-> 0] /\ b \in Seq(Byte)
    BY <1>1, <1>3
  <2> HIDE DEF b
  <2> QED
    BY <2>1, SMT
<1>5. Output(tx')
  <2>1. <<>> \in Seq(Byte) /\ Len(<<>>) = 0 /\ 0 <= TxSize
    BY SizeAssumption, SMT
  <2> QED
    BY <1>1, <2>1 DEF Output
<1>6. ObjectsOK'
  BY <1>1, SameObjects
<1> QED
  BY <1>1, <1>2, <1>4, <1>5, <1>6 DEF IInv

\* Every step of the server keeps it well typed.
LEMMA Steps == IInv /\ [Next]_vars => IInv'
<1> SUFFICES ASSUME IInv, [Next]_vars PROVE IInv'
  OBVIOUS
<1>1. CASE \E batch \in Batches : Receive(batch)
  BY <1>1, Receives
<1>2. CASE ProcessIgnored(Ahead(0))
  BY <1>2, Ignoreds
<1>3. CASE ProcessHello(Ahead(0))
  BY <1>3, Hellos
<1>4. CASE ProcessUnknown(Ahead(0))
  BY <1>4, Unknowns
<1>5. CASE ProcessRead(Ahead(0))
  BY <1>5, Reads
<1>6. CASE ProcessWrite(Ahead(0))
  BY <1>6, Writes
<1>7. CASE \E a \in Alerts : SendAlert(a)
  BY <1>7, AlertSteps
<1>8. CASE UNCHANGED vars
  BY <1>8 DEF vars, IInv, ObjectsOK
<1> QED
  BY <1>1, <1>2, <1>3, <1>4, <1>5, <1>6, <1>7, <1>8 DEF Next

\* Whatever arrives and whatever the application sends, both positions stay in
\* their streams and every object holds a value of its type: no response, alert or
\* seek passes the end of the output, and no write stores a string longer than its
\* buffer (aloof.c:78-376, main.c app_reader, app_writer).
THEOREM TypesOK == Spec => []TypeOK
<1>1. IInv => TypeOK
  BY DEF IInv, TypeOK, ObjectsOK, Output, Request
<1> QED
  BY Inits, Steps, <1>1, PTL DEF Spec

-----------------------------------------------------------------------------
(* What a client encodes, as the server reads it. *)

\* What is left behind the first part of two.
LEMMA FromAfter ==
  ASSUME NEW s \in Seq(Byte), NEW t \in Seq(Byte)
  PROVE  From(s \o t, Len(s)) = t
  BY SMT DEF From

\* Sequences are equal that are of one length and equal at each place.
LEMMA BytesEqual ==
  ASSUME NEW s \in Seq(Byte), NEW t \in Seq(Byte), Len(s) = Len(t),
         \A i \in 1..Len(s) : s[i] = t[i]
  PROVE  s = t
  BY SeqEqual

\* The places of two sequences, one behind the other.
LEMMA ConcatAt ==
  ASSUME NEW s \in Seq(Byte), NEW t \in Seq(Byte)
  PROVE  /\ s \o t \in Seq(Byte) /\ Len(s \o t) = Len(s) + Len(t)
         /\ Len(s) \in Nat /\ Len(t) \in Nat
         /\ \A i \in 1..Len(s) : (s \o t)[i] = s[i]
         /\ \A i \in 1..Len(t) : (s \o t)[Len(s) + i] = t[i]
  BY SMT

\* What is left of a sequence when more follows it.
LEMMA FromPast ==
  ASSUME NEW s \in Seq(Byte), NEW t \in Seq(Byte), NEW n \in 0..Len(s)
  PROVE  From(s \o t, n) = From(s, n) \o t
<1> DEFINE u == From(s \o t, n)
           v == From(s, n)
<1>1. /\ s \o t \in Seq(Byte) /\ Len(s \o t) = Len(s) + Len(t)
      /\ Len(s) \in Nat /\ Len(t) \in Nat /\ n \in 0..Len(s \o t)
  BY ConcatAt, SMT
<1>2. v \in Seq(Byte) /\ Len(v) = Len(s) - n
  BY FromType
<1>3. u \in Seq(Byte) /\ Len(u) = Len(s) + Len(t) - n
  <2> DEFINE w == s \o t
  <2>1. w \in Seq(Byte) /\ n \in 0..Len(w) /\ Len(w) = Len(s) + Len(t)
    BY <1>1
  <2> HIDE DEF w
  <2>2. From(w, n) \in Seq(Byte) /\ Len(From(w, n)) = Len(w) - n
    BY <2>1, FromType
  <2> QED
    BY <2>1, <2>2 DEF w
<1>4. ASSUME NEW i \in 1..Len(u) PROVE u[i] = (v \o t)[i]
  <2>1. u[i] = (s \o t)[n + i]
    <3> DEFINE w == s \o t
    <3>1. w \in Seq(Byte) /\ n \in 0..Len(w) /\ i \in 1..Len(w) - n
      BY <1>1, <1>3
    <3> HIDE DEF w
    <3>2. From(w, n)[i] = w[n + i]
      BY <3>1, FromAt
    <3> QED
      BY <3>2 DEF w
  <2>2. CASE i <= Len(s) - n
    <3>1. n + i \in 1..Len(s) /\ i \in 1..Len(s)-n /\ i \in 1..Len(v)
      BY <1>1, <1>2, <2>2, SMT
    <3>2. (s \o t)[n + i] = s[n + i] /\ (v \o t)[i] = v[i] /\ v[i] = s[n + i]
      <4> HIDE DEF v
      <4>1. (s \o t)[n + i] = s[n + i]
        BY <3>1, ConcatAt
      <4>2. (v \o t)[i] = v[i]
        BY <1>2, <3>1, ConcatAt
      <4>3. From(s, n)[i] = s[n + i]
        BY <3>1, FromAt
      <4> QED
        BY <4>1, <4>2, <4>3 DEF v
    <3> QED
      BY <2>1, <3>2
  <2>3. CASE ~(i <= Len(s) - n)
    <3> DEFINE j == i - (Len(s) - n)
    <3>1. j \in 1..Len(t) /\ n + i = Len(s) + j /\ i = Len(v) + j
      BY <1>1, <1>2, <1>3, <2>3, SMT
    <3> HIDE DEF j, v, u
    <3>2. (s \o t)[Len(s) + j] = t[j] /\ (v \o t)[Len(v) + j] = t[j]
      BY <1>2, <3>1, ConcatAt
    <3> QED
      BY <2>1, <3>1, <3>2
  <2> QED
    BY <2>2, <2>3
<1> HIDE DEF u, v
<1>5. v \o t \in Seq(Byte) /\ Len(v \o t) = Len(u)
  <2>1. v \o t \in Seq(Byte) /\ Len(v \o t) = Len(v) + Len(t)
    BY <1>2, ConcatAt
  <2> QED
    BY <1>1, <1>2, <1>3, <2>1, SMT
<1>6. u = v \o t
  BY <1>3, <1>4, <1>5, BytesEqual
<1> QED
  BY <1>6 DEF u, v

\* A byte and what follows it.
LEMMA ByteThen ==
  ASSUME NEW b \in Byte, NEW x \in Seq(Byte)
  PROVE  /\ <<b>> \o x \in Seq(Byte) /\ <<b>> \o x # <<>> /\ (<<b>> \o x)[1] = b
         /\ Tail(<<b>> \o x) = x /\ Len(<<b>> \o x) = 1 + Len(x)
  BY SMT

\* What follows an encoded uint is not read with it.
LEMMA UintTaken ==
  ASSUME NEW n \in U32, NEW t \in Seq(Byte)
  PROVE  /\ Uint(n) \in Seq(Byte) /\ Len(Uint(n)) \in 1..5
         /\ UintAt(Uint(n) \o t) = Got("uint", 0, n, Len(Uint(n)))
<1> DEFINE size == SizeofUint("ruby", n)
<1>1. "ruby" \in Ends /\ "c" \in Ends /\ n \in Int
  BY U32Nat DEF Ends
<1>2. /\ size \in 1..5 /\ Varint(n, size) \in Seq(Byte) /\ Len(Varint(n, size)) = size
      /\ GetVarint("c", "uint", Varint(n, size) \o t) = Got("uint", 0, n, size)
  BY <1>1, UintDecodes
<1>3. Uint(n) = Varint(n, size)
  BY DEF Uint
<1>4. Got("uint", 0, n, size).ok
  BY DEF Got
<1> HIDE DEF size
<1> QED
  BY <1>2, <1>3, <1>4 DEF UintAt

\* A body of its size is read.
LEMMA BodyRead ==
  ASSUME NEW n \in 0..13, NEW form, form = DataTypes[n + 1], form \in TypeNames \ Strings,
         NEW x \in Seq(Byte), BodySize(n) <= Len(x), form = "bool" => x[1] \in {0, 1}
  PROVE  GetBody("c", form, x).ok
<1>0. Len(x) \in Nat /\ \A f, hi, lo, u : Got(f, hi, lo, u).ok
  BY DEF Got
<1>1. CASE form = "nil"
  BY <1>0, <1>1, SMT DEF GetBody, Strings, Doubles
<1>2. CASE form \in Doubles
  <2>1. GetBody("c", form, x) = DoubleBody(form, x)
    BY <1>2, SMT DEF GetBody, Strings, Doubles
  <2>2. BodySize(n) = 8
    BY <1>2, SMT DEF BodySize, Doubles, Strings
  <2>3. ~(Len(x) < 8)
    BY <1>0, <2>2, SMT
  <2> QED
    BY <1>0, <2>1, <2>3 DEF DoubleBody
<1>3. CASE form = "bool"
  <2>1. GetBody("c", form, x) = BoolBody(x)
    BY <1>3, SMT DEF GetBody, Strings, Doubles
  <2>2. BodySize(n) = 1
    BY <1>3, SMT DEF BodySize, Doubles, Strings, Width
  <2>3. ~(Len(x) < 1) /\ Len(SubSeq(x, 1, 1)) = 1 /\ SubSeq(x, 1, 1)[1] = x[1]
    BY <1>0, <2>2, SMT
  <2>4. Number(SubSeq(x, 1, 1)) = x[1]
    BY <2>3, SMT DEF Number, Shifted
  <2>5. Fixed("bool", x, 1) = Got("bool", 0, x[1], 1)
    BY <2>3, <2>4, SMT DEF Fixed
  <2>6. Got("bool", 0, x[1], 1).lo = x[1] /\ x[1] <= 1
    BY <1>3, SMT DEF Got
  <2>7. BoolBody(x) = Got("bool", 0, x[1], 1)
    BY <1>0, <2>5, <2>6 DEF BoolBody
  <2> QED
    BY <1>0, <2>1, <2>7
<1>4. CASE form \in {"u8", "u16", "u32", "i8", "i16", "i32", "float"}
  <2>1. GetBody("c", form, x) = Fixed(form, x, Width(form))
    BY <1>4, SMT DEF GetBody, Strings, Doubles
  <2>2. BodySize(n) = Width(form) /\ Width(form) \in 1..4
    BY <1>4, SMT DEF BodySize, Doubles, Strings, Width
  <2>3. ~(Len(x) < Width(form))
    BY <1>0, <2>2, SMT
  <2> QED
    BY <1>0, <2>1, <2>3 DEF Fixed
<1>5. form \in {"nil", "bool", "u8", "u16", "u32", "i8", "i16", "i32", "float"} \cup Doubles
  BY SMT DEF TypeNames, DataTypes, Strings, Doubles
<1> QED
  BY <1>1, <1>2, <1>3, <1>4, <1>5

\* What is read of an encoded value.
IsValueRead(d, v) ==
    /\ d.ok = TRUE /\ d.form = DataTypes[v.type + 1]
    /\ v.type \in StringTags => d.lo = Len(v.body) /\ d.used = 1 + Len(Uint(Len(v.body)))
    /\ v.type \notin StringTags => d.used = 1 + Len(v.body)

\* What follows an encoded value is not read with it.
LEMMA ValueTaken ==
  ASSUME NEW v, Typed(v), NEW t \in Seq(Byte)
  PROVE  IsValueRead(DataAt(EncodeValue(v) \o t), v)
<1> DEFINE f == EncodeValue(v) \o t
           form == DataTypes[v.type + 1]
           len == IF v.type \in StringTags THEN Uint(Len(v.body)) ELSE <<>>
           x == len \o (v.body \o t)
           bool == form = "bool" /\ Len(f) > 1
           r == IF form \in Strings THEN UintAt(x) ELSE GetBody("c", form, x)
<1>1. /\ v.type \in 0..13 /\ v.body \in Seq(Byte) /\ Len(v.body) \in Nat
      /\ IF v.type \in StringTags THEN Len(v.body) \in U32 ELSE Len(v.body) = BodySize(v.type)
      /\ (v.type = Tag("bool") => v.body \in {<<0>>, <<1>>})
  BY DEF Typed
<1>2. v.type \in Byte /\ v.type \in Nat /\ v.type < 14 /\ ~(v.type >= 14)
  BY <1>1, ByteSeqs, SMTT(30)
<1>3. len \in Seq(Byte)
  <2>1. v.type \in StringTags => Uint(Len(v.body)) \in Seq(Byte)
    BY <1>1, UintTaken
  <2>2. <<>> \in Seq(Byte)
    OBVIOUS
  <2> QED
    BY <2>1, <2>2
<1>4. f = <<v.type>> \o x /\ x \in Seq(Byte) /\ Len(x) = Len(len) + Len(v.body) + Len(t)
      /\ v.body \o t \in Seq(Byte)
  <2> DEFINE a == <<v.type>>
             b == v.body
  <2>1. a \in Seq(Byte) /\ b \in Seq(Byte)
    BY <1>1, <1>2, ByteSeqs
  <2>2. f = ((a \o len) \o b) \o t
    BY DEF EncodeValue
  <2> HIDE DEF a, b, len, f
  <2>3. a \o len \in Seq(Byte) /\ b \o t \in Seq(Byte)
    <3>1. Concats(a, len) /\ Concats(b, t)
      BY <1>3, <2>1, ConcatLen
    <3> QED
      BY <3>1 DEF Concats
  <2>4. ((a \o len) \o b) \o t = (a \o len) \o (b \o t)
    BY <2>1, <2>3, Assoc
  <2> DEFINE c == b \o t
  <2>5. c \in Seq(Byte) /\ Len(c) = Len(b) + Len(t) /\ Len(b) \in Nat /\ Len(t) \in Nat
    <3>1. Concats(b, t)
      BY <2>1, ConcatLen
    <3> QED
      BY <3>1 DEF Concats
  <2> HIDE DEF c
  <2>6. (a \o len) \o c = a \o (len \o c) /\ len \o c \in Seq(Byte)
        /\ Len(len \o c) = Len(len) + Len(c) /\ Len(len) \in Nat
    <3>1. Concats(len, c)
      BY <1>3, <2>5, ConcatLen
    <3>2. c \in Seq(Byte)
      BY <2>5
    <3>3. (a \o len) \o c = a \o (len \o c)
      <4>1. a \in Seq(Byte) /\ len \in Seq(Byte)
        BY <1>3, <2>1
      <4> QED
        BY <3>2, <4>1, Assoc
    <3> QED
      BY <3>1, <3>3 DEF Concats
  <2>7. f = a \o (len \o c) /\ Len(len \o c) = Len(len) + Len(b) + Len(t)
    BY <2>2, <2>4, <2>5, <2>6, SMT DEF c
  <2> QED
    BY <2>3, <2>6, <2>7 DEF a, b, c
<1>5. f # <<>> /\ f[1] = v.type /\ Tail(f) = x /\ Len(f) = 1 + Len(x)
  <2> DEFINE b == v.type
  <2>1. b \in Byte /\ f = <<b>> \o x
    BY <1>2, <1>4
  <2> HIDE DEF b, f, x
  <2>2. <<b>> \o x # <<>> /\ (<<b>> \o x)[1] = b /\ Tail(<<b>> \o x) = x /\ Len(<<b>> \o x) = 1 + Len(x)
    BY <1>4, <2>1, ByteThen
  <2> QED
    BY <2>1, <2>2 DEF b
<1>6. DataAt(f) = [r EXCEPT !.form = form, !.used = 1 + (IF bool THEN 1 ELSE @)]
  <2> HIDE DEF f, x
  <2> QED
    BY <1>2, <1>5, Zenon DEF DataAt
<1>7. form \in TypeNames /\ Tag(form) = v.type /\ (v.type \in StringTags <=> form \in Strings)
  BY <1>1, TypeTags, StringTagsAre
<1>8. CASE v.type \in StringTags
  <2>1. r = UintAt(Uint(Len(v.body)) \o (v.body \o t)) /\ ~bool
    BY <1>7, <1>8 DEF Strings
  <2>2. r = Got("uint", 0, Len(v.body), Len(Uint(Len(v.body))))
    BY <1>1, <1>4, <1>8, <2>1, UintTaken
  <2>3. DataAt(f).ok = TRUE /\ DataAt(f).form = form /\ DataAt(f).lo = Len(v.body)
        /\ DataAt(f).used = 1 + Len(Uint(Len(v.body)))
    <3> DEFINE n == Len(v.body)
               u == Len(Uint(n))
    <3>1. r = Got("uint", 0, n, u)
      BY <2>2
    <3>3. IsShaped(r) /\ r.ok = TRUE /\ r.lo = n /\ r.used = u
      <4> HIDE DEF r, n, u
      <4> QED
        BY <3>1 DEF Got, IsShaped
    <3> HIDE DEF r, bool, f, n, u, form
    <3>2. /\ DataAt(f).ok = TRUE /\ DataAt(f).form = form /\ DataAt(f).lo = n
          /\ DataAt(f).used = 1 + u
      BY <1>6, <2>1, <3>3, Zenon DEF IsShaped
    <3> QED
      BY <3>2 DEF n, u
  <2> HIDE DEF f
  <2>4. IsValueRead(DataAt(f), v)
    BY <1>8, <2>3 DEF IsValueRead
  <2> QED
    BY <2>4 DEF f
<1>9. CASE v.type \notin StringTags
  <2>1. r = GetBody("c", form, x) /\ x = v.body \o t /\ Len(x) = Len(v.body) + Len(t) /\ Len(t) \in Nat
    <3>1. len = <<>> /\ Len(<<>>) = 0
      BY <1>9
    <3>2. <<>> \o (v.body \o t) = v.body \o t
      BY <1>4, SMT
    <3>3. Len(t) \in Nat
      OBVIOUS
    <3>4. Len(x) = Len(v.body) + Len(t)
      <4> HIDE DEF x, len
      <4> QED
        BY <1>1, <1>4, <3>1, <3>3, SMT
    <3> QED
      BY <1>7, <1>9, <3>1, <3>2, <3>3, <3>4
  <2>2. Len(v.body) = BodySize(v.type) /\ BodySize(v.type) <= Len(x)
    BY <1>1, <1>9, <2>1, SMT
  <2>3. form = "bool" => x[1] \in {0, 1} /\ BodySize(v.type) = 1
    <3> SUFFICES ASSUME form = "bool" PROVE x[1] \in {0, 1} /\ BodySize(v.type) = 1
      OBVIOUS
    <3>1. v.body \in {<<0>>, <<1>>}
      <4>1. v.type = Tag("bool")
        <5> HIDE DEF form
        <5> QED
          BY <1>7
      <4> QED
        BY <1>1, <4>1
    <3>3. Len(v.body) = 1 /\ v.body[1] \in {0, 1}
      BY <3>1
    <3>2. x[1] = v.body[1]
      <4> DEFINE b == v.body
      <4>1. b \in Seq(Byte) /\ 1 \in 1..Len(b) /\ x = b \o t
        <5> HIDE DEF x
        <5>1. 1 \in 1..1
          BY SMT
        <5> QED
          BY <1>1, <2>1, <3>3, <5>1
      <4> HIDE DEF b, x
      <4>2. (b \o t)[1] = b[1]
        BY <4>1, ConcatAt
      <4> QED
        BY <4>1, <4>2 DEF b
    <3> QED
      BY <2>2, <3>2, <3>3
  <2>4. form \in TypeNames \ Strings /\ form = DataTypes[v.type + 1]
    BY <1>7, <1>9
  <2> DEFINE n == v.type
  <2>5. n \in 0..13 /\ form = DataTypes[n + 1] /\ BodySize(n) <= Len(x)
    BY <1>1, <2>2
  <2> HIDE DEF r, x, form, n
  <2>6. r.ok
    BY <1>4, <2>1, <2>3, <2>4, <2>5, BodyRead
  <2>7. IsBody(r, form, n, x)
    BY <1>4, <2>1, <2>4, <2>5, SizesOfBodies
  <2>8. PICK hi, lo : r = Got(form, hi, lo, BodySize(n))
    BY <2>6, <2>7 DEF IsBody, Refused
  <2>9. DataAt(f).ok = TRUE /\ DataAt(f).form = form
        /\ DataAt(f).used = 1 + (IF bool THEN 1 ELSE BodySize(n))
    <3> HIDE DEF bool, f
    <3> QED
      BY <1>6, <2>8, Zenon DEF Got
  <2>10. DataAt(f).used = 1 + Len(v.body)
    BY <2>2, <2>3, <2>9 DEF n
  <2> QED
    BY <1>9, <2>9, <2>10 DEF IsValueRead, form
<1> QED
  BY <1>8, <1>9

\* A number that is read is read from the bytes it takes: more may follow.
LEMMA UintPast ==
  ASSUME NEW s \in Seq(Byte), NEW t \in Seq(Byte), NEW d \in Ends,
         GetVarint(d, "uint", s).ok
  PROVE  GetVarint(d, "uint", s \o t) = GetVarint(d, "uint", s)
<1> DEFINE n == s[1] - 128
           u == s \o t
<1>1. s # <<>>
  BY DEF GetVarint, Refused
<1>2. s[1] \in Int /\ n \in Int /\ 1 \in 1..Len(s) /\ Len(s) \in Nat
  <2>1. s[1] \in Byte /\ 1 \in 1..Len(s)
    BY <1>1, SMT
  <2> QED
    BY <2>1, Bytes
<1>3. u[1] = s[1] /\ u # <<>> /\ u \in Seq(Byte) /\ Len(u) = Len(s) + Len(t) /\ Len(t) \in Nat
  <2>1. u[1] = s[1] /\ u \in Seq(Byte) /\ Len(u) = Len(s) + Len(t) /\ Len(t) \in Nat
    BY <1>2, ConcatAt
  <2>2. Len(u) # 0
    BY <1>2, <2>1, SMT
  <2> QED
    BY <2>1, <2>2
<1> HIDE DEF u
<1>4. CASE n < 0
  <2>1. GetVarint(d, "uint", s) = Got("uint", 0, s[1], 1)
    BY <1>1, <1>4, SMT DEF GetVarint
  <2>2. GetVarint(d, "uint", u) = Got("uint", 0, u[1], 1)
    BY <1>3, <1>4, SMT DEF GetVarint
  <2> QED
    BY <1>3, <2>1, <2>2 DEF u
<1>5. CASE n = 0
  <2>1. GetVarint(d, "uint", s) = IF d = "c" THEN Got("uint", 0, 0, 1) ELSE Refused
    BY <1>1, <1>5, SMT DEF GetVarint
  <2>2. GetVarint(d, "uint", u) = IF d = "c" THEN Got("uint", 0, 0, 1) ELSE Refused
    BY <1>3, <1>5, SMT DEF GetVarint
  <2> QED
    BY <2>1, <2>2 DEF u
<1>6. CASE n > 0
  <2>1. n \in 1..4 /\ Len(s) > n
    <3> SUFFICES ASSUME ~(n \in 1..4 /\ Len(s) > n) PROVE FALSE
      OBVIOUS
    <3>1. GetVarint(d, "uint", s) = Refused
      BY <1>1, <1>2, <1>6, SMT DEF GetVarint
    <3> QED
      BY <3>1 DEF Refused
  <2>2. GetVarint(d, "uint", s) = Got("uint", 0, Number(SubSeq(s, 2, 1 + n)), 1 + n)
    BY <1>1, <2>1, SMT DEF GetVarint, Unjoined
  <2>3. GetVarint(d, "uint", u) = Got("uint", 0, Number(SubSeq(u, 2, 1 + n)), 1 + n)
    <3>1. n \in 1..4 /\ Len(u) > n /\ u[1] - 128 = n
      BY <1>2, <1>3, <2>1, SMT
    <3> QED
      BY <1>3, <3>1, SMT DEF GetVarint, Unjoined
  <2>4. SubSeq(u, 2, 1 + n) = SubSeq(s, 2, 1 + n)
    <3> DEFINE m == 1 + n
    <3>1. 2 \in 1..Len(s) /\ m \in 1..Len(s)
      BY <1>2, <2>1, SMT
    <3> HIDE DEF m
    <3>2. SubSeq(s \o t, 2, m) = SubSeq(s, 2, m)
      BY <3>1, SubSeqOfConcat1
    <3> QED
      BY <3>2 DEF m, u
  <2> HIDE DEF n
  <2> QED
    BY <2>2, <2>3, <2>4 DEF u
<1> QED
  BY <1>2, <1>4, <1>5, <1>6, SMT

\* What follows a whole hello is not read with it.
LEMMA HelloTaken ==
  ASSUME NEW x \in Seq(Byte), HelloAt(x) = [ok |-> TRUE, used |-> Len(x)], NEW t \in Seq(Byte)
  PROVE  HelloAt(x \o t) = HelloAt(x)
<1> DEFINE version(s) == UintAt(From(s, 1))
           u == x \o t
<1>0. HelloAt(x).ok = TRUE /\ HelloAt(x).used = Len(x) /\ Len(x) \in Nat
  OBVIOUS
<1>1. x # <<>> /\ x[1] < 2
  <2>1. x # <<>>
    <3> SUFFICES ASSUME x = <<>> PROVE FALSE
      OBVIOUS
    <3>1. HelloAt(x) = [ok |-> FALSE, used |-> 0]
      BY DEF HelloAt
    <3> QED
      BY <1>0, <3>1
  <2>2. x[1] \in Int
    <3>1. x[1] \in Byte
      BY <2>1
    <3> QED
      BY <3>1, Bytes
  <2>3. ~(x[1] >= 2)
    <3> SUFFICES ASSUME x[1] >= 2 PROVE FALSE
      OBVIOUS
    <3>1. HelloAt(x) = [ok |-> FALSE, used |-> 1]
      BY <2>1, <2>2, SMT DEF HelloAt
    <3> QED
      BY <1>0, <3>1
  <2> QED
    BY <2>1, <2>2, <2>3, SMT
<1>2. 1 \in 0..Len(x) /\ 1 \in 1..Len(x)
  BY <1>0, <1>1, SMT
<1>3. u \in Seq(Byte) /\ Len(u) = Len(x) + Len(t) /\ Len(t) \in Nat /\ u[1] = x[1] /\ u # <<>>
  <2>1. u \in Seq(Byte) /\ Len(u) = Len(x) + Len(t) /\ Len(t) \in Nat /\ u[1] = x[1]
    BY <1>2, ConcatAt
  <2>2. Len(u) # 0
    BY <1>2, <2>1, SMT
  <2> QED
    BY <2>1, <2>2
<1>4. \A s \in {x, u} : HelloAt(s) = IF version(s).ok /\ Len(s) >= 5 + version(s).used
                                       THEN [ok |-> TRUE, used |-> 5 + version(s).used]
                                       ELSE [ok |-> FALSE, used |-> 1 + version(s).used]
  <2> HIDE DEF u
  <2>1. \A s \in {x, u} : s # <<>> /\ s[1] < 2 /\ ~(s[1] >= 2)
    <3>1. x[1] \in Byte
      BY <1>1
    <3>2. x[1] \in Int
      BY <3>1, Bytes
    <3> QED
      BY <1>1, <1>3, <3>2, SMT
  <2> QED
    BY <2>1, Zenon DEF HelloAt
<1>5. version(x).ok /\ Len(x) >= 5 + version(x).used /\ HelloAt(x) = [ok |-> TRUE, used |-> 5 + version(x).used]
  <2> HIDE DEF version
  <2>1. version(x).ok /\ Len(x) >= 5 + version(x).used
    <3> SUFFICES ASSUME ~(version(x).ok /\ Len(x) >= 5 + version(x).used) PROVE FALSE
      OBVIOUS
    <3>1. HelloAt(x) = [ok |-> FALSE, used |-> 1 + version(x).used]
      BY <1>4
    <3> QED
      BY <1>0, <3>1
  <2> QED
    BY <1>4, <2>1
<1>6. version(u) = version(x)
  <2> DEFINE y == From(x, 1)
  <2>1. y \in Seq(Byte) /\ From(u, 1) = y \o t
    BY <1>2, FromPast, FromType
  <2>2. UintAt(y).ok
    BY <1>5
  <2> HIDE DEF y
  <2>3. GetVarint("c", "uint", y).ok /\ UintAt(y) = GetVarint("c", "uint", y)
    BY <2>1, <2>2, UintAtType
  <2>4. GetVarint("c", "uint", y \o t) = GetVarint("c", "uint", y)
    BY <2>1, <2>3, UintPast DEF Ends
  <2>5. UintAt(y \o t) = GetVarint("c", "uint", y \o t)
    BY <2>3, <2>4 DEF UintAt
  <2> QED
    BY <2>1, <2>3, <2>4, <2>5 DEF y
<1>7. Len(u) >= 5 + version(x).used
  <2>1. version(x).used \in Int
    <3> DEFINE y == From(x, 1)
    <3>1. y \in Seq(Byte)
      BY <1>2, FromType
    <3> HIDE DEF y
    <3>2. UintAt(y).used \in 0..Len(y) /\ Len(y) \in Nat
      BY <3>1, UintAtType DEF IsRead
    <3>3. UintAt(y).used \in Int
      BY <3>2
    <3> QED
      BY <3>3 DEF y
  <2> HIDE DEF version, u
  <2> QED
    BY <1>0, <1>3, <1>5, <2>1, SMT
<1> HIDE DEF version
<1> QED
  BY <1>4, <1>5, <1>6, <1>7

\* One sequence, flattened.
LEMMA FlatOne ==
  ASSUME NEW e \in Seq(Byte)
  PROVE  <<e>> \in Seq(Seq(Byte)) /\ Len(<<e>>) = 1 /\ FlattenSeq(<<e>>) = e
<1>1. <<e>> \in Seq(Seq(Byte)) /\ Len(<<e>>) = 1 /\ <<e>>[1] = e /\ 0 \in 0..0 /\ 1 - 1 = 0 /\ 0 + 1 = 1
  BY SMT
<1>2. Flat(<<e>>, 0) = <<>> /\ FlattenSeq(<<e>>) = Flat(<<e>>, 1)
  BY <1>1, FlatStep
<1>3. Flat(<<e>>, 0 + 1) = Flat(<<e>>, 0) \o <<e>>[0 + 1]
  <2> DEFINE ps == <<e>>
  <2>1. ps \in Seq(Seq(Byte)) /\ 0 \in 0..Len(ps)-1
    BY <1>1, SMT
  <2> HIDE DEF ps
  <2>2. Flat(ps, 0 + 1) = Flat(ps, 0) \o ps[0 + 1]
    BY <2>1, FlatStep
  <2> QED
    BY <2>2 DEF ps
<1>4. <<>> \o e = e
  BY SMT
<1> QED
  BY <1>1, <1>2, <1>3, <1>4

\* The bytes of requests, those of the first before those of the others.
LEMMA FramesCons ==
  ASSUME NEW batch \in Seq(Request), batch # <<>>
  PROVE  /\ Head(batch) \in Request /\ Tail(batch) \in Seq(Request)
         /\ FlattenSeq(Frames(batch)) = Encode(Head(batch)) \o FlattenSeq(Frames(Tail(batch)))
         /\ FlattenSeq(Frames(Tail(batch))) \in Seq(Byte)
<1> DEFINE e == Encode(Head(batch))
           fs == Frames(Tail(batch))
<1>1. /\ Head(batch) \in Request /\ Tail(batch) \in Seq(Request) /\ Head(batch) = batch[1]
      /\ Len(Tail(batch)) = Len(batch) - 1 /\ Len(batch) \in Nat /\ Len(batch) > 0
      /\ \A i \in 1..Len(batch)-1 : Tail(batch)[i] = batch[i + 1]
  BY SMT
<1>2. e \in Seq(Byte)
  BY <1>1, RequestsAre, EncodeType
<1>3. fs \in Seq(Seq(Byte)) /\ Len(fs) = Len(batch) - 1
  BY <1>1, FramesType
<1>4. Frames(batch) \in Seq(Seq(Byte)) /\ Len(Frames(batch)) = Len(batch)
  BY FramesType
<1>5. Frames(batch) = <<e>> \o fs
  <2>1. /\ <<e>> \o fs \in Seq(Seq(Byte)) /\ Len(<<e>> \o fs) = Len(batch)
        /\ (<<e>> \o fs)[1] = e
        /\ \A i \in 1..Len(batch) : i # 1 => (<<e>> \o fs)[i] = fs[i - 1]
    <3> DEFINE es == <<e>>
    <3>1. es \in Seq(Seq(Byte)) /\ Len(es) = 1 /\ es[1] = e
      BY <1>2, FlatOne
    <3> HIDE DEF e, fs, es
    <3>2. /\ es \o fs \in Seq(Seq(Byte)) /\ Len(es \o fs) = Len(es) + Len(fs)
          /\ \A i \in 1..Len(es) + Len(fs) : (es \o fs)[i] =
                IF i <= Len(es) THEN es[i] ELSE fs[i - Len(es)]
      BY <1>3, <3>1, ConcatProperties
    <3>3. Len(es) + Len(fs) = Len(batch)
      BY <1>1, <1>3, <3>1, SMT
    <3>4. \A i \in 1..Len(batch) : (es \o fs)[i] = IF i <= 1 THEN es[i] ELSE fs[i - 1]
      BY <3>1, <3>2, <3>3
    <3>5. 1 \in 1..Len(batch) /\ 1 <= 1
      BY <1>1, SMT
    <3>6. \A i \in 1..Len(batch) : i # 1 => ~(i <= 1)
      BY <1>1, SMT
    <3> QED
      BY <3>1, <3>2, <3>3, <3>4, <3>5, <3>6 DEF es
  <2>2. \A i \in 1..Len(batch) : Frames(batch)[i] = Encode(batch[i])
    BY DEF Frames
  <2>3. ASSUME NEW i \in 1..Len(batch), i # 1 PROVE fs[i - 1] = Encode(batch[i])
    <3> DEFINE j == i - 1
    <3>1. j \in 1..Len(Tail(batch)) /\ j \in 1..Len(batch)-1 /\ j + 1 = i
      BY <1>1, <2>3, SMT
    <3> HIDE DEF j
    <3>2. fs[j] = Encode(Tail(batch)[j])
      BY <3>1 DEF Frames
    <3>3. Tail(batch)[j] = batch[i]
      BY <1>1, <3>1
    <3> QED
      BY <3>2, <3>3 DEF j
  <2>4. \A i \in 1..Len(batch) : Frames(batch)[i] = (<<e>> \o fs)[i]
    <3> HIDE DEF e, fs
    <3>1. Encode(batch[1]) = e
      BY <1>1 DEF e
    <3> QED
      BY <2>1, <2>2, <2>3, <3>1
  <2> HIDE DEF e, fs
  <2> QED
    BY <1>4, <2>1, <2>4, SeqEqual
<1> HIDE DEF e, fs
<1>6. FlattenSeq(<<e>> \o fs) = FlattenSeq(<<e>>) \o FlattenSeq(fs)
  BY <1>2, <1>3, FlatOne, FlatConcat
<1>7. FlattenSeq(fs) \in Seq(Byte)
  BY <1>3, FlatType
<1>8. FlattenSeq(<<e>>) = e
  BY <1>2, FlatOne
<1> QED
  BY <1>1, <1>5, <1>6, <1>7, <1>8 DEF e, fs

\* The length of an encoded value.
LEMMA EncodeValueLen ==
  ASSUME NEW v, Typed(v)
  PROVE  IF v.type \in StringTags THEN Len(EncodeValue(v)) = 1 + Len(Uint(Len(v.body))) + Len(v.body)
                                 ELSE Len(EncodeValue(v)) = 1 + Len(v.body)
<1> DEFINE len == IF v.type \in StringTags THEN Uint(Len(v.body)) ELSE <<>>
           b == v.body
           a == <<v.type>>
<1>1. b \in Seq(Byte) /\ Len(b) \in Nat /\ a \in Seq(Byte) /\ Len(a) = 1
  BY ByteSeqs DEF Typed
<1>2. len \in Seq(Byte)
  <2>1. Uint(Len(v.body)) \in Seq(Byte) /\ <<>> \in Seq(Byte)
    BY <1>1, CUintType DEF Uint, Ends
  <2> QED
    BY <2>1
<1>3. EncodeValue(v) = (a \o len) \o b
  BY DEF EncodeValue
<1>4. Len((a \o len) \o b) = Len(a) + Len(len) + Len(b)
  <2> DEFINE al == a \o len
  <2>1. Concats(a, len)
    BY <1>1, <1>2, ConcatLen
  <2>2. al \in Seq(Byte) /\ Len(al) = Len(a) + Len(len)
    BY <2>1 DEF Concats
  <2> HIDE DEF a, len, b, al
  <2>3. Concats(al, b)
    BY <1>1, <2>2, ConcatLen
  <2>4. Len(al \o b) = Len(a) + Len(len) + Len(b)
    BY <2>2, <2>3 DEF Concats
  <2> QED
    BY <2>4 DEF al
<1>5. v.type \in StringTags => Len(len) = Len(Uint(Len(v.body)))
  OBVIOUS
<1>6. v.type \notin StringTags => Len(len) = 0
  OBVIOUS
<1> DEFINE k == Len(Uint(Len(v.body)))
           ev == EncodeValue(v)
<1>7. /\ Len(ev) = 1 + Len(len) + Len(b)
      /\ v.type \in StringTags => Len(len) = k
      /\ v.type \notin StringTags => Len(len) = 0
  BY <1>1, <1>3, <1>4, <1>5, <1>6
<1> HIDE DEF len, a, b, k, ev
<1>8. CASE v.type \in StringTags
  BY <1>7, <1>8 DEF k, ev, b
<1>9. CASE v.type \notin StringTags
  <2>1. Len(ev) = 1 + 0 + Len(b)
    BY <1>7, <1>9
  <2>2. Len(ev) = 1 + Len(b)
    BY <1>1, <2>1, SMT
  <2> QED
    BY <1>9, <2>2 DEF ev, b
<1> QED
  BY <1>8, <1>9

\* What the server finds of a command at the start of its input.
IsCommand(s, q, invoke, t) ==
    /\ s \in Seq(Byte) /\ t \in Seq(Byte) /\ q.field \in Byte /\ q.oid \in U32
    /\ Len(s) >= 3 /\ s[1] = COMMAND /\ s[2] = q.field /\ s[3] = invoke
    /\ From(s, 3) = Uint(q.oid) \o t
    /\ Uint(q.oid) \in Seq(Byte) /\ Len(Uint(q.oid)) \in 1..5
    /\ UintAt(From(s, 3)) = Got("uint", 0, q.oid, Len(Uint(q.oid)))
    /\ From(s, 3 + Len(Uint(q.oid))) = t
    /\ Len(s) = 3 + Len(Uint(q.oid)) + Len(t)

\* An encoded command, as the server finds it.
LEMMA CommandTaken ==
  ASSUME NEW q, q.field \in Byte, q.oid \in U32, NEW invoke \in Byte, NEW t \in Seq(Byte)
  PROVE  IsCommand((<<COMMAND, q.field, invoke>> \o Uint(q.oid)) \o t, q, invoke, t)
<1> DEFINE h == <<COMMAND, q.field, invoke>>
           u == Uint(q.oid)
           s == (h \o u) \o t
<1>1. h \in Seq(Byte) /\ Len(h) = 3 /\ h[1] = COMMAND /\ h[2] = q.field /\ h[3] = invoke
  BY ByteSeqs, Head3
<1>2. u \in Seq(Byte) /\ Len(u) \in 1..5 /\ UintAt(u \o t) = Got("uint", 0, q.oid, Len(u))
  BY UintTaken
<1> HIDE DEF h, u
<1>3. /\ h \o u \in Seq(Byte) /\ Len(h \o u) = 3 + Len(u) /\ u \o t \in Seq(Byte)
      /\ s = h \o (u \o t) /\ Len(s) = 3 + Len(u) + Len(t) /\ Len(u) \in Nat /\ Len(t) \in Nat
  <2> DEFINE hu == h \o u
  <2>1. Concats(h, u) /\ Concats(u, t)
    BY <1>1, <1>2, ConcatLen
  <2>2. /\ hu \in Seq(Byte) /\ Len(hu) = 3 + Len(u) /\ u \o t \in Seq(Byte)
        /\ Len(u) \in Nat /\ Len(t) \in Nat
    BY <1>1, <2>1 DEF Concats
  <2>3. hu \o t = h \o (u \o t)
    BY <1>1, <1>2, Assoc
  <2> HIDE DEF hu
  <2>4. Concats(hu, t)
    BY <2>2, ConcatLen
  <2>5. Len(hu \o t) = 3 + Len(u) + Len(t)
    BY <2>2, <2>4 DEF Concats
  <2> QED
    BY <2>2, <2>3, <2>5 DEF hu
<1> DEFINE w == u \o t
           hu == h \o u
<1>4. w \in Seq(Byte) /\ hu \in Seq(Byte) /\ s = h \o w /\ s = hu \o t /\ Len(hu) = 3 + Len(u)
  BY <1>3
<1> HIDE DEF w, hu, s
<1>5. s \in Seq(Byte) /\ From(s, 3) = w /\ From(s, 3 + Len(u)) = t
  <2>1. Concats(h, w) /\ From(h \o w, Len(h)) = w
    BY <1>1, <1>4, ConcatLen, FromAfter
  <2>2. From(hu \o t, Len(hu)) = t
    BY <1>4, FromAfter
  <2>3. From(s, Len(hu)) = t
    BY <1>4, <2>2
  <2> QED
    BY <1>1, <1>4, <2>1, <2>3 DEF Concats
<1>6. s[1] = COMMAND /\ s[2] = q.field /\ s[3] = invoke
  <2>1. 1 \in 1..Len(h) /\ 2 \in 1..Len(h) /\ 3 \in 1..Len(h)
    BY <1>1, SMT
  <2>2. \A i \in 1..Len(h) : (h \o w)[i] = h[i]
    BY <1>1, <1>4, ConcatAt
  <2>3. s[1] = h[1] /\ s[2] = h[2] /\ s[3] = h[3]
    BY <1>4, <2>1, <2>2
  <2> QED
    BY <1>1, <2>3
<1>7. Len(s) >= 3
  BY <1>3, SMT
<1> QED
  BY <1>2, <1>3, <1>5, <1>6, <1>7 DEF IsCommand, s, w, u, hu, h

-----------------------------------------------------------------------------
(* Requests are taken to their last byte. *)

\* What is left of the input is the requests that were not processed, unless
\* nothing of it is.
Pending ==
    /\ \A i \in 1..Len(requests)-1 : requests[i].kind # "other"
    /\ requests # <<>> => Ahead(0) = FlattenSeq(Frames(requests))

\* The bytes of the requests behind the first.
Rest == FlattenSeq(Frames(Tail(requests)))

\* The first of the requests is what the input begins with.
LEMMA PendingHead ==
  ASSUME IInv, Pending, requests # <<>>
  PROVE  /\ IsRequest(Head(requests))
         /\ Ahead(0) = Encode(Head(requests)) \o Rest
         /\ Rest \in Seq(Byte)
         /\ Encode(Head(requests)) \in Seq(Byte)
<1>1. requests \in Seq(Request) /\ Ahead(0) = FlattenSeq(Frames(requests))
  BY DEF IInv, Pending
<1> QED
  BY <1>1, FramesCons, RequestsAre, EncodeType DEF Rest

\* Which step processes a request, and what the step finds.
ServesRead(q)  == IsCommand(Ahead(0), q, READ, Rest) /\ ProcessRead(Ahead(0))
ServesWrite(q) == /\ Typed(q.value) /\ EncodeValue(q.value) \in Seq(Byte)
                  /\ IsCommand(Ahead(0), q, WRITE, EncodeValue(q.value) \o Rest)
                  /\ ProcessWrite(Ahead(0))
ServesHello(q) == /\ Ahead(0) # <<>> /\ Tail(Ahead(0)) = Tail(q.bytes) \o Rest
                  /\ Tail(q.bytes) \in Seq(Byte)
                  /\ HelloAt(Tail(q.bytes)) = [ok |-> TRUE, used |-> Len(Tail(q.bytes))]
                  /\ Len(q.bytes) = 1 + Len(Tail(q.bytes))
                  /\ ProcessHello(Ahead(0))

\* The step that takes a request is one of five.
LEMMA Processing ==
  ASSUME IInv, Processed, Next
  PROVE  \/ ProcessIgnored(Ahead(0)) \/ ProcessHello(Ahead(0)) \/ ProcessUnknown(Ahead(0))
         \/ ProcessRead(Ahead(0)) \/ ProcessWrite(Ahead(0))
<1>1. ASSUME NEW a \in Alerts, SendAlert(a) PROVE FALSE
  <2>1. requests' = requests
    BY <1>1, Zenon DEF SendAlert
  <2>2. requests # <<>> /\ requests' = Tail(requests)
    BY DEF Processed
  <2>3. requests \in Seq(Request)
    BY DEF IInv
  <2>4. Len(Tail(requests)) # Len(requests)
    BY <2>2, <2>3, SMT
  <2> QED
    BY <2>1, <2>2, <2>4
<1>2. ASSUME NEW batch \in Batches, Receive(batch) PROVE FALSE
  BY <1>2 DEF Receive, Processed
<1> QED
  BY <1>1, <1>2 DEF Next

\* Messages and invocations have tags of their own.
LEMMA TagsDiffer ==
  /\ HELLO # COMMAND /\ READ # WRITE /\ COMMAND \in {HELLO, COMMAND} /\ HELLO \in {HELLO, COMMAND}
  /\ READ \in {READ, WRITE} /\ WRITE \in {READ, WRITE}
  BY DEF HELLO, COMMAND, READ, WRITE

\* A command is served as what it invokes.
LEMMA CommandServed ==
  ASSUME IInv, Processed, Next, NEW q, NEW invoke, NEW t, IsCommand(Ahead(0), q, invoke, t)
  PROVE  /\ invoke = READ => ProcessRead(Ahead(0))
         /\ invoke = WRITE => ProcessWrite(Ahead(0))
<1> DEFINE s == Ahead(0)
<1>1. Len(s) >= 3 /\ s[1] = COMMAND /\ s[3] = invoke
  BY DEF IsCommand
<1>2. /\ ProcessIgnored(s) => s[1] \notin {HELLO, COMMAND}
      /\ ProcessHello(s) => s[1] = HELLO
      /\ ProcessUnknown(s) => (Len(s) >= 3 => s[3] \notin {READ, WRITE})
      /\ ProcessRead(s) => s[3] = READ
      /\ ProcessWrite(s) => s[3] = WRITE
  BY Zenon DEF ProcessIgnored, ProcessHello, ProcessUnknown, ProcessRead, ProcessWrite
<1>3. \/ ProcessIgnored(s) \/ ProcessHello(s) \/ ProcessUnknown(s)
      \/ ProcessRead(s) \/ ProcessWrite(s)
  BY Processing
<1> HIDE DEF s
<1>4. ~ProcessIgnored(s) /\ ~ProcessHello(s)
  BY <1>1, <1>2, TagsDiffer
<1>5. invoke \in {READ, WRITE} => ~ProcessUnknown(s)
  BY <1>1, <1>2
<1> QED
  BY <1>1, <1>2, <1>3, <1>4, <1>5, TagsDiffer DEF s

\* A read is served as a read,
LEMMA ReadsServed ==
  ASSUME IInv, Pending, Processed, Next, Head(requests).kind = "read"
  PROVE  ServesRead(Head(requests))
<1> DEFINE q == Head(requests)
<1>1. requests # <<>>
  BY DEF Processed
<1>2. IsRequest(q) /\ Ahead(0) = Encode(q) \o Rest /\ Rest \in Seq(Byte) /\ q.kind = "read"
  BY <1>1, PendingHead
<1> HIDE DEF q
<1>3. q.field \in Byte /\ q.oid \in U32
  BY <1>2 DEF IsRequest
<1>4. Encode(q) = <<COMMAND, q.field, READ>> \o Uint(q.oid)
  BY <1>2 DEF Encode
<1>5. IsCommand(Ahead(0), q, READ, Rest)
  BY <1>2, <1>3, <1>4, CommandTaken, ByteSeqs
<1>6. ProcessRead(Ahead(0))
  BY <1>5, CommandServed
<1> QED
  BY <1>5, <1>6 DEF ServesRead, q

\* a write as a write,
LEMMA WritesServed ==
  ASSUME IInv, Pending, Processed, Next, Head(requests).kind = "write"
  PROVE  ServesWrite(Head(requests))
<1> DEFINE q == Head(requests)
           h == <<COMMAND, q.field, WRITE>> \o Uint(q.oid)
           e == EncodeValue(q.value)
           t == e \o Rest
<1>1. requests # <<>>
  BY DEF Processed
<1>2. IsRequest(q) /\ Ahead(0) = Encode(q) \o Rest /\ Rest \in Seq(Byte) /\ q.kind = "write"
  BY <1>1, PendingHead
<1> HIDE DEF q
<1>3. q.field \in Byte /\ q.oid \in U32 /\ Typed(q.value)
  BY <1>2 DEF IsRequest
<1>4. Encode(q) = h \o e
  BY <1>2 DEF Encode
<1>5. h \in Seq(Byte) /\ e \in Seq(Byte)
  <2>1. <<COMMAND, q.field, WRITE>> \in Seq(Byte) /\ Uint(q.oid) \in Seq(Byte)
    BY <1>3, ByteSeqs, Head3, UintTaken
  <2>2. Concats(<<COMMAND, q.field, WRITE>>, Uint(q.oid))
    BY <2>1, ConcatLen
  <2> QED
    BY <1>3, <2>2, EncodeValueType DEF Concats
<1> HIDE DEF e
<1>6. t \in Seq(Byte) /\ Ahead(0) = h \o t
  <2> HIDE DEF h
  <2>1. (h \o e) \o Rest = h \o (e \o Rest) /\ Concats(e, Rest)
    BY <1>2, <1>5, Assoc, ConcatLen
  <2> QED
    BY <1>2, <1>4, <2>1 DEF Concats
<1> HIDE DEF t
<1>7. IsCommand(Ahead(0), q, WRITE, t)
  BY <1>3, <1>6, CommandTaken, ByteSeqs
<1>8. ProcessWrite(Ahead(0))
  BY <1>7, CommandServed
<1> QED
  BY <1>3, <1>5, <1>7, <1>8 DEF ServesWrite, q, t, e

\* and a hello as a hello.
LEMMA HellosServed ==
  ASSUME IInv, Pending, Processed, Next, Head(requests).kind = "hello"
  PROVE  ServesHello(Head(requests))
<1> DEFINE q == Head(requests)
           b == q.bytes
           s == b \o Rest
<1>1. requests # <<>>
  BY DEF Processed
<1>2. IsRequest(q) /\ Ahead(0) = Encode(q) \o Rest /\ Rest \in Seq(Byte) /\ q.kind = "hello"
  BY <1>1, PendingHead
<1> HIDE DEF q
<1>3. /\ b \in Seq(Byte) /\ b # <<>> /\ b[1] = HELLO
      /\ HelloAt(Tail(b)) = [ok |-> TRUE, used |-> Len(b) - 1]
  BY <1>2 DEF IsRequest
<1>4. Encode(q) = b
  BY <1>2 DEF Encode
<1> HIDE DEF b
<1>5. s[1] = HELLO /\ s # <<>> /\ Tail(s) = Tail(b) \o Rest /\ Tail(b) \in Seq(Byte)
      /\ Len(b) - 1 = Len(Tail(b)) /\ Len(b) = 1 + Len(Tail(b))
  BY <1>2, <1>3, SMT
<1>6. Ahead(0) = s
  BY <1>2, <1>4
<1> HIDE DEF s
<1>7. ProcessHello(s)
  <2>1. \/ ProcessIgnored(s) \/ ProcessHello(s) \/ ProcessUnknown(s)
        \/ ProcessRead(s) \/ ProcessWrite(s)
    BY <1>6, Processing
  <2>2. /\ ProcessIgnored(s) => s[1] \notin {HELLO, COMMAND}
        /\ ProcessUnknown(s) => s[1] = COMMAND
        /\ ProcessRead(s) => s[1] = COMMAND
        /\ ProcessWrite(s) => s[1] = COMMAND
    BY Zenon DEF ProcessIgnored, ProcessUnknown, ProcessRead, ProcessWrite
  <2> QED
    BY <1>5, <2>1, <2>2, TagsDiffer
<1> QED
  BY <1>3, <1>5, <1>6, <1>7 DEF ServesHello, q, b

\* What is left of what is left.
LEMMA FromFrom ==
  ASSUME NEW s \in Seq(Byte), NEW m \in 0..Len(s), NEW n \in 0..Len(From(s, m))
  PROVE  From(From(s, m), n) = From(s, m + n)
<1> DEFINE u == From(s, m)
           v == From(u, n)
           k == m + n
           w == From(s, k)
<1>1. u \in Seq(Byte) /\ Len(u) = Len(s) - m
  BY FromType
<1>2. k \in 0..Len(s) /\ Len(s) \in Nat
  BY <1>1, SMT
<1> HIDE DEF k
<1>3. w \in Seq(Byte) /\ Len(w) = Len(s) - k /\ \A i \in 1..Len(s)-k : w[i] = s[k + i]
  BY <1>2, FromType, FromAt
<1>4. v \in Seq(Byte) /\ Len(v) = Len(u) - n /\ \A i \in 1..Len(u)-n : v[i] = u[n + i]
  <2>1. n \in 0..Len(u)
    OBVIOUS
  <2> HIDE DEF u
  <2> QED
    BY <1>1, <2>1, FromType, FromAt
<1>5. Len(v) = Len(w)
  <2>1. Len(v) = Len(s) - m - n
    BY <1>1, <1>4
  <2>2. Len(w) = Len(s) - (m + n)
    BY <1>3 DEF k
  <2> HIDE DEF u, v, w
  <2>3. m \in Int /\ n \in Int
    BY <1>1, SMT DEF u
  <2>4. Len(s) - m - n = Len(s) - (m + n)
    BY <1>2, <2>3, SMT
  <2> QED
    BY <2>1, <2>2, <2>4
<1>6. ASSUME NEW i \in 1..Len(v) PROVE v[i] = w[i]
  <2> DEFINE j == n + i
  <2>1. j \in 1..Len(s)-m /\ m + j = k + i
    BY <1>1, <1>2, <1>4, SMT DEF k
  <2>2. v[i] = u[j] /\ w[i] = s[k + i]
    BY <1>3, <1>4, <1>5
  <2> HIDE DEF j, v, w
  <2>3. u[j] = s[m + j]
    BY <2>1, FromAt
  <2> QED
    BY <2>1, <2>2, <2>3
<1> HIDE DEF v, w
<1>7. v = w
  BY <1>3, <1>4, <1>5, <1>6, BytesEqual
<1> QED
  BY <1>7 DEF v, w, k

\* The step takes the bytes of the request.
LEMMA Consumed ==
  ASSUME IInv, Pending, Processed, Next, Head(requests).kind # "other"
  PROVE  Skip(Len(Encode(Head(requests))))
<1> DEFINE q == Head(requests)
           s == Ahead(0)
           e == Encode(q)
           b == Tail(q.bytes)
<1>1. requests # <<>> /\ IsRequest(q) /\ s = e \o Rest /\ Rest \in Seq(Byte) /\ e \in Seq(Byte)
  BY PendingHead DEF Processed
<1>2. Len(s) = Len(e) + Len(Rest) /\ Len(e) \in Nat /\ Len(Rest) \in Nat
  <2> HIDE DEF s, e
  <2>1. Concats(e, Rest)
    BY <1>1, ConcatLen
  <2> QED
    BY <1>1, <2>1 DEF Concats
<1>3. q.kind \in {"read", "write", "hello"}
  BY <1>1, EncodeType
<1>4. CASE q.kind = "read"
  <2> DEFINE n == 3 + Len(Uint(q.oid))
  <2>1. ServesRead(q)
    BY <1>4, ReadsServed
  <2> HIDE DEF s, e, q
  <2>2. Len(s) = n + Len(Rest) /\ UintAt(From(s, 3)).used = Len(Uint(q.oid)) /\ Len(Uint(q.oid)) \in 1..5
    BY <2>1 DEF ServesRead, IsCommand, Got, s
  <2>3. Skip(n)
    BY <2>1, <2>2, Zenon DEF ServesRead, ProcessRead, s
  <2>4. n = Len(e)
    BY <1>2, <2>2, SMT
  <2> QED
    BY <2>3, <2>4 DEF e, q
<1>5. CASE q.kind = "write"
  <2> DEFINE m == 3 + Len(Uint(q.oid))
             v == q.value
             ev == EncodeValue(v)
             f == ev \o Rest
             d == DataAt(f)
             n == m + d.used
  <2>1. ServesWrite(q)
    BY <1>5, WritesServed
  <2> HIDE DEF s, e, q
  <2>2. /\ Len(s) = m + Len(f) /\ UintAt(From(s, 3)) = Got("uint", 0, q.oid, Len(Uint(q.oid)))
        /\ From(s, m) = f /\ Len(Uint(q.oid)) \in 1..5 /\ Typed(v) /\ ev \in Seq(Byte)
    BY <2>1 DEF ServesWrite, IsCommand, s
  <2>3. UintAt(From(s, 3)).used = Len(Uint(q.oid)) /\ UintAt(From(s, 3)).ok
    BY <2>2 DEF Got
  <2>4. IsValueRead(d, v)
    BY <1>1, <2>2, ValueTaken
  <2>5. Skip(EndOf(n, d))
    BY <2>1, <2>2, <2>3, <2>4, Zenon DEF ServesWrite, ProcessWrite, s, IsValueRead
  <2>6. Len(f) = Len(ev) + Len(Rest) /\ Len(ev) \in Nat
    <3> HIDE DEF ev
    <3>1. Concats(ev, Rest)
      BY <1>1, <2>2, ConcatLen
    <3> QED
      BY <3>1 DEF Concats
  <2>7. IF v.type \in StringTags THEN Len(ev) = 1 + Len(Uint(Len(v.body))) + Len(v.body)
                                 ELSE Len(ev) = 1 + Len(v.body)
    BY <2>2, EncodeValueLen
  <2>8. d.form \in Strings <=> v.type \in StringTags
    BY <2>2, <2>4, StringTagsAre DEF Typed, IsValueRead
  <2>9. Len(v.body) \in Nat /\ Len(Uint(Len(v.body))) \in Nat /\ m \in Nat
    <3>1. v.body \in Seq(Byte) /\ Len(v.body) \in Nat
      BY <2>2 DEF Typed
    <3>2. Uint(Len(v.body)) \in Seq(Byte)
      BY <3>1, CUintType DEF Uint, Ends
    <3> QED
      BY <2>2, <3>1, <3>2, SMT
  <2>10. Len(s) = Len(rx.bytes) - rx.pos /\ rx.pos \in Nat /\ Len(rx.bytes) \in Nat
    BY Remainder DEF s
  <2> HIDE DEF d, ev, f, v, m
  <2>11. EndOf(n, d) = Len(e)
    <3>1. CASE v.type \in StringTags
      <4>1. d.lo = Len(v.body) /\ d.used = 1 + Len(Uint(Len(v.body))) /\ d.form \in Strings
        BY <2>4, <2>8, <3>1 DEF IsValueRead
      <4> DEFINE ku == Len(Uint(Len(v.body)))
                 kb == Len(v.body)
                 kr == Len(Rest)
                 kv == Len(ev)
                 ke == Len(e)
                 kf == Len(f)
                 ks == Len(s)
      <4>2. /\ kv = 1 + ku + kb /\ n = m + (1 + ku) /\ d.lo = kb
            /\ kf = kv + kr /\ ks = m + kf /\ ks = ke + kr /\ ks = Len(rx.bytes) - rx.pos
            /\ ku \in Nat /\ kb \in Nat /\ kr \in Nat /\ kv \in Nat /\ ke \in Nat /\ m \in Nat
        BY <1>2, <2>2, <2>6, <2>7, <2>9, <2>10, <3>1, <4>1
      <4> HIDE DEF ku, kb, kr, kv, ke, kf, ks, n
      <4>3. n + kb = ke /\ rx.pos + n + kb <= Len(rx.bytes)
        BY <2>10, <4>2, SMT
      <4>4. n + d.lo = Len(e) /\ rx.pos + n + d.lo <= Len(rx.bytes)
        BY <4>2, <4>3 DEF ke
      <4> HIDE DEF n
      <4> QED
        BY <4>1, <4>4 DEF EndOf
    <3>2. CASE v.type \notin StringTags
      <4>1. d.used = 1 + Len(v.body) /\ d.form \notin Strings
        BY <2>4, <2>8, <3>2 DEF IsValueRead
      <4> DEFINE kb == Len(v.body)
                 kr == Len(Rest)
                 kv == Len(ev)
                 ke == Len(e)
                 kf == Len(f)
                 ks == Len(s)
      <4>3. /\ kv = 1 + kb /\ n = m + (1 + kb)
            /\ kf = kv + kr /\ ks = m + kf /\ ks = ke + kr
            /\ kb \in Nat /\ kr \in Nat /\ kv \in Nat /\ ke \in Nat /\ m \in Nat
        BY <1>2, <2>2, <2>6, <2>7, <2>9, <3>2, <4>1
      <4> HIDE DEF kb, kr, kv, ke, kf, ks, n
      <4>2. n = Len(e)
        BY <4>3, SMT DEF ke
      <4> HIDE DEF n
      <4> QED
        BY <4>1, <4>2 DEF EndOf
    <3> QED
      BY <3>1, <3>2
  <2> QED
    BY <2>5, <2>11 DEF e, q
<1>6. CASE q.kind = "hello"
  <2>1. ServesHello(q)
    BY <1>6, HellosServed
  <2>2. e = q.bytes
    BY <1>6 DEF Encode
  <2> HIDE DEF s, e, q
  <2>3. /\ Tail(s) = b \o Rest /\ b \in Seq(Byte) /\ Len(q.bytes) = 1 + Len(b)
        /\ HelloAt(b) = [ok |-> TRUE, used |-> Len(b)] /\ ProcessHello(s)
    BY <2>1 DEF ServesHello, s
  <2> HIDE DEF b
  <2>4. HelloAt(b \o Rest) = HelloAt(b)
    BY <1>1, <2>3, HelloTaken
  <2>5. HelloAt(b \o Rest) = [ok |-> TRUE, used |-> Len(b)]
    BY <2>3, <2>4
  <2>6. HelloAt(b \o Rest).used = Len(b)
    BY <2>5
  <2>7. HelloAt(Tail(s)).used = Len(b)
    BY <2>3, <2>6
  <2>8. Skip(1 + Len(b))
    BY <2>3, <2>7, Zenon DEF ProcessHello
  <2> QED
    BY <2>2, <2>3, <2>8 DEF e, q
<1> QED
  BY <1>3, <1>4, <1>5, <1>6

\* What is left of the input after n bytes of it are taken.
LEMMA AheadNext ==
  ASSUME IInv, NEW n \in 0..Len(Ahead(0)), Skip(n)
  PROVE  Ahead(0)' = From(Ahead(0), n) /\ rx'.pos = rx.pos + n
<1>1. rx' = [bytes |-> rx.bytes, pos |-> rx.pos + n] /\ rx.pos + n \in 0..Len(rx.bytes)
      /\ rx.pos \in Nat /\ Len(Ahead(0)) = Len(rx.bytes) - rx.pos
  BY Remainder
<1>2. rx.bytes \in Seq(Byte) /\ rx.pos \in 0..Len(rx.bytes)
  BY DEF IInv
<1>3. rx'.bytes = rx.bytes /\ rx'.pos = rx.pos + n
  BY <1>1
<1>4. rx.pos + 0 = rx.pos /\ (rx.pos + n) + 0 = rx.pos + n
  BY <1>1, SMT
<1>5. Ahead(0)' = From(rx.bytes, rx.pos + n) /\ Ahead(0) = From(rx.bytes, rx.pos)
  BY <1>3, <1>4 DEF Ahead
<1>6. From(From(rx.bytes, rx.pos), n) = From(rx.bytes, rx.pos + n)
  BY <1>2, <1>5, FromFrom
<1> QED
  BY <1>3, <1>5, <1>6

\* The first of the requests is taken, and the rest of them are what is left.
LEMMA RestLeft ==
  ASSUME IInv, Pending, Processed, Next, Head(requests).kind # "other"
  PROVE  /\ rx'.pos = rx.pos + Len(Encode(Head(requests)))
         /\ Ahead(0)' = FlattenSeq(Frames(requests'))
<1> DEFINE e == Encode(Head(requests))
<1>1. requests # <<>> /\ requests' = Tail(requests)
  BY DEF Processed
<1>2. Ahead(0) = e \o Rest /\ Rest \in Seq(Byte) /\ e \in Seq(Byte)
  BY <1>1, PendingHead
<1>3. Skip(Len(e))
  BY Consumed
<1> HIDE DEF e
<1>4. Len(e) \in 0..Len(Ahead(0))
  <2>1. Len(e \o Rest) = Len(e) + Len(Rest) /\ Len(e) \in Nat /\ Len(Rest) \in Nat
    BY <1>2, ConcatAt
  <2> QED
    BY <1>2, <2>1, SMT
<1>5. Ahead(0)' = From(Ahead(0), Len(e)) /\ rx'.pos = rx.pos + Len(e)
  BY <1>3, <1>4, AheadNext
<1>6. From(Ahead(0), Len(e)) = Rest
  BY <1>2, FromAfter
<1>7. FlattenSeq(Frames(requests')) = Rest
  BY <1>1 DEF Rest
<1> QED
  BY <1>5, <1>6, <1>7 DEF e

\* The requests behind the first are what is left when it was taken.
LEMMA PendingKept ==
  ASSUME IInv, Pending, Processed, Next
  PROVE  Pending'
<1>1. requests # <<>> /\ requests' = Tail(requests) /\ requests \in Seq(Request)
  BY DEF Processed, IInv
<1>2. \A i \in 1..Len(requests)-1 : requests[i].kind # "other"
  BY DEF Pending
<1>3. ASSUME NEW i \in 1..Len(requests')-1 PROVE requests'[i].kind # "other"
  <2> DEFINE r == requests
             j == i + 1
  <2>1. j \in 1..Len(r)-1 /\ Tail(r)[i] = r[j]
    BY <1>1, <1>3, SMT
  <2> HIDE DEF j
  <2> QED
    BY <1>1, <1>2, <2>1
<1>4. ASSUME requests' # <<>> PROVE Head(requests).kind # "other"
  <2>1. 1 \in 1..Len(requests)-1 /\ Head(requests) = requests[1]
    BY <1>1, <1>4, SMT
  <2> QED
    BY <1>2, <2>1
<1>5. requests' # <<>> => Ahead(0)' = FlattenSeq(Frames(requests'))
  BY <1>4, RestLeft
<1> QED
  BY <1>3, <1>5 DEF Pending

\* The messages that arrive are what the input holds.
LEMMA PendingReceived ==
  ASSUME OthersLast, NEW batch \in Batches, Receive(batch)
  PROVE  Pending'
<1>1. requests' = batch /\ rx' = [bytes |-> FlattenSeq(Frames(batch)), pos |-> 0]
  BY Zenon DEF Receive, Frames
<1> DEFINE b == FlattenSeq(Frames(batch))
<1>2. b \in Seq(Byte)
  BY RequestsAre, FramesType, FlatType
<1>3. rx'.bytes = b /\ rx'.pos = 0
  BY <1>1
<1> HIDE DEF b
<1>4. Ahead(0)' = From(b, 0)
  BY <1>3 DEF Ahead
<1>5. From(b, 0) = b
  BY <1>2, SMT DEF From
<1>6. \A i \in 1..Len(requests')-1 : requests'[i].kind # "other"
  BY <1>1 DEF OthersLast
<1>7. Ahead(0)' = FlattenSeq(Frames(requests'))
  BY <1>1, <1>4, <1>5 DEF b
<1> QED
  BY <1>6, <1>7 DEF Pending

\* Every step leaves the requests that were not processed in the input.
LEMMA PendingSteps ==
  ASSUME OthersLast PROVE IInv /\ Pending /\ [Next]_vars => Pending'
<1> SUFFICES ASSUME IInv, Pending, [Next]_vars PROVE Pending'
  OBVIOUS
<1>1. CASE \E batch \in Batches : Receive(batch)
  BY <1>1, PendingReceived
<1>2. CASE UNCHANGED <<rx, requests>>
  <2>1. Ahead(0)' = Ahead(0)
    BY <1>2 DEF Ahead
  <2> QED
    BY <1>2, <2>1 DEF Pending
<1>3. CASE Next /\ Processed
  BY <1>3, PendingKept
<1>4. UNCHANGED vars => UNCHANGED <<rx, requests>>
  BY DEF vars
<1>5. ASSUME NEW a \in Alerts, SendAlert(a) PROVE UNCHANGED <<rx, requests>>
  BY <1>5, Zenon DEF SendAlert
<1>6. /\ ProcessIgnored(Ahead(0)) => Processed
      /\ ProcessHello(Ahead(0)) => Processed
      /\ ProcessUnknown(Ahead(0)) => Processed
      /\ ProcessRead(Ahead(0)) => Processed
      /\ ProcessWrite(Ahead(0)) => Processed
  BY Zenon DEF ProcessIgnored, ProcessHello, ProcessUnknown, ProcessRead, ProcessWrite,
               Process, Processed
<1> QED
  BY <1>1, <1>2, <1>3, <1>4, <1>5, <1>6 DEF Next

\* At first nothing is pending.
LEMMA InitPending == Init => Pending
<1> SUFFICES ASSUME Init PROVE Pending
  OBVIOUS
<1>1. requests = <<>> /\ Len(<<>>) = 0
  BY DEF Init
<1>2. \A i \in 1..Len(requests)-1 : FALSE
  BY <1>1, SMT
<1> QED
  BY <1>1, <1>2 DEF Pending

\* When what is no request ends its batch, each request is taken to its last byte,
\* whether its handler read its value or refused it (aloof.c:154-166): whatever the
\* requests, what is left of the input is always the requests behind it.
THEOREM RequestsConsumed == ASSUME OthersLast PROVE Spec => MessagesConsumed
<1>1. IInv /\ Pending /\ [Next]_vars
        => [Processed /\ Head(requests).kind # "other"
              => rx'.pos = rx.pos + Len(Encode(Head(requests)))]_vars
  <2> SUFFICES ASSUME IInv, Pending, Next, Processed, Head(requests).kind # "other"
               PROVE  rx'.pos = rx.pos + Len(Encode(Head(requests)))
    OBVIOUS
  <2> QED
    BY RestLeft
<1> QED
  BY Inits, Steps, InitPending, PendingSteps, <1>1, PTL DEF Spec, MessagesConsumed

-----------------------------------------------------------------------------
(* What a reader takes of the output is there. *)

\* Replies that take at least k bytes and at most n.
Within(D, k, n) ==
    \A d \in D : \E r : \E u \in Nat : d = Decoded(r, u) /\ k <= u /\ u <= n

\* Replies that are found behind others.
LEMMA AfterWithin ==
  ASSUME NEW D, NEW k \in Nat, NEW n \in Nat, Within(D, k, n), NEW m \in Nat
  PROVE  Within(After(m, D), k + m, n + m)
<1> SUFFICES ASSUME NEW e \in After(m, D)
             PROVE  \E r : \E u \in Nat : e = Decoded(r, u) /\ k + m <= u /\ u <= n + m
  BY Zenon DEF Within
<1>1. PICK d \in D : e = [d EXCEPT !.used = @ + m]
  BY DEF After
<1>2. PICK r : \E u \in Nat : d = Decoded(r, u) /\ k <= u /\ u <= n
  BY DEF Within
<1>3. PICK u \in Nat : d = Decoded(r, u) /\ k <= u /\ u <= n
  BY <1>2
<1>4. e = Decoded(r, u + m)
  BY <1>1, <1>3, Zenon DEF Decoded
<1> DEFINE w == u + m
<1>5. w \in Nat /\ k + m <= w /\ w <= n + m
  BY <1>3, SMT
<1>6. e = Decoded(r, w)
  BY <1>4
<1> HIDE DEF w
<1> QED
  BY <1>5, <1>6, Zenon

\* Nothing is within any bounds.
LEMMA NoneWithin == \A k, n : Within({}, k, n)
  BY DEF Within

\* A number that is read was there,
LEMMA UintsDecoded ==
  ASSUME NEW s \in Seq(Byte), NEW r \in DecodeUint(s)
  PROVE  r.used \in Nat /\ 1 <= r.used /\ r.used <= Len(s) /\ r.lo \in Nat /\ r.ok
<1>1. r = GetVarint("ruby", "uint", s) /\ r.ok
  BY DEF DecodeUint
<1>2. IsRead(r, s) /\ r.used >= 1
  BY <1>1, UintType DEF Ends
<1>3. r.lo \in Int /\ r.lo >= 0 /\ r.used \in 0..Len(s) /\ r.used >= 1 /\ Len(s) \in Nat
  BY <1>1, <1>2 DEF IsRead
<1> QED
  BY <1>1, <1>3, SMT

\* The body of every type but the strings is the same to both ends.
LEMMA BodiesAlike ==
  ASSUME NEW form \in TypeNames \ Strings, NEW s
  PROVE  GetBody("ruby", form, s) = GetBody("c", form, s)
<1>1. form \notin {"uint", "int"} /\ form \notin Strings
  BY SMT DEF TypeNames, DataTypes
<1>2. CASE form = "nil"
  <2>1. form \notin Doubles /\ form # "bool"
    BY <1>2, SMT DEF Doubles
  <2> QED
    BY <1>1, <1>2, <2>1, Zenon DEF GetBody
<1>3. CASE form \in Doubles
  <2>1. form # "nil" /\ form # "bool"
    BY <1>3, SMT DEF Doubles
  <2> QED
    BY <1>1, <1>3, <2>1, Zenon DEF GetBody
<1>4. CASE form = "bool"
  <2>1. form \notin Doubles /\ form # "nil"
    BY <1>4, SMT DEF Doubles
  <2> QED
    BY <1>1, <1>4, <2>1, Zenon DEF GetBody
<1>5. CASE form \notin Doubles /\ form # "nil" /\ form # "bool"
  BY <1>1, <1>5, Zenon DEF GetBody
<1> QED
  BY <1>2, <1>3, <1>4, <1>5

\* The body of a string is its length and its bytes.
LEMMA StringBodies ==
  ASSUME NEW d \in Ends, NEW form \in Strings, NEW s
  PROVE  GetBody(d, form, s) = StringBody(d, form, s)
<1>1. form # "nil" /\ form \notin {"uint", "int"} /\ form \notin Doubles /\ form # "bool"
  BY SMT DEF Strings, Doubles
<1> QED
  BY <1>1, Zenon DEF GetBody

\* so were a tag and a body,
LEMMA DataDecoded ==
  ASSUME NEW s \in Seq(Byte), NEW r, r = GetData("ruby", s), r.ok
  PROVE  r.used \in Nat /\ 1 <= r.used /\ r.used <= Len(s)
<1>1. s # <<>> /\ ~(s[1] >= 14)
  BY DEF GetData, Refused
<1>2. s[1] \in 0..13 /\ Tail(s) \in Seq(Byte) /\ Len(Tail(s)) = Len(s) - 1 /\ Len(s) \in Nat
  <2>1. s[1] \in Byte
    BY <1>1
  <2>2. s[1] \in Int /\ 0 <= s[1]
    BY <2>1, Bytes
  <2> QED
    BY <1>1, <2>2, SMT
<1> DEFINE n == s[1]
           form == DataTypes[n + 1]
           x == Tail(s)
           b == GetBody("ruby", form, x)
<1>3. b.ok /\ r = Got(b.form, b.hi, b.lo, b.used + 1)
  BY <1>1 DEF GetData, Refused
<1>4. form \in TypeNames
  BY <1>2, TypeTags
<1>5. n \in 0..13 /\ x \in Seq(Byte) /\ Len(x) = Len(s) - 1
  BY <1>2
<1>6. b.used \in 0..Len(x)
  <2>1. CASE form \in Strings
    <3> HIDE DEF form, x
    <3>1. b = StringBody("ruby", form, x)
      BY <2>1, StringBodies DEF Ends
    <3> DEFINE u == GetVarint("ruby", "uint", x)
    <3> HIDE DEF b
    <3>2. u.ok /\ Len(x) - u.used >= u.lo /\ b = Got(form, 0, u.lo, u.used + u.lo)
      BY <1>3, <3>1, Zenon DEF StringBody, Refused
    <3>3. IsRead(u, x) /\ u.used >= 1
      BY <1>5, <3>2, UintType DEF Ends
    <3>4. u.lo \in Int /\ u.lo >= 0 /\ u.used \in 0..Len(x) /\ Len(x) \in Nat
      BY <1>5, <3>2, <3>3 DEF IsRead
    <3>5. b.used = u.used + u.lo
      BY <3>2 DEF Got
    <3> HIDE DEF u
    <3> QED
      BY <3>2, <3>4, <3>5, SMT
  <2>2. CASE form \notin Strings
    <3> HIDE DEF form, x, n
    <3>1. form = DataTypes[n + 1]
      BY DEF form
    <3>2. IsBody(GetBody("c", form, x), form, n, x)
      BY <1>4, <1>5, <2>2, <3>1, SizesOfBodies
    <3>3. b = GetBody("c", form, x)
      BY <1>4, <2>2, BodiesAlike
    <3>4. b # Refused
      BY <1>3 DEF Refused
    <3> HIDE DEF b
    <3>5. PICK hi, lo : b = Got(form, hi, lo, BodySize(n)) /\ BodySize(n) <= Len(x)
      BY <3>2, <3>3, <3>4 DEF IsBody
    <3>6. BodySize(n) \in 0..8
      BY <3>2 DEF IsBody
    <3>7. b.used = BodySize(n)
      BY <3>5 DEF Got
    <3> QED
      BY <1>5, <3>5, <3>6, <3>7, SMT
  <2> QED
    BY <2>1, <2>2
<1>7. r.used = b.used + 1
  BY <1>3 DEF Got
<1> HIDE DEF b, x
<1> QED
  BY <1>2, <1>5, <1>6, <1>7, SMT

\* a value,
LEMMA ValuesDecoded ==
  ASSUME NEW s \in Seq(Byte), NEW v \in DecodeValue(s)
  PROVE  v.used \in Nat /\ 1 <= v.used /\ v.used <= Len(s)
<1>1. GetData("ruby", s).ok /\ v.used = GetData("ruby", s).used
  BY DEF DecodeValue
<1> QED
  BY <1>1, DataDecoded

\* What a result is made of.
ResultParts(kind, id, s, d, result) ==
    \/ \E why \in DecodeUint(From(s, result.used)) :
          d = Decoded(Reply(kind, id, 1 + why.lo, NoValue), result.used + why.used)
    \/ d = Decoded(Reply(kind, id, 0, NoValue), result.used)
    \/ \E v \in DecodeValue(From(s, result.used)) :
          d = Decoded(Reply(kind, id, 0, v.value), result.used + v.used)

\* a result, and what follows it,
LEMMA ResultsDecoded ==
  ASSUME NEW kind, NEW id, NEW s \in Seq(Byte)
  PROVE  Within(DecodeResult(kind, id, s), 1, Len(s))
<1> SUFFICES ASSUME NEW d \in DecodeResult(kind, id, s)
             PROVE  \E r : \E u \in Nat : d = Decoded(r, u) /\ 1 <= u /\ u <= Len(s)
  BY Zenon DEF Within
<1>1. PICK result \in DecodeUint(s) : ResultParts(kind, id, s, d, result)
  <2>1. PICK result \in DecodeUint(s) :
           d \in CASE result.lo = 0 ->
                        IF kind = "write"
                          THEN {Decoded(Reply(kind, id, 0, NoValue), result.used)}
                          ELSE {Decoded(Reply(kind, id, 0, v.value), result.used + v.used) :
                                  v \in DecodeValue(From(s, result.used))}
                   [] result.lo = 1 ->
                        {Decoded(Reply(kind, id, 1 + why.lo, NoValue), result.used + why.used) :
                           why \in {r \in DecodeUint(From(s, result.used)) : r.lo \in Reasons}}
                   [] OTHER -> {}
    BY Zenon DEF DecodeResult
  <2>2. CASE result.lo = 0 /\ kind = "write"
    BY <2>1, <2>2, Zenon DEF ResultParts
  <2>3. CASE result.lo = 0 /\ kind # "write"
    BY <2>1, <2>3, Zenon DEF ResultParts
  <2>4. CASE result.lo = 1 /\ result.lo # 0
    BY <2>1, <2>4, Zenon DEF ResultParts
  <2>5. CASE result.lo # 1 /\ result.lo # 0
    BY <2>1, <2>5, Zenon
  <2> QED
    BY <2>1, <2>2, <2>3, <2>4, <2>5, Zenon
<1> DEFINE n == result.used
           t == From(s, n)
<1>2. n \in 1..Len(s) /\ n \in Nat /\ Len(s) \in Nat
  BY UintsDecoded, SMT
<1>3. t \in Seq(Byte) /\ Len(t) = Len(s) - n
  BY <1>2, FromType, SMT
<1>4. CASE \E why \in DecodeUint(t) :
             d = Decoded(Reply(kind, id, 1 + why.lo, NoValue), n + why.used)
  <2>1. PICK why \in DecodeUint(t) :
             d = Decoded(Reply(kind, id, 1 + why.lo, NoValue), n + why.used)
    BY <1>4
  <2> DEFINE u == n + why.used
  <2>2. why.used \in Nat /\ why.used <= Len(t)
    BY <1>3, UintsDecoded
  <2> HIDE DEF n, t
  <2>3. u \in Nat /\ 1 <= u /\ u <= Len(s)
    BY <1>2, <1>3, <2>2, SMT
  <2>4. d = Decoded(Reply(kind, id, 1 + why.lo, NoValue), u)
    BY <2>1
  <2> HIDE DEF u
  <2> QED
    BY <2>3, <2>4, Zenon
<1>5. CASE d = Decoded(Reply(kind, id, 0, NoValue), n)
  <2>1. 1 <= n /\ n <= Len(s)
    BY <1>2, SMT
  <2> QED
    BY <1>2, <1>5, <2>1, Zenon
<1>6. CASE \E v \in DecodeValue(t) : d = Decoded(Reply(kind, id, 0, v.value), n + v.used)
  <2>1. PICK v \in DecodeValue(t) : d = Decoded(Reply(kind, id, 0, v.value), n + v.used)
    BY <1>6
  <2> DEFINE u == n + v.used
  <2>2. v.used \in Nat /\ v.used <= Len(t)
    BY <1>3, ValuesDecoded
  <2> HIDE DEF n, t
  <2>3. u \in Nat /\ 1 <= u /\ u <= Len(s)
    BY <1>2, <1>3, <2>2, SMT
  <2>4. d = Decoded(Reply(kind, id, 0, v.value), u)
    BY <2>1
  <2> HIDE DEF u
  <2> QED
    BY <2>3, <2>4, Zenon
<1> QED
  BY <1>1, <1>4, <1>5, <1>6, Zenon DEF ResultParts

\* Less is within more.
LEMMA WithinMore ==
  ASSUME NEW D, NEW k \in Nat, NEW n \in Nat, NEW j \in Nat, NEW m \in Nat,
         Within(D, k, n), j <= k, n <= m
  PROVE  Within(D, j, m)
<1> SUFFICES ASSUME NEW d \in D
             PROVE  \E r : \E u \in Nat : d = Decoded(r, u) /\ j <= u /\ u <= m
  BY Zenon DEF Within
<1>1. PICK r : \E u \in Nat : d = Decoded(r, u) /\ k <= u /\ u <= n
  BY DEF Within
<1>2. PICK u \in Nat : d = Decoded(r, u) /\ k <= u /\ u <= n
  BY <1>1
<1>3. j <= u /\ u <= m
  BY <1>2, SMT
<1> QED
  BY <1>2, <1>3, Zenon

\* What is found behind the first n bytes of s is in s.
LEMMA BehindWithin ==
  ASSUME NEW s \in Seq(Byte), NEW n \in 1..Len(s), NEW D, Within(D, 0, Len(From(s, n)))
  PROVE  Within(After(n, D), 1, Len(s))
<1> DEFINE k == Len(From(s, n))
<1>1. k = Len(s) - n /\ Len(s) \in Nat /\ n \in Nat
  BY FromType
<1> HIDE DEF k
<1>2. k \in Nat /\ 1 <= 0 + n /\ k + n <= Len(s) /\ 0 + n \in Nat /\ k + n \in Nat
  BY <1>1, SMT
<1>3. Within(D, 0, k)
  BY DEF k
<1>4. Within(After(n, D), 0 + n, k + n)
  BY <1>1, <1>2, <1>3, AfterWithin
<1> QED
  BY <1>1, <1>2, <1>4, WithinMore

\* the rest of a response,
LEMMA ResponsesDecoded ==
  ASSUME NEW s \in Seq(Byte)
  PROVE  Within(DecodeResponse(s), 0, Len(s))
<1> SUFFICES ASSUME NEW d \in DecodeResponse(s)
             PROVE  \E r : \E u \in Nat : d = Decoded(r, u) /\ 0 <= u /\ u <= Len(s)
  BY Zenon DEF Within
<1> DEFINE K(command) == IF command.lo = READ THEN "read" ELSE "write"
<1>1. PICK command \in DecodeUint(From(s, 1)) :
        d \in After(1 + command.used,
                    DecodeResult(K(command), s[1] % 128, From(s, 1 + command.used)))
  BY Zenon DEF DecodeResponse
<1>2. Len(s) \in Nat /\ Len(s) >= 1
  <2>1. CASE s = <<>>
    <3>1. From(s, 1) = <<>>
      BY <2>1, SMT DEF From
    <3>2. DecodeUint(<<>>) = {}
      BY DEF DecodeUint, GetVarint, Refused
    <3> QED
      BY <1>1, <3>1, <3>2
  <2>2. CASE s # <<>>
    BY <2>2, SMT
  <2> QED
    BY <2>1, <2>2
<1> DEFINE t == From(s, 1)
           m == command.used
           n == 1 + m
<1>3. t \in Seq(Byte) /\ Len(t) = Len(s) - 1
  BY <1>2, FromType, SMT
<1>4. m \in Nat /\ m <= Len(t)
  BY <1>1, <1>3, UintsDecoded
<1>5. n \in 1..Len(s) /\ n \in Nat /\ n \in 0..Len(s)
  <2> HIDE DEF t, m
  <2> QED
    BY <1>2, <1>3, <1>4, SMT
<1> DEFINE u == From(s, n)
           D == DecodeResult(K(command), s[1] % 128, u)
<1>6. u \in Seq(Byte) /\ Len(u) \in Nat
  BY <1>5, FromType
<1>7. Within(D, 1, Len(u))
  <2> HIDE DEF u, K
  <2> QED
    BY <1>6, ResultsDecoded
<1>8. Within(D, 0, Len(u))
  <2> HIDE DEF D
  <2> QED
    BY <1>6, <1>7, WithinMore, SMT
<1>9. d \in After(n, D)
  BY <1>1
<1> HIDE DEF D, n
<1>10. Within(After(n, D), 1, Len(s))
  BY <1>5, <1>8, BehindWithin
<1>11. Within(After(n, D), 0, Len(s))
  BY <1>2, <1>10, WithinMore, SMT
<1> QED
  BY <1>9, <1>11, Zenon DEF Within

\* that of an alert,
LEMMA AlertsDecoded ==
  ASSUME NEW s \in Seq(Byte)
  PROVE  Within(DecodeAlert(s), 0, Len(s))
<1> SUFFICES ASSUME NEW d \in DecodeAlert(s)
             PROVE  \E r : \E u \in Nat : d = Decoded(r, u) /\ 0 <= u /\ u <= Len(s)
  BY Zenon DEF Within
<1>1. PICK aid \in DecodeUint(s) :
        d \in {Decoded(Reply("alert", aid.lo, 0, v.value), aid.used + v.used) :
                 v \in DecodeValue(From(s, aid.used))}
  BY Zenon DEF DecodeAlert
<1> DEFINE n == aid.used
           t == From(s, n)
<1>2. n \in 0..Len(s) /\ n \in Nat /\ Len(s) \in Nat
  BY UintsDecoded, SMT
<1>3. t \in Seq(Byte) /\ Len(t) = Len(s) - n
  BY <1>2, FromType, SMT
<1>4. PICK v \in DecodeValue(t) : d = Decoded(Reply("alert", aid.lo, 0, v.value), n + v.used)
  BY <1>1
<1> DEFINE u == n + v.used
<1>5. v.used \in Nat /\ v.used <= Len(t)
  BY <1>3, ValuesDecoded
<1> HIDE DEF n, t
<1>6. u \in Nat /\ 0 <= u /\ u <= Len(s)
  BY <1>2, <1>3, <1>5, SMT
<1>7. d = Decoded(Reply("alert", aid.lo, 0, v.value), u)
  BY <1>4
<1> HIDE DEF u
<1> QED
  BY <1>6, <1>7, Zenon

\* and that of the answer to a hello.
LEMMA HelloHellosDecoded ==
  ASSUME NEW s \in Seq(Byte)
  PROVE  Within(DecodeHelloHello(s), 0, Len(s))
<1> SUFFICES ASSUME NEW d \in DecodeHelloHello(s)
             PROVE  \E r : \E u \in Nat : d = Decoded(r, u) /\ 0 <= u /\ u <= Len(s)
  BY Zenon DEF Within
<1>1. d = Decoded(Reply("hello", s[1], 0, NoValue), HelloAt(s).used)
  BY Zenon DEF DecodeHelloHello
<1> DEFINE u == HelloAt(s).used
<1>2. u \in Nat /\ 0 <= u /\ u <= Len(s)
  BY HelloAtType, SMT
<1> HIDE DEF u
<1> QED
  BY <1>1, <1>2, Zenon DEF u

\* What a reader makes of the first bytes is at least one of them.
LEMMA MessagesDecoded ==
  ASSUME NEW s \in Seq(Byte)
  PROVE  Within(DecodeMessage(s), 1, Len(s))
<1> SUFFICES ASSUME NEW d \in DecodeMessage(s)
             PROVE  \E r : \E u \in Nat : d = Decoded(r, u) /\ 1 <= u /\ u <= Len(s)
  BY Zenon DEF Within
<1> DEFINE D(tag) == CASE tag.lo = RESPONSE   -> DecodeResponse(From(s, tag.used))
                       [] tag.lo = ALERT      -> DecodeAlert(From(s, tag.used))
                       [] tag.lo = HELLOHELLO -> DecodeHelloHello(From(s, tag.used))
                       [] OTHER               -> {}
<1>1. PICK tag \in DecodeUint(s) : d \in After(tag.used, D(tag))
  BY Zenon DEF DecodeMessage
<1> DEFINE n == tag.used
           t == From(s, n)
<1>2. n \in 1..Len(s) /\ n \in 0..Len(s)
  BY UintsDecoded, SMT
<1>3. t \in Seq(Byte)
  BY <1>2, FromType
<1>4. Within(D(tag), 0, Len(t))
  <2> HIDE DEF t, n
  <2>1. RESPONSE # ALERT /\ RESPONSE # HELLOHELLO /\ ALERT # HELLOHELLO
    BY DEF RESPONSE, ALERT, HELLOHELLO
  <2>2. CASE tag.lo = RESPONSE
    BY <1>3, <2>1, <2>2, ResponsesDecoded, Zenon DEF t, n
  <2>3. CASE tag.lo = ALERT
    BY <1>3, <2>1, <2>3, AlertsDecoded, Zenon DEF t, n
  <2>4. CASE tag.lo = HELLOHELLO
    BY <1>3, <2>1, <2>4, HelloHellosDecoded, Zenon DEF t, n
  <2>5. CASE tag.lo # RESPONSE /\ tag.lo # ALERT /\ tag.lo # HELLOHELLO
    BY <2>5, NoneWithin, Zenon DEF t, n
  <2> QED
    BY <2>2, <2>3, <2>4, <2>5
<1> DEFINE E == D(tag)
<1> HIDE DEF D, n
<1>5. Within(After(n, E), 1, Len(s))
  <2>1. Within(E, 0, Len(From(s, n)))
    BY <1>4
  <2> HIDE DEF E
  <2> QED
    BY <1>2, <2>1, BehindWithin
<1>6. d \in After(n, E)
  BY <1>1 DEF n
<1> HIDE DEF E
<1> QED
  BY <1>5, <1>6, Zenon DEF Within

-----------------------------------------------------------------------------
(* Replies, message by message. *)

\* The message that Replies takes.
FirstMessage(u) == CHOOSE d \in DecodeMessage(u) : TRUE

\* What may be said in a message.
AnyReply == {FirstMessage(u).reply : u \in Seq(Byte)}

\* The message that is taken was there.
LEMMA FirstIs ==
  ASSUME NEW u \in Seq(Byte), DecodeMessage(u) # {}
  PROVE  FirstMessage(u).used \in 1..Len(u) /\ FirstMessage(u).reply \in AnyReply
<1>1. FirstMessage(u) \in DecodeMessage(u)
  BY Zenon DEF FirstMessage
<1>2. Within(DecodeMessage(u), 1, Len(u))
  BY MessagesDecoded
<1>3. PICK r : \E n \in Nat : FirstMessage(u) = Decoded(r, n) /\ 1 <= n /\ n <= Len(u)
  BY <1>1, <1>2, Zenon DEF Within
<1>4. PICK n \in Nat : FirstMessage(u) = Decoded(r, n) /\ 1 <= n /\ n <= Len(u)
  BY <1>3
<1>5. FirstMessage(u).used = n
  <2>1. Decoded(r, n).used = n
    BY DEF Decoded
  <2> QED
    BY <1>4, <2>1
<1>6. n \in 1..Len(u)
  BY <1>4, SMT
<1> QED
  BY <1>5, <1>6 DEF AnyReply

\* What Replies makes of each end of s, as a function.
Reading(f, s) ==
    f = [n \in 0..Len(s) |->
            IF DecodeMessage(From(s, n)) = {} THEN <<>>
            ELSE LET m == CHOOSE d \in DecodeMessage(From(s, n)) : TRUE
                 IN  <<m.reply>> \o f[n + m.used]]

\* At one place it is the first message and what follows it.
ReadsOn(f, s, n) ==
    f[n] = IF DecodeMessage(From(s, n)) = {} THEN <<>>
           ELSE <<FirstMessage(From(s, n)).reply>> \o f[n + FirstMessage(From(s, n)).used]

\* A reading, place by place.
LEMMA ReadingAt ==
  ASSUME NEW s, NEW f, Reading(f, s)
  PROVE  /\ DOMAIN f = 0..Len(s)
         /\ \A n \in 0..Len(s) : ReadsOn(f, s, n)
<1> DEFINE g == [n \in 0..Len(s) |->
                    IF DecodeMessage(From(s, n)) = {} THEN <<>>
                    ELSE <<FirstMessage(From(s, n)).reply>> \o f[n + FirstMessage(From(s, n)).used]]
<1>1. f = g
  BY Zenon DEF Reading, FirstMessage
<1>2. DOMAIN g = 0..Len(s)
  OBVIOUS
<1>3. ASSUME NEW n \in 0..Len(s)
      PROVE  g[n] = IF DecodeMessage(From(s, n)) = {} THEN <<>>
                    ELSE <<FirstMessage(From(s, n)).reply>> \o f[n + FirstMessage(From(s, n)).used]
  BY Zenon
<1> HIDE DEF g
<1> QED
  BY <1>1, <1>2, <1>3, Zenon DEF ReadsOn

\* What reads on at each place is a reading.
LEMMA ReadingFrom ==
  ASSUME NEW s, NEW f, f = [n \in 0..Len(s) |-> f[n]],
         \A n \in 0..Len(s) : ReadsOn(f, s, n)
  PROVE  Reading(f, s)
<1> DEFINE g == [n \in 0..Len(s) |->
                    IF DecodeMessage(From(s, n)) = {} THEN <<>>
                    ELSE <<FirstMessage(From(s, n)).reply>> \o f[n + FirstMessage(From(s, n)).used]]
<1>1. f = g
  BY Zenon DEF ReadsOn
<1> QED
  BY <1>1, Zenon DEF Reading, FirstMessage

\* What is left behind the first byte.
LEMMA FromFirst ==
  ASSUME NEW s \in Seq(Byte), s # <<>>
  PROVE  /\ From(s, 1) \in Seq(Byte) /\ Len(From(s, 1)) = Len(s) - 1
         /\ From(s, 0) = s /\ Len(s) \in Nat /\ Len(s) >= 1
         /\ \A n \in 0..Len(s)-1 : From(From(s, 1), n) = From(s, n + 1)
<1>1. Len(s) \in Nat /\ Len(s) >= 1 /\ 1 \in 0..Len(s)
  BY SMT
<1>2. From(s, 1) \in Seq(Byte) /\ Len(From(s, 1)) = Len(s) - 1
  BY <1>1, FromType
<1>3. From(s, 0) = s
  BY SMT DEF From
<1>4. ASSUME NEW n \in 0..Len(s)-1 PROVE From(From(s, 1), n) = From(s, n + 1)
  <2>1. n \in 0..Len(From(s, 1))
    BY <1>2
  <2>2. 1 + n = n + 1
    BY SMT
  <2> QED
    BY <1>1, <2>1, <2>2, FromFrom
<1> QED
  BY <1>1, <1>2, <1>3, <1>4

\* Without the first byte, it is such a function of what is left.
LEMMA ReadingTail ==
  ASSUME NEW s \in Seq(Byte), s # <<>>, NEW f, Reading(f, s)
  PROVE  Reading([n \in 0..Len(s)-1 |-> f[n + 1]], From(s, 1))
<1> DEFINE t == From(s, 1)
           g == [n \in 0..Len(s)-1 |-> f[n + 1]]
<1>1. t \in Seq(Byte) /\ Len(t) = Len(s) - 1 /\ Len(s) \in Nat
  BY FromFirst
<1>2. ASSUME NEW n \in 0..Len(t) PROVE ReadsOn(g, t, n)
  <2> DEFINE u == From(t, n)
             m == FirstMessage(u).used
  <2>1. n \in 0..Len(s)-1
    BY <1>1
  <2>2. u = From(s, n + 1)
    BY <2>1, FromFirst
  <2>3. n + 1 \in 0..Len(s)
    BY <1>1, <2>1, SMT
  <2>4. ReadsOn(f, s, n + 1)
    BY <2>3, ReadingAt
  <2>5. g[n] = f[n + 1]
    BY <2>1
  <2>6. DecodeMessage(u) # {} => g[n + m] = f[(n + 1) + m]
    <3> SUFFICES ASSUME DecodeMessage(u) # {} PROVE g[n + m] = f[(n + 1) + m]
      OBVIOUS
    <3>1. u \in Seq(Byte) /\ Len(u) = Len(t) - n
      BY <1>1, FromType
    <3>2. m \in 1..Len(u)
      BY <3>1, FirstIs
    <3> DEFINE k == n + m
    <3>3. k \in 0..Len(s)-1 /\ k + 1 = (n + 1) + m
      <4> HIDE DEF m, u, t
      <4> QED
        BY <1>1, <2>1, <3>1, <3>2, SMT
    <3>4. g[k] = f[k + 1]
      <4> HIDE DEF k
      <4> QED
        BY <3>3
    <3> QED
      BY <3>3, <3>4
  <2> HIDE DEF g
  <2>7. g[n] = IF DecodeMessage(u) = {} THEN <<>> ELSE <<FirstMessage(u).reply>> \o g[n + m]
    BY <2>2, <2>4, <2>5, <2>6, Zenon DEF ReadsOn
  <2> QED
    BY <2>7, Zenon DEF ReadsOn
<1>3. g = [n \in 0..Len(t) |-> g[n]]
  BY <1>1
<1> HIDE DEF g, t
<1>4. Reading(g, t)
  BY <1>2, <1>3, ReadingFrom
<1> QED
  BY <1>4 DEF g, t

\* There is one such function, and only one; its values are sequences of replies.
ReadingOnly(f, s) ==
    /\ Reading(f, s)
    /\ \A g : Reading(g, s) => g = f
    /\ \A n \in 0..Len(s) : f[n] \in Seq(AnyReply)

\* There is a reading of nothing,
LEMMA ReadingEmpty ==
  \E f : ReadingOnly(f, <<>>)
<1> DEFINE f == [n \in 0..0 |-> <<>>]
<1>1. Len(<<>>) = 0 /\ From(<<>>, 0) = <<>> /\ 0 \in 0..0 /\ \A n \in 0..0 : n = 0
  BY SMT DEF From
<1>2. DecodeMessage(<<>>) = {}
  <2>1. DecodeUint(<<>>) = {}
    BY DEF DecodeUint, GetVarint, Refused
  <2> QED
    BY <2>1 DEF DecodeMessage
<1>3. ReadsOn(f, <<>>, 0)
  BY <1>1, <1>2, Zenon DEF ReadsOn
<1>4. Reading(f, <<>>)
  BY <1>1, <1>3, ReadingFrom
<1>5. ASSUME NEW g, Reading(g, <<>>) PROVE g = f
  <2>1. DOMAIN g = 0..0 /\ ReadsOn(g, <<>>, 0)
    BY <1>1, <1>5, ReadingAt
  <2>2. g[0] = <<>>
    BY <1>1, <1>2, <2>1 DEF ReadsOn
  <2>3. g = [n \in 0..0 |-> g[n]]
    BY <1>1, <1>5, Zenon DEF Reading
  <2> QED
    BY <1>1, <2>2, <2>3
<1>6. \A n \in 0..Len(<<>>) : f[n] \in Seq(AnyReply)
  BY <1>1
<1> QED
  BY <1>4, <1>5, <1>6, Zenon DEF ReadingOnly

\* A reply in front of others.
LEMMA ReplyBefore ==
  ASSUME NEW r \in AnyReply, NEW rs \in Seq(AnyReply)
  PROVE  <<r>> \o rs \in Seq(AnyReply)
  OBVIOUS

\* there is one of a byte more,
LEMMA ReadingMore ==
  ASSUME NEW s \in Seq(Byte), s # <<>>, NEW f, ReadingOnly(f, From(s, 1))
  PROVE  \E g : ReadingOnly(g, s)
<1> DEFINE t == From(s, 1)
           d == FirstMessage(s)
           now == IF DecodeMessage(s) = {} THEN <<>> ELSE <<d.reply>> \o f[d.used - 1]
           g == [n \in 0..Len(s) |-> IF n = 0 THEN now ELSE f[n - 1]]
<1>1. t \in Seq(Byte) /\ Len(t) = Len(s) - 1 /\ Len(s) \in Nat /\ Len(s) >= 1 /\ From(s, 0) = s
  BY FromFirst
<1>2. Reading(f, t) /\ \A n \in 0..Len(t) : f[n] \in Seq(AnyReply) /\ ReadsOn(f, t, n)
  BY ReadingAt DEF ReadingOnly
<1>3. DecodeMessage(s) # {} => d.used \in 1..Len(s) /\ d.reply \in AnyReply
  BY FirstIs
<1>4. g[0] = now /\ \A n \in 1..Len(s) : g[n] = f[n - 1]
  <2>1. 0 \in 0..Len(s) /\ \A n \in 1..Len(s) : n \in 0..Len(s) /\ n # 0
    BY <1>1, SMT
  <2> HIDE DEF now
  <2> QED
    BY <2>1
<1>5. g = [n \in 0..Len(s) |-> g[n]]
  BY Zenon
<1> HIDE DEF g, d
<1>6. ASSUME NEW n \in 0..Len(s) PROVE ReadsOn(g, s, n)
  <2>1. CASE n = 0
    <3>1. DecodeMessage(s) # {} => g[0 + d.used] = f[d.used - 1]
      BY <1>3, <1>4, SMT
    <3>2. g[0] = IF DecodeMessage(s) = {} THEN <<>> ELSE <<d.reply>> \o g[0 + d.used]
      BY <1>4, <3>1, Zenon
    <3> QED
      BY <1>1, <2>1, <3>2, Zenon DEF ReadsOn, d
  <2>2. CASE n # 0
    <3> DEFINE k == n - 1
               u == From(t, k)
               m == FirstMessage(u).used
    <3>1. k \in 0..Len(t) /\ k \in 0..Len(s)-1 /\ k + 1 = n /\ n \in 1..Len(s) /\ k \in Nat
      BY <1>1, <2>2, SMT
    <3>2. u = From(s, n)
      <4>1. u = From(s, k + 1)
        <5> HIDE DEF k
        <5> QED
          BY <3>1, FromFirst
      <4> QED
        BY <3>1, <4>1
    <3>3. ReadsOn(f, t, k) /\ g[n] = f[k]
      BY <1>2, <1>4, <3>1
    <3>4. DecodeMessage(u) # {} => g[n + m] = f[k + m]
      <4> SUFFICES ASSUME DecodeMessage(u) # {} PROVE g[n + m] = f[k + m]
        OBVIOUS
      <4>1. u \in Seq(Byte) /\ Len(u) = Len(t) - k
        <5> HIDE DEF k, t
        <5> QED
          BY <1>1, <3>1, FromType
      <4>2. m \in 1..Len(u)
        BY <4>1, FirstIs
      <4> DEFINE i == n + m
                 l == Len(u)
      <4>3. i \in 1..Len(s) /\ i - 1 = k + m
        <5>1. l = Len(t) - k /\ m \in 1..l
          BY <4>1, <4>2
        <5> HIDE DEF m, u, t, k, l
        <5> QED
          BY <1>1, <3>1, <5>1, SMT
      <4> HIDE DEF i
      <4>4. g[i] = f[k + m]
        BY <1>4, <4>3
      <4> QED
        BY <4>4 DEF i
    <3> HIDE DEF k
    <3>5. g[n] = IF DecodeMessage(u) = {} THEN <<>> ELSE <<FirstMessage(u).reply>> \o g[n + m]
      BY <3>3, <3>4, Zenon DEF ReadsOn
    <3> QED
      BY <3>2, <3>5, Zenon DEF ReadsOn
  <2> QED
    BY <2>1, <2>2
<1>7. Reading(g, s)
  BY <1>5, <1>6, ReadingFrom
<1>8. ASSUME NEW h, Reading(h, s) PROVE h = g
  <2> DEFINE e == [n \in 0..Len(s)-1 |-> h[n + 1]]
  <2>1. Reading(e, t)
    BY <1>8, ReadingTail
  <2>2. e = f
    <3> HIDE DEF e, t
    <3> QED
      BY <2>1, Zenon DEF ReadingOnly, t
  <2>3. ReadsOn(h, s, 0) /\ h = [n \in 0..Len(s) |-> h[n]]
    <3>1. 0 \in 0..Len(s)
      BY <1>1, SMT
    <3> QED
      BY <1>8, <3>1, ReadingAt, Zenon DEF Reading
  <2>4. ASSUME NEW n \in 1..Len(s) PROVE h[n] = f[n - 1]
    <3> DEFINE k == n - 1
    <3>1. k \in 0..Len(s)-1 /\ k + 1 = n
      BY <1>1, SMT
    <3>2. e[k] = h[k + 1]
      <4> HIDE DEF k
      <4> QED
        BY <3>1
    <3> QED
      BY <2>2, <3>1, <3>2
  <2>5. h[0] = now
    <3>1. h[0] = IF DecodeMessage(s) = {} THEN <<>> ELSE <<d.reply>> \o h[0 + d.used]
      BY <1>1, <2>3, Zenon DEF ReadsOn, d
    <3>2. DecodeMessage(s) # {} => h[0 + d.used] = f[d.used - 1]
      BY <1>3, <2>4, SMT
    <3> QED
      BY <3>1, <3>2, Zenon
  <2>6. ASSUME NEW n \in 0..Len(s) PROVE h[n] = g[n]
    <3>1. n = 0 \/ n \in 1..Len(s)
      BY <1>1, SMT
    <3> QED
      BY <1>4, <2>4, <2>5, <3>1
  <2> QED
    BY <1>5, <2>3, <2>6, Zenon
<1>9. ASSUME NEW n \in 0..Len(s) PROVE g[n] \in Seq(AnyReply)
  <2>1. CASE n = 0
    <3>1. CASE DecodeMessage(s) = {}
      <4>1. <<>> \in Seq(AnyReply)
        OBVIOUS
      <4> QED
        BY <1>4, <2>1, <3>1, <4>1
    <3>2. CASE DecodeMessage(s) # {}
      <4>1. d.used - 1 \in 0..Len(t)
        BY <1>1, <1>3, <3>2, SMT
      <4>2. f[d.used - 1] \in Seq(AnyReply)
        BY <1>2, <4>1
      <4>3. <<d.reply>> \o f[d.used - 1] \in Seq(AnyReply)
        BY <1>3, <3>2, <4>2, ReplyBefore
      <4> QED
        BY <1>4, <2>1, <3>2, <4>3
    <3> QED
      BY <3>1, <3>2
  <2>2. CASE n # 0
    <3>1. n - 1 \in 0..Len(t) /\ n \in 1..Len(s)
      BY <1>1, <2>2, SMT
    <3> QED
      BY <1>2, <1>4, <3>1
  <2> QED
    BY <2>1, <2>2
<1> QED
  BY <1>7, <1>8, <1>9, Zenon DEF ReadingOnly

\* and so of any bytes.
LEMMA ReadingExists ==
  \A s \in Seq(Byte) : \E f : ReadingOnly(f, s)
<1> DEFINE S == {k \in Nat : \A s \in Seq(Byte) : Len(s) = k => \E f : ReadingOnly(f, s)}
<1>1. 0 \in S
  <2>1. \A s \in Seq(Byte) : Len(s) = 0 => s = <<>>
    OBVIOUS
  <2> QED
    BY <2>1, ReadingEmpty
<1>2. ASSUME NEW k \in Nat, k \in S PROVE k + 1 \in S
  <2> SUFFICES ASSUME NEW s \in Seq(Byte), Len(s) = k + 1 PROVE \E f : ReadingOnly(f, s)
    OBVIOUS
  <2>1. s # <<>>
    BY SMT
  <2> DEFINE t == From(s, 1)
  <2>2. t \in Seq(Byte) /\ Len(t) = Len(s) - 1
    BY <2>1, FromFirst
  <2>3. Len(t) = k
    BY <2>2
  <2>4. \E f : ReadingOnly(f, t)
    <3> HIDE DEF t
    <3> QED
      BY <1>2, <2>2, <2>3
  <2> QED
    BY <2>1, <2>4, ReadingMore
<1> HIDE DEF S
<1>3. \A k \in Nat : k \in S
  BY <1>1, <1>2, Induction
<1>4. \A s \in Seq(Byte) : Len(s) \in Nat
  OBVIOUS
<1> QED
  BY <1>3, <1>4 DEF S

\* The one such function of s.
ReadingOf(s) == CHOOSE f : Reading(f, s)

\* Replies is the reading, from its first place.
LEMMA ReadingOfIs ==
  ASSUME NEW s \in Seq(Byte)
  PROVE  ReadingOnly(ReadingOf(s), s) /\ Replies(s) = ReadingOf(s)[0]
<1>1. PICK f : ReadingOnly(f, s)
  BY ReadingExists
<1>2. Reading(ReadingOf(s), s)
  BY <1>1, Zenon DEF ReadingOf, ReadingOnly
<1>3. ReadingOf(s) = f
  BY <1>1, <1>2, Zenon DEF ReadingOnly
<1>4. Replies(s) = ReadingOf(s)[0]
  BY Zenon DEF Replies, ReadingOf, Reading
<1> QED
  BY <1>1, <1>3, <1>4

\* At each place, it is the replies of what is left.
LEMMA ReadingShift ==
  \A n \in Nat : \A s \in Seq(Byte) : n \in 0..Len(s) => ReadingOf(s)[n] = Replies(From(s, n))
<1> DEFINE S == {n \in Nat : \A s \in Seq(Byte) :
                    n \in 0..Len(s) => ReadingOf(s)[n] = Replies(From(s, n))}
<1>1. 0 \in S
  <2>1. \A s \in Seq(Byte) : From(s, 0) = s
    BY SMT DEF From
  <2> QED
    BY <2>1, ReadingOfIs
<1>2. ASSUME NEW n \in Nat, n \in S PROVE n + 1 \in S
  <2> SUFFICES ASSUME NEW s \in Seq(Byte), n + 1 \in 0..Len(s)
               PROVE  ReadingOf(s)[n + 1] = Replies(From(s, n + 1))
    OBVIOUS
  <2> DEFINE t == From(s, 1)
             g == [i \in 0..Len(s)-1 |-> ReadingOf(s)[i + 1]]
  <2>1. s # <<>> /\ n \in 0..Len(s)-1
    BY SMT
  <2>2. t \in Seq(Byte) /\ Len(t) = Len(s) - 1 /\ From(t, n) = From(s, n + 1)
    BY <2>1, FromFirst
  <2>3. Reading(g, t)
    BY <2>1, ReadingOfIs, ReadingTail DEF ReadingOnly
  <2>4. ReadingOf(t) = g
    <3> HIDE DEF t, g
    <3>1. ReadingOnly(ReadingOf(t), t)
      BY <2>2, ReadingOfIs
    <3> QED
      BY <2>3, <3>1, Zenon DEF ReadingOnly
  <2>5. g[n] = ReadingOf(s)[n + 1]
    BY <2>1
  <2>6. ReadingOf(t)[n] = Replies(From(t, n))
    <3> HIDE DEF t
    <3> QED
      BY <1>2, <2>1, <2>2
  <2> QED
    BY <2>2, <2>4, <2>5, <2>6
<1> HIDE DEF S
<1>3. \A n \in Nat : n \in S
  BY <1>1, <1>2, Induction
<1> QED
  BY <1>3 DEF S

\* The replies to s are the first and those to what follows it.
LEMMA RepliesNext ==
  ASSUME NEW s \in Seq(Byte)
  PROVE  /\ DecodeMessage(s) = {} => Replies(s) = <<>>
         /\ DecodeMessage(s) # {} =>
               Replies(s) = <<FirstMessage(s).reply>> \o Replies(From(s, FirstMessage(s).used))
         /\ Replies(s) \in Seq(AnyReply)
<1>1. ReadingOnly(ReadingOf(s), s) /\ Replies(s) = ReadingOf(s)[0]
  BY ReadingOfIs
<1>2. 0 \in 0..Len(s) /\ From(s, 0) = s
  BY SMT DEF From
<1>3. ReadsOn(ReadingOf(s), s, 0) /\ Replies(s) \in Seq(AnyReply)
  BY <1>1, <1>2, ReadingAt DEF ReadingOnly
<1>4. ASSUME DecodeMessage(s) # {}
      PROVE  ReadingOf(s)[0 + FirstMessage(s).used] = Replies(From(s, FirstMessage(s).used))
  <2> DEFINE m == FirstMessage(s).used
  <2>1. m \in 1..Len(s)
    BY <1>4, FirstIs
  <2> HIDE DEF m
  <2>2. m \in Nat /\ m \in 0..Len(s) /\ 0 + m = m
    BY <2>1, SMT
  <2>3. ReadingOf(s)[0 + m] = Replies(From(s, m))
    BY <2>2, ReadingShift
  <2> QED
    BY <2>3 DEF m
<1> QED
  BY <1>1, <1>2, <1>3, <1>4, Zenon DEF ReadsOn

-----------------------------------------------------------------------------
(* Outputs that a reader reads to the end, and outputs it does not. *)

\* The bytes of a message that is read as r, whatever follows it.
IsMessage(m, r) ==
    /\ m \in Seq(Byte) /\ m # <<>>
    /\ \A x \in Seq(Byte) : DecodeMessage(m \o x) = {Decoded(r, Len(m))}

\* What comes next is read as if nothing came before it.
Live(t) == \A x \in Seq(Byte) : Replies(t \o x) = Replies(t) \o Replies(x)

\* The first bytes of what may come next.  A length of more than two bytes that is
\* left out leaves room for the first two of the answer to a hello.
Leads == {<<RESPONSE>>, <<ALERT>>} \cup (IF Capacity <= 255 THEN {<<HELLOHELLO>>} ELSE {})

\* What starts so.
Starts(x) == x # <<>> => <<x[1]>> \in Leads

\* Which bytes these are.
LEMMA LeadBytes ==
  /\ <<RESPONSE>> \in Leads /\ <<ALERT>> \in Leads
  /\ Capacity <= 255 => <<HELLOHELLO>> \in Leads
  /\ \A p \in Leads : p \in Seq(Byte) /\ Len(p) = 1 /\ p # <<>> /\ p = <<p[1]>>
<1>1. Leads \subseteq {<<HELLOHELLO>>, <<RESPONSE>>, <<ALERT>>}
  BY DEF Leads
<1>2. \A b \in {HELLOHELLO, RESPONSE, ALERT} : <<b>> \in Seq(Byte) /\ Len(<<b>>) = 1 /\ <<b>> # <<>>
                                             /\ <<b>>[1] = b
  BY ByteSeqs
<1>4. \A p \in Leads : p \in Seq(Byte) /\ Len(p) = 1 /\ p # <<>> /\ p = <<p[1]>>
  BY <1>1, <1>2
<1>5. /\ <<RESPONSE>> \in Leads /\ <<ALERT>> \in Leads
      /\ Capacity <= 255 => <<HELLOHELLO>> \in Leads
  BY DEF Leads
<1> QED
  BY <1>4, <1>5

\* What a sequence of one such byte is.
LEMMA LeadByte ==
  ASSUME NEW c, <<c>> \in Leads
  PROVE  /\ c \in {HELLOHELLO, RESPONSE, ALERT}
         /\ ~(Capacity <= 255) => c \in {RESPONSE, ALERT}
<1>1. \A b : <<b>> = <<c>> => b = c
  OBVIOUS
<1>2. <<c>> = <<HELLOHELLO>> \/ <<c>> = <<RESPONSE>> \/ <<c>> = <<ALERT>>
  BY DEF Leads
<1>3. ~(Capacity <= 255) => <<c>> = <<RESPONSE>> \/ <<c>> = <<ALERT>>
  BY DEF Leads
<1> QED
  BY <1>1, <1>2, <1>3

\* Nothing that comes next, and fits, is read.
Dead(t) ==
    /\ TxSize - Len(t) < Longest
    /\ \A x \in Seq(Byte) :
          Len(x) <= TxSize - Len(t) /\ Starts(x) => Replies(t \o x) = Replies(t)

\* Nothing before, or behind.
LEMMA EmptyConcat ==
  /\ \A x \in Seq(Byte) : <<>> \o x = x /\ x \o <<>> = x
  /\ \A x \in Seq(AnyReply) : <<>> \o x = x /\ x \o <<>> = x
  /\ <<>> \in Seq(Byte) /\ <<>> \in Seq(AnyReply) /\ Len(<<>>) = 0
  OBVIOUS

\* Nothing is read of nothing.
LEMMA NothingRead == DecodeUint(<<>>) = {} /\ DecodeMessage(<<>>) = {} /\ Replies(<<>>) = <<>>
<1>1. DecodeUint(<<>>) = {}
  BY DEF DecodeUint, GetVarint, Refused
<1>2. DecodeMessage(<<>>) = {}
  BY <1>1 DEF DecodeMessage
<1> QED
  BY <1>1, <1>2, RepliesNext, EmptyConcat

\* An empty output is alive.
LEMMA LiveEmpty == Live(<<>>)
<1> SUFFICES ASSUME NEW x \in Seq(Byte) PROVE Replies(<<>> \o x) = Replies(<<>>) \o Replies(x)
  BY DEF Live
<1> QED
  BY NothingRead, EmptyConcat, RepliesNext

\* A message, and what follows it.
LEMMA MessageRead ==
  ASSUME NEW m, NEW r, IsMessage(m, r), NEW x \in Seq(Byte)
  PROVE  /\ Replies(m \o x) = <<r>> \o Replies(x)
         /\ Replies(m) = <<r>> /\ r \in AnyReply
<1>1. m \in Seq(Byte) /\ m # <<>>
  BY DEF IsMessage
<1>2. ASSUME NEW y \in Seq(Byte)
      PROVE  Replies(m \o y) = <<r>> \o Replies(y) /\ r \in AnyReply
  <2>1. DecodeMessage(m \o y) = {Decoded(r, Len(m))}
    BY DEF IsMessage
  <2>2. FirstMessage(m \o y) = Decoded(r, Len(m))
    BY <2>1 DEF FirstMessage
  <2>3. FirstMessage(m \o y).reply = r /\ FirstMessage(m \o y).used = Len(m)
    BY <2>2 DEF Decoded
  <2>4. m \o y \in Seq(Byte) /\ From(m \o y, Len(m)) = y
    BY <1>1, FromAfter, ConcatAt
  <2>5. r \in AnyReply
    BY <2>1, <2>3, <2>4, FirstIs
  <2> QED
    BY <2>1, <2>3, <2>4, <2>5, RepliesNext
<1>3. Replies(m) = <<r>> \o Replies(<<>>)
  BY <1>1, <1>2, EmptyConcat
<1>4. <<r>> \o <<>> = <<r>>
  OBVIOUS
<1> QED
  BY <1>2, <1>3, <1>4, NothingRead

\* Of three, any two may be joined first.
LEMMA AssocReplies ==
  ASSUME NEW a \in Seq(AnyReply), NEW r \in AnyReply, NEW b \in Seq(AnyReply)
  PROVE  (a \o <<r>>) \o b = a \o (<<r>> \o b)
  BY SMTT(30)

\* A whole message keeps an output alive.
LEMMA LiveMessage ==
  ASSUME NEW t \in Seq(Byte), Live(t), NEW m, NEW r, IsMessage(m, r)
  PROVE  Live(t \o m) /\ Replies(t \o m) = Append(Replies(t), r)
<1>1. m \in Seq(Byte)
  BY DEF IsMessage
<1>2. Replies(m) = <<r>> /\ r \in AnyReply
  BY MessageRead, EmptyConcat
<1>3. Replies(t \o m) = Replies(t) \o <<r>>
  BY <1>1, <1>2 DEF Live
<1>4. Replies(t) \in Seq(AnyReply)
  BY RepliesNext
<1>5. Replies(t \o m) = Append(Replies(t), r)
  BY <1>2, <1>3, <1>4
<1>6. ASSUME NEW x \in Seq(Byte) PROVE Replies((t \o m) \o x) = Replies(t \o m) \o Replies(x)
  <2>1. (t \o m) \o x = t \o (m \o x) /\ m \o x \in Seq(Byte)
    BY <1>1, Assoc, ConcatAt
  <2>2. Replies(t \o (m \o x)) = Replies(t) \o (<<r>> \o Replies(x))
    BY <2>1, MessageRead DEF Live
  <2>3. Replies(x) \in Seq(AnyReply)
    BY RepliesNext
  <2>4. (Replies(t) \o <<r>>) \o Replies(x) = Replies(t) \o (<<r>> \o Replies(x))
    BY <1>2, <1>4, <2>3, AssocReplies
  <2> QED
    BY <1>3, <2>1, <2>2, <2>4
<1> QED
  BY <1>5, <1>6 DEF Live

\* The first part p of a message of which no more than n bytes can follow.
Stuck(p, n) ==
    \A x \in Seq(Byte) : Len(x) <= n /\ Starts(x) => DecodeMessage(p \o x) = {}

\* A message that is cut ends what can be read.
LEMMA LiveCut ==
  ASSUME NEW t \in Seq(Byte), Live(t), NEW p \in Seq(Byte), NEW n, n = TxSize - Len(t \o p),
         n >= 0, Stuck(p, n), n < Longest
  PROVE  Dead(t \o p) /\ Replies(t \o p) = Replies(t)
<1>1. ASSUME NEW x \in Seq(Byte), Len(x) <= n, Starts(x)
      PROVE  Replies((t \o p) \o x) = Replies(t)
  <2>1. p \o x \in Seq(Byte) /\ (t \o p) \o x = t \o (p \o x)
    BY Assoc, ConcatAt
  <2>2. DecodeMessage(p \o x) = {}
    BY <1>1 DEF Stuck
  <2>3. Replies(p \o x) = <<>>
    BY <2>1, <2>2, RepliesNext
  <2>4. Replies(t \o (p \o x)) = Replies(t) \o <<>>
    BY <2>1, <2>3 DEF Live
  <2> QED
    BY <2>1, <2>4, RepliesNext, EmptyConcat
<1>2. Replies(t \o p) = Replies(t)
  <2>1. (t \o p) \o <<>> = t \o p /\ Starts(<<>>)
    BY ConcatAt, EmptyConcat DEF Starts
  <2>2. Len(<<>>) <= n /\ <<>> \in Seq(Byte)
    BY EmptyConcat
  <2>3. Replies((t \o p) \o <<>>) = Replies(t)
    BY <1>1, <2>1, <2>2
  <2> QED
    BY <2>1, <2>3
<1> QED
  BY <1>1, <1>2 DEF Dead

\* An answer is no longer than the longest.
LEMMA LongestIs ==
  /\ Longest \in Nat /\ Longest >= 13
  /\ Longest >= 5 + Len(CUint(Capacity)) + Capacity
<1> DEFINE l == Len(CUint(Capacity))
           n == 1 + l + Capacity
<1>1. l \in 1..5 /\ Capacity \in Nat
  <2>1. Capacity \in Nat /\ "c" \in Ends
    BY SizeAssumption DEF Ends
  <2> QED
    BY <2>1, CUintType, Zenon DEF CUint
<1> HIDE DEF l
<1>2. n \in Nat /\ 9 \in Nat /\ n = 1 + l + Capacity
  BY <1>1, SMT
<1> DEFINE T == {9, n}
           b == 9 + n
<1>3. b \in Nat /\ T \subseteq 0..b /\ T # {}
  <2> HIDE DEF n
  <2> QED
    BY <1>2, SMT
<1> HIDE DEF T, b
<1>4. Max(T) \in T /\ \A x \in T : x <= Max(T)
  BY <1>3, MaxOf
<1>5. Longest = 4 + Max(T)
  BY Zenon DEF Longest, T, n, l
<1> DEFINE x == Max(T)
<1>6. x \in {9, n} /\ 9 <= x /\ n <= x
  BY <1>4 DEF T
<1> HIDE DEF x, n
<1>7. 4 + x \in Nat /\ 4 + x >= 13 /\ 4 + x >= 5 + l + Capacity
  BY <1>1, <1>2, <1>6, SMT
<1> QED
  BY <1>5, <1>7 DEF x, l

\* Nothing brings it back.
LEMMA DeadMore ==
  ASSUME NEW t \in Seq(Byte), Dead(t), NEW y \in Seq(Byte), Starts(y), Len(y) <= TxSize - Len(t)
  PROVE  Dead(t \o y) /\ Replies(t \o y) = Replies(t)
<1>1. Replies(t \o y) = Replies(t)
  BY DEF Dead
<1> DEFINE n == TxSize - Len(t)
           m == TxSize - Len(t \o y)
<1>2. m = n - Len(y) /\ Len(y) \in Nat /\ n \in Int /\ Longest \in Int
  <2>1. Len(t \o y) = Len(t) + Len(y) /\ Len(t) \in Nat /\ Len(y) \in Nat
    BY ConcatAt
  <2> QED
    BY <2>1, LongestIs, SizeAssumption
<1>3. m < Longest
  <2>1. n < Longest
    BY DEF Dead
  <2> HIDE DEF m, n
  <2> QED
    BY <1>2, <2>1, SMT
<1>4. ASSUME NEW x \in Seq(Byte), Len(x) <= m, Starts(x)
      PROVE  Replies((t \o y) \o x) = Replies(t \o y)
  <2>1. y \o x \in Seq(Byte) /\ (t \o y) \o x = t \o (y \o x) /\ Len(y \o x) = Len(y) + Len(x)
        /\ Len(x) \in Nat
    BY Assoc, ConcatAt, ZenonT(60)
  <2>2. Len(y \o x) <= n
    <3> HIDE DEF m, n
    <3> QED
      BY <1>2, <1>4, <2>1, SMT
  <2>3. Starts(y \o x)
    <3>1. CASE y = <<>>
      BY <1>4, <3>1, EmptyConcat
    <3>2. CASE y # <<>>
      <4>1. 1 \in 1..Len(y)
        BY <3>2, SMT
      <4>2. (y \o x)[1] = y[1]
        BY <4>1, ConcatAt
      <4> QED
        BY <3>2, <4>2 DEF Starts
    <3> QED
      BY <3>1, <3>2
  <2> QED
    BY <1>1, <2>1, <2>2, <2>3 DEF Dead
<1> QED
  BY <1>1, <1>3, <1>4 DEF Dead

-----------------------------------------------------------------------------
(* Writing an answer piece by piece. *)

\* The first piece.
LEMMA FlatFirstOne ==
  ASSUME NEW ps \in Seq(Seq(Byte)), ps # <<>>
  PROVE  Flat(ps, 1) = ps[1] /\ ps[1] \in Seq(Byte)
<1> DEFINE n == 0
           m == n + 1
<1>1. n \in 0..Len(ps)-1 /\ m = 1 /\ 1 \in 1..Len(ps)
  BY SMT
<1>2. Flat(ps, 0) = <<>>
  BY FlatStep
<1>3. n = 0
  OBVIOUS
<1> HIDE DEF n
<1>4. Flat(ps, m) = Flat(ps, n) \o ps[m]
  BY <1>1, FlatStep
<1> HIDE DEF m
<1>5. Flat(ps, 1) = <<>> \o ps[1]
  BY <1>1, <1>2, <1>3, <1>4
<1>6. ps[1] \in Seq(Byte)
  BY <1>1
<1> QED
  BY <1>5, <1>6, EmptyConcat

\* Pieces are the first of them and the others.
LEMMA PiecesApart ==
  ASSUME NEW ps \in Seq(Seq(Byte)), NEW j \in 0..Len(ps)
  PROVE  \E as, bs \in Seq(Seq(Byte)) :
            ps = as \o bs /\ Len(as) = j /\ Len(bs) = Len(ps) - j /\ as = SubSeq(ps, 1, j)
<1> DEFINE n == Len(ps)
           as == SubSeq(ps, 1, j)
           bs == SubSeq(ps, j + 1, n)
           P  == Seq(Byte)
<1>1. ps \in Seq(P) /\ n \in Nat /\ j \in Nat /\ j <= n /\ SubSeq(ps, 1, n) = ps
  BY SMT
<1>2. as \in Seq(P) /\ Len(as) = j
  BY FlatFirst
<1>3. \A i \in (j+1)..n : ps[i] \in P
  BY SMT
<1> HIDE DEF P, n
<1>4. bs \in Seq(P) /\ Len(bs) = IF j + 1 <= n THEN n - (j + 1) + 1 ELSE 0
  <2>1. j + 1 \in Int /\ n \in Int
    BY <1>1
  <2> QED
    BY <1>3, <2>1, SubSeqProperties
<1>5. as \o bs = ps
  <2>1. 1 \in 1..n+1 /\ j \in 1-1..n /\ n \in j..n
    BY <1>1, SMT
  <2>2. SubSeq(ps, 1, j) \o SubSeq(ps, j + 1, n) = SubSeq(ps, 1, n)
    BY <1>1, <2>1, ConcatAdjacentSubSeq DEF n
  <2> QED
    BY <1>1, <2>2
<1> HIDE DEF as, bs
<1>6. Len(bs) = n - j
  BY <1>1, <1>4, SMT
<1>7. as = SubSeq(ps, 1, j)
  BY DEF as
<1> QED
  BY <1>2, <1>4, <1>5, <1>6, <1>7 DEF P, n

\* Some of the pieces, one behind the other, start what more of them make.
LEMMA FlatGrows ==
  ASSUME NEW ps \in Seq(Seq(Byte)), NEW j \in 0..Len(ps), NEW k \in j..Len(ps)
  PROVE  \E z \in Seq(Byte) : Flat(ps, k) = Flat(ps, j) \o z
<1> DEFINE i == k - j
<1>1. PICK as, bs \in Seq(Seq(Byte)) :
         ps = as \o bs /\ Len(as) = j /\ Len(bs) = Len(ps) - j /\ as = SubSeq(ps, 1, j)
  BY PiecesApart
<1> DEFINE n == Len(bs)
<1>2. i \in 0..n /\ j + i = k
  <2>1. n = Len(ps) - j
    BY <1>1
  <2> HIDE DEF n
  <2> QED
    BY <2>1, SMT
<1>3. FlattenSeq(as) = Flat(ps, j)
  BY <1>1 DEF Flat
<1> HIDE DEF i
<1>4. Flat(as \o bs, Len(as) + i) = FlattenSeq(as) \o Flat(bs, i)
  BY <1>1, <1>2, FlatConcat
<1>5. Flat(bs, i) \in Seq(Byte)
  BY <1>1, <1>2, FlatType
<1> QED
  BY <1>1, <1>2, <1>3, <1>4, <1>5

\* u is t and the first k of the pieces, and the next does not fit.
CutAt(t, ps, u, k) ==
    /\ k \in 0..Len(ps)
    /\ u = t \o Flat(ps, k)
    /\ Len(Flat(ps, k)) <= TxSize - Len(t)
    /\ k # Len(ps) => TxSize - Len(u) < Len(ps[k + 1])

\* u is t and the first of the pieces, as many as fit.
Cut(t, ps, u) == \E k : CutAt(t, ps, u, k)

\* How much room is left.
LEMMA RoomLeft ==
  ASSUME NEW t \in Seq(Byte), NEW y \in Seq(Byte)
  PROVE  /\ TxSize - Len(t \o y) = (TxSize - Len(t)) - Len(y)
         /\ TxSize - Len(t) \in Int /\ Len(y) \in Nat /\ t \o y \in Seq(Byte)
<1>1. Len(t \o y) = Len(t) + Len(y) /\ Len(t) \in Nat /\ Len(y) \in Nat /\ t \o y \in Seq(Byte)
  BY ConcatAt
<1> QED
  BY <1>1, SizeAssumption

\* WrittenAll writes so,
LEMMA CutOf ==
  ASSUME NEW t, Output(t), NEW ps \in Seq(Seq(Byte))
  PROVE  Cut(t, ps, WrittenAll(t, ps))
<1> DEFINE u == WrittenAll(t, ps)
<1>1. PICK k \in 0..Len(ps) : WrittenTo(u, t, ps, k)
  BY WrittenAllTo
<1> HIDE DEF u
<1> DEFINE y == Flat(ps, k)
           n == TxSize - Len(t)
<1>2. u = t \o y /\ Len(y) <= n /\ y \in Seq(Byte) /\ t \in Seq(Byte)
  BY <1>1, FlatType DEF WrittenTo, Output
<1>3. ASSUME k # Len(ps) PROVE TxSize - Len(u) < Len(ps[k + 1])
  <2>1. k + 1 \in 0..Len(ps) /\ k \in 0..Len(ps)-1 /\ ~(k + 1 <= k) /\ k + 1 \in 1..Len(ps)
    BY <1>3, SMT
  <2>2. Flat(ps, k + 1) = y \o ps[k + 1]
    BY <2>1, FlatStep
  <2>3. ps[k + 1] \in Seq(Byte)
    BY <2>1
  <2>4. ~(Len(Flat(ps, k + 1)) <= n)
    BY <1>1, <2>1 DEF WrittenTo
  <2> DEFINE a == Len(y)
             b == Len(ps[k + 1])
  <2>5. Len(y \o ps[k + 1]) = a + b /\ a \in Nat /\ b \in Nat
    <3> HIDE DEF y
    <3> QED
      BY <1>2, <2>3, ConcatAt
  <2>6. TxSize - Len(u) = n - a /\ n \in Int
    BY <1>2, RoomLeft
  <2>7. ~(a + b <= n)
    BY <2>2, <2>4, <2>5
  <2> HIDE DEF a, b, n
  <2>8. n - a < b
    BY <2>5, <2>6, <2>7, SMT
  <2> QED
    BY <2>6, <2>8 DEF b
<1> QED
  BY <1>2, <1>3, Zenon DEF Cut, CutAt, u

\* A single write is one piece.
LEMMA CutWritten ==
  ASSUME NEW t, Output(t), NEW s \in Seq(Byte)
  PROVE  Cut(t, <<s>>, Written(t, s))
<1>1. <<s>> \in Seq(Seq(Byte)) /\ Len(<<s>>) = 1 /\ FlattenSeq(<<s>>) = s /\ <<s>>[1] = s
  BY FlatOne
<1>2. Flat(<<s>>, 0) = <<>> /\ Flat(<<s>>, 1) = s
  BY <1>1, FlatStep
<1>3. t \in Seq(Byte) /\ t \o <<>> = t /\ Len(t) <= TxSize
  BY EmptyConcat DEF Output
<1>4. CASE TxSize - Len(t) >= Len(s)
  <2>1. Written(t, s) = t \o s /\ Len(s) <= TxSize - Len(t)
    <3>1. Len(s) \in Nat /\ TxSize - Len(t) \in Int
      BY <1>3, RoomLeft
    <3>2. Written(t, s) = t \o s
      BY <1>4 DEF Written
    <3> QED
      BY <1>4, <3>1, <3>2
  <2>2. CutAt(t, <<s>>, Written(t, s), 1)
    BY <1>1, <1>2, <2>1, SMT DEF CutAt
  <2> QED
    BY <2>2, Zenon DEF Cut
<1>5. CASE ~(TxSize - Len(t) >= Len(s))
  <2>1. Written(t, s) = t
    BY <1>5 DEF Written
  <2>2. TxSize - Len(t) < Len(s) /\ Len(<<>>) <= TxSize - Len(t)
    <3>1. Len(s) \in Nat /\ TxSize - Len(t) \in Int
      BY <1>3, RoomLeft
    <3>2. Len(t) \in Nat /\ TxSize \in Nat /\ Len(<<>>) = 0
      BY <1>3, SizeAssumption
    <3> QED
      BY <1>3, <1>5, <3>1, <3>2, SMT
  <2>3. 0 \in 0..1 /\ 0 + 1 = 1 /\ 0 # 1
    OBVIOUS
  <2>4. CutAt(t, <<s>>, Written(t, s), 0)
    BY <1>1, <1>2, <1>3, <2>1, <2>2, <2>3 DEF CutAt
  <2> QED
    BY <2>4, Zenon DEF Cut
<1> QED
  BY <1>4, <1>5

\* Every piece is a byte.
Singles(ps) == \A i \in 1..Len(ps) : Len(ps[i]) = 1

\* Pieces that are written after single bytes are written with them.
LEMMA CutJoin ==
  ASSUME NEW t \in Seq(Byte), Len(t) <= TxSize, NEW ps \in Seq(Seq(Byte)), Singles(ps), NEW u, Cut(t, ps, u),
         NEW qs \in Seq(Seq(Byte)), qs # <<>>, qs[1] # <<>>, NEW w, Cut(u, qs, w)
  PROVE  Cut(t, ps \o qs, w)
<1>1. PICK k : CutAt(t, ps, u, k)
  BY DEF Cut
<1>2. PICK l : CutAt(u, qs, w, l)
  BY DEF Cut
<1> DEFINE rs == ps \o qs
           a == Len(ps)
           b == Len(qs)
<1>3. rs \in Seq(Seq(Byte)) /\ Len(rs) = a + b /\ a \in Nat /\ b \in Nat /\ b >= 1
      /\ (\A i \in 1..a : rs[i] = ps[i]) /\ (\A i \in 1..b : rs[a + i] = qs[i])
  BY SMTT(30)
<1>4. /\ \A i \in 0..a : Flat(rs, i) = Flat(ps, i)
      /\ \A i \in 0..b : Flat(rs, a + i) = FlattenSeq(ps) \o Flat(qs, i)
  BY FlatConcat
<1> HIDE DEF rs
<1>5. k \in 0..a /\ u = t \o Flat(ps, k) /\ Len(Flat(ps, k)) <= TxSize - Len(t) /\ k \in Nat
  BY <1>1, <1>3 DEF CutAt
<1>6. l \in 0..b /\ w = u \o Flat(qs, l) /\ Len(Flat(qs, l)) <= TxSize - Len(u) /\ l \in Nat
  BY <1>2, <1>3 DEF CutAt
<1>7. Flat(ps, k) \in Seq(Byte) /\ Flat(qs, l) \in Seq(Byte)
  BY <1>5, <1>6, FlatType
<1>8. u \in Seq(Byte)
  BY <1>5, <1>7, ConcatAt
<1>9. CASE k = a
  <2>1. Flat(ps, k) = FlattenSeq(ps)
    BY <1>9, FlatStep
  <2> DEFINE y == Flat(ps, k)
             z == Flat(qs, l)
  <2>2. Flat(rs, a + l) = y \o z
    BY <1>4, <1>6, <2>1
  <2>3. w = t \o (y \o z) /\ y \o z \in Seq(Byte) /\ Len(y \o z) = Len(y) + Len(z)
    BY <1>5, <1>6, <1>7, Assoc, ConcatAt
  <2>4. Len(y \o z) <= TxSize - Len(t)
    <3> DEFINE n == TxSize - Len(t)
               i == Len(y)
               j == Len(z)
    <3>1. TxSize - Len(u) = n - i /\ n \in Int /\ i \in Nat /\ j \in Nat
      <4>1. TxSize - Len(u) = n - i /\ n \in Int /\ i \in Nat
        BY <1>5, <1>7, RoomLeft
      <4>2. j \in Nat
        BY <1>7
      <4> QED
        BY <4>1, <4>2
    <3>2. j <= TxSize - Len(u)
      BY <1>6
    <3>3. Len(y \o z) = i + j
      BY <2>3
    <3> HIDE DEF n, i, j
    <3>4. i + j <= n
      BY <3>1, <3>2, SMT
    <3> QED
      BY <3>3, <3>4 DEF n
  <2>5. ASSUME a + l # Len(rs) PROVE TxSize - Len(w) < Len(rs[(a + l) + 1])
    <3>1. l # b /\ l + 1 \in 1..b /\ (a + l) + 1 = a + (l + 1)
      <4>1. Len(rs) = a + b /\ a \in Nat /\ b \in Nat /\ l \in 0..b
        BY <1>3, <1>6
      <4> DEFINE c == Len(rs)
      <4>2. a + l # c /\ c = a + b
        BY <2>5, <4>1
      <4> HIDE DEF a, b, c
      <4> QED
        BY <4>1, <4>2, SMT
    <3>2. rs[a + (l + 1)] = qs[l + 1]
      BY <1>3, <3>1
    <3>3. TxSize - Len(w) < Len(qs[l + 1])
      BY <1>2, <3>1 DEF CutAt
    <3> QED
      BY <3>1, <3>2, <3>3
  <2>6. a + l \in 0..Len(rs)
    BY <1>3, <1>6, SMT
  <2> DEFINE m == a + l
  <2>7. Flat(rs, m) = y \o z /\ m \in 0..Len(rs) /\ (m # Len(rs) => TxSize - Len(w) < Len(rs[m + 1]))
    BY <2>2, <2>5, <2>6
  <2> HIDE DEF m, y, z
  <2>8. CutAt(t, rs, w, m)
    BY <2>3, <2>4, <2>7, Zenon DEF CutAt
  <2> QED
    BY <2>8, Zenon DEF Cut, rs
<1>10. CASE k # a
  <2>1. k + 1 \in 1..a /\ k \in 0..Len(rs) /\ k # Len(rs)
    <3>1. Len(rs) = a + b /\ a \in Nat /\ b \in Nat /\ b >= 1 /\ k \in 0..a
      BY <1>3, <1>5
    <3> DEFINE c == Len(rs)
    <3>2. c = a + b /\ k # a
      BY <1>10, <3>1
    <3> HIDE DEF a, b, c
    <3>3. k + 1 \in 1..a /\ k \in 0..c /\ k # c
      BY <3>1, <3>2, SMT
    <3> QED
      BY <3>3 DEF c
  <2>2. TxSize - Len(u) < 1
    BY <1>1, <1>10, <2>1 DEF CutAt, Singles
  <2>3. l = 0
    <3> SUFFICES ASSUME l # 0 PROVE FALSE
      OBVIOUS
    <3>1. 1 \in 0..b /\ l \in 1..Len(qs) /\ 0 \in 0..Len(qs)-1
      BY <1>3, <1>6, SMT
    <3>2. PICK z \in Seq(Byte) : Flat(qs, l) = Flat(qs, 1) \o z
      BY <3>1, FlatGrows
    <3>3. qs[1] \in Seq(Byte)
      BY <3>1
    <3>4. Flat(qs, 1) = qs[1]
      BY FlatFirstOne
    <3> DEFINE i == Len(qs[1])
               j == Len(z)
               n == TxSize - Len(u)
    <3>5. Len(Flat(qs, l)) = i + j /\ j \in Nat
      <4> DEFINE e == qs[1]
      <4>1. Flat(qs, l) = e \o z /\ e \in Seq(Byte)
        BY <3>2, <3>3, <3>4
      <4> HIDE DEF e
      <4>2. Len(e \o z) = Len(e) + Len(z) /\ Len(z) \in Nat
        BY <4>1, ConcatAt
      <4> QED
        BY <4>1, <4>2 DEF e
    <3>6. i \in Nat /\ i >= 1
      BY <3>3
    <3>7. i + j <= n /\ n < 1 /\ n \in Int
      BY <1>6, <1>8, <2>2, <3>5, RoomLeft
    <3> HIDE DEF i, j, n
    <3> QED
      BY <3>5, <3>6, <3>7, SMT
  <2>4. w = u
    <3>1. Flat(qs, l) = <<>>
      BY <2>3, FlatStep
    <3> QED
      BY <1>6, <1>8, <3>1, EmptyConcat
  <2>5. Flat(rs, k) = Flat(ps, k) /\ rs[k + 1] = ps[k + 1] /\ Len(ps[k + 1]) = 1
    BY <1>3, <1>4, <1>5, <2>1 DEF Singles
  <2>6. CutAt(t, rs, w, k)
    BY <1>5, <2>1, <2>2, <2>4, <2>5 DEF CutAt
  <2> QED
    BY <2>6, Zenon DEF Cut, rs
<1> QED
  BY <1>9, <1>10

-----------------------------------------------------------------------------
(* Answers. *)

\* The pieces of a message that is read as r, and as nothing until the last of
\* them is there.
IsWhole(ps, r) ==
    /\ ps \in Seq(Seq(Byte)) /\ ps # <<>>
    /\ IsMessage(FlattenSeq(ps), r)
    /\ Len(FlattenSeq(ps)) <= Longest
    /\ \A k \in 0..Len(ps)-1 : \A x \in Seq(Byte) :
          Len(x) < Len(ps[k + 1]) /\ Starts(x) => DecodeMessage(Flat(ps, k) \o x) = {}

\* Such pieces that may follow anything.
IsAnswer(ps, r) == IsWhole(ps, r) /\ ps[1] \in Leads

\* A reader knows where its messages end, or makes nothing of what comes next.
Readable(t) == Live(t) \/ Dead(t)

\* From t to u a reply was added, or left out for want of room.
Answered(t, u, r) ==
    /\ Readable(u)
    /\ \/ Replies(u) = Append(Replies(t), r)
       \/ TxSize - Len(t) < Longest /\ Replies(u) = Replies(t)

\* What the first pieces of an answer start with.
LEMMA AnswerStarts ==
  ASSUME NEW ps, NEW r, IsAnswer(ps, r), NEW k \in 0..Len(ps)
  PROVE  Starts(Flat(ps, k)) /\ Flat(ps, k) \in Seq(Byte)
<1>1. ps \in Seq(Seq(Byte)) /\ ps # <<>> /\ ps[1] \in Leads
  BY DEF IsAnswer, IsWhole
<1>2. Flat(ps, k) \in Seq(Byte)
  BY <1>1, FlatType
<1>3. Flat(ps, 0) = <<>>
  BY <1>1, FlatStep
<1>4. CASE k = 0
  BY <1>2, <1>3, <1>4 DEF Starts
<1>5. CASE k # 0
  <2>1. 1 \in 0..Len(ps) /\ k \in 1..Len(ps) /\ 0 \in 0..Len(ps)-1
    BY <1>1, <1>5, SMT
  <2>2. PICK z \in Seq(Byte) : Flat(ps, k) = Flat(ps, 1) \o z
    BY <1>1, <2>1, FlatGrows
  <2>3. ps[1] \in Seq(Byte)
    BY <1>1, <2>1
  <2>4. Flat(ps, 1) = ps[1]
    BY <1>1, FlatFirstOne
  <2>5. Len(ps[1]) = 1 /\ <<ps[1][1]>> \in Leads
    BY <1>1, LeadBytes
  <2>6. (ps[1] \o z)[1] = ps[1][1]
    <3>1. 1 \in 1..Len(ps[1])
      BY <2>5
    <3> QED
      BY <2>3, <3>1, ConcatAt
  <2> QED
    BY <1>2, <2>2, <2>4, <2>5, <2>6 DEF Starts
<1> QED
  BY <1>4, <1>5

\* Whatever of an answer is written, a reader reads it, or nothing and nothing more.
LEMMA Answers ==
  ASSUME NEW t, Output(t), Readable(t), NEW ps, NEW r, IsWhole(ps, r), Live(t) \/ ps[1] \in Leads,
         NEW u, Cut(t, ps, u)
  PROVE  Answered(t, u, r)
<1>1. PICK k : CutAt(t, ps, u, k)
  BY DEF Cut
<1> DEFINE y == Flat(ps, k)
           n == TxSize - Len(t)
           m == TxSize - Len(u)
<1>2. k \in 0..Len(ps) /\ u = t \o y /\ Len(y) <= n
  BY <1>1 DEF CutAt
<1>3. y \in Seq(Byte) /\ (ps[1] \in Leads => Starts(y))
  <2>1. ps \in Seq(Seq(Byte))
    BY DEF IsWhole
  <2> QED
    BY <1>2, <2>1, FlatType, AnswerStarts DEF IsAnswer
<1>4. t \in Seq(Byte) /\ m = n - Len(y) /\ n \in Int /\ Len(y) \in Nat
  BY <1>2, <1>3, RoomLeft DEF Output
<1>5. CASE Dead(t) /\ ps[1] \in Leads
  BY <1>2, <1>3, <1>4, <1>5, DeadMore DEF Answered, Readable, Dead
<1>6. CASE Live(t) /\ k = Len(ps)
  <2>1. y = FlattenSeq(ps) /\ IsMessage(y, r)
    BY <1>6, FlatStep DEF IsWhole
  <2> HIDE DEF y
  <2> QED
    BY <1>2, <1>4, <1>6, <2>1, LiveMessage DEF Answered, Readable
<1>7. CASE Live(t) /\ k # Len(ps)
  <2>1. k \in 0..Len(ps)-1 /\ k + 1 \in 0..Len(ps) /\ k + 1 \in 1..Len(ps)
        /\ Len(ps) \in (k+1)..Len(ps) /\ ps \in Seq(Seq(Byte))
    <3>1. ps \in Seq(Seq(Byte))
      BY DEF IsWhole
    <3> QED
      BY <1>2, <1>7, <3>1, SMT
  <2>2. m < Len(ps[k + 1])
    BY <1>1, <1>7 DEF CutAt
  <2>3. ps[k + 1] \in Seq(Byte) /\ Flat(ps, k + 1) = y \o ps[k + 1] /\ Flat(ps, k + 1) \in Seq(Byte)
        /\ Flat(ps, Len(ps)) = FlattenSeq(ps)
    BY <2>1, FlatStep, FlatType
  <2>4. PICK z \in Seq(Byte) : FlattenSeq(ps) = Flat(ps, k + 1) \o z
    BY <2>1, <2>3, FlatGrows
  <2> DEFINE a == Len(y)
             b == Len(ps[k + 1])
             c == Len(z)
             l == Len(FlattenSeq(ps))
  <2>5. l = (a + b) + c /\ a \in Nat /\ b \in Nat /\ c \in Nat
    <3>1. Len(y \o ps[k + 1]) = a + b /\ a \in Nat /\ b \in Nat
      <4> HIDE DEF y
      <4> QED
        BY <1>3, <2>3, ConcatAt
    <3>2. Len(Flat(ps, k + 1) \o z) = Len(Flat(ps, k + 1)) + c /\ c \in Nat
      BY <2>3, ConcatAt
    <3> QED
      BY <2>3, <2>4, <3>1, <3>2
  <2>6. l <= Longest /\ Longest \in Nat
    BY LongestIs DEF IsWhole
  <2>7. m = n - a /\ n \in Int /\ m < b /\ a <= n
    BY <1>2, <1>4, <2>2
  <2>8. m < Longest /\ n < Longest /\ m >= 0
    <3> HIDE DEF m, n, a, b, c, l
    <3> QED
      BY <2>5, <2>6, <2>7, SMT
  <2>9. Stuck(y, m)
    <3> SUFFICES ASSUME NEW x \in Seq(Byte), Len(x) <= m, Starts(x)
                 PROVE  DecodeMessage(y \o x) = {}
      BY DEF Stuck
    <3>1. Len(x) < Len(ps[k + 1])
      <4>1. Len(x) \in Nat /\ m \in Int
        BY <2>5, <2>7
      <4>2. b = Len(ps[k + 1])
        OBVIOUS
      <4> HIDE DEF m, b
      <4>3. Len(x) < b
        BY <2>5, <2>7, <4>1, SMT
      <4> QED
        BY <4>2, <4>3
    <3> QED
      BY <2>1, <3>1 DEF IsWhole
  <2>10. m = TxSize - Len(t \o y)
    BY <1>2
  <2>11. Dead(t \o y) /\ Replies(t \o y) = Replies(t)
    <3> HIDE DEF y, m
    <3> QED
      BY <1>3, <1>4, <1>7, <2>8, <2>9, <2>10, LiveCut
  <2> QED
    BY <1>2, <2>8, <2>11 DEF Answered, Readable
<1> QED
  BY <1>5, <1>6, <1>7 DEF Readable

-----------------------------------------------------------------------------
(* Reading a value. *)

\* A byte below 128 is a number.
LEMMA ByteUint ==
  ASSUME NEW b \in 0..127, NEW y \in Seq(Byte)
  PROVE  DecodeUint(<<b>> \o y) = {Got("uint", 0, b, 1)}
<1> DEFINE s == <<b>> \o y
<1>1. b \in Byte /\ b \in Int /\ b - 128 < 0
  BY Bytes, SMT
<1>2. s # <<>> /\ s[1] = b
  BY <1>1, ByteThen
<1> HIDE DEF s
<1>3. GetVarint("ruby", "uint", s) = Got("uint", 0, b, 1)
  <2>1. "uint" # "int" /\ ~(b - 128 = 0) /\ ~(b - 128 \in 1..4)
    BY <1>1, SMT
  <2> QED
    BY <1>1, <1>2, <2>1, Zenon DEF GetVarint
<1>4. Got("uint", 0, b, 1).ok
  BY DEF Got
<1>5. DecodeUint(s) = {Got("uint", 0, b, 1)}
  BY <1>3, <1>4 DEF DecodeUint
<1> QED
  BY <1>5 DEF s

\* Numbers of one byte or two, and of one to three.
Short == 0..255
Sized == {n \in Nat : n <= 65535}

\* The numbers they are.
LEMMA SizedIs ==
  /\ \A n \in Sized : n \in Nat /\ n <= 65535
  /\ \A n \in Nat : n <= 65535 => n \in Sized
  BY DEF Sized

\* Such a number is read as it was put, and the larger it is the more bytes it takes.
LEMMA SizedUint ==
  ASSUME NEW n \in Sized, NEW y \in Seq(Byte)
  PROVE  /\ DecodeUint(CUint(n) \o y) = {Got("uint", 0, n, Len(CUint(n)))}
         /\ GetVarint("ruby", "uint", CUint(n) \o y) = Got("uint", 0, n, Len(CUint(n)))
         /\ CUint(n) \in Seq(Byte)
         /\ Len(CUint(n)) = IF n < 128 THEN 1 ELSE IF n < 256 THEN 2 ELSE 3
         /\ n < 128 => CUint(n) = <<n>>
<1> DEFINE size == SizeofUint("c", n)
<1>1. n \in Int /\ n \in U32 /\ n \notin CutShort /\ "c" \in Ends /\ "ruby" \in Ends
  <2>1. n \in Int /\ 0 <= n /\ n <= 65535
    BY SMT DEF Sized
  <2>2. n \div 16777216 = 0 /\ 0 \in 0..255 /\ n # 65536 /\ n # 16777216
    BY <2>1, SMT
  <2> QED
    BY <2>1, <2>2 DEF U32, CutShort, Ends
<1>2. /\ size \in 1..5 /\ Varint(n, size) \in Seq(Byte) /\ Len(Varint(n, size)) = size
      /\ GetVarint("ruby", "uint", Varint(n, size) \o y) = Got("uint", 0, n, size)
  BY <1>1, UintDecodes
<1>3. size = IF n < 128 THEN 1 ELSE IF n < 256 THEN 2 ELSE 3
  <2>1. n \in Int /\ 0 <= n /\ n <= 65535
    BY SMT DEF Sized
  <2>2. n < 128 => SizeofUint("c", n) = 1
    BY <2>1, SMT DEF SizeofUint
  <2>3. 128 <= n /\ n < 256 => SizeofUint("c", n) = 2
    BY <2>1, SMT DEF SizeofUint
  <2>4. 256 <= n => SizeofUint("c", n) = 3
    BY <2>1, SMT DEF SizeofUint
  <2>5. (~(n < 128) => 128 <= n) /\ (~(n < 256) => 256 <= n)
    BY <2>1, SMT
  <2> QED
    BY <2>2, <2>3, <2>4, <2>5
<1>4. Varint(n, size) = CUint(n)
  BY DEF CUint
<1>5. n < 128 => CUint(n) = <<n>>
  <2> SUFFICES ASSUME n < 128 PROVE CUint(n) = <<n>>
    OBVIOUS
  <2>1. size = 1 /\ n % 128 = n
    BY <1>3, SMT DEF Sized
  <2> QED
    BY <1>4, <2>1 DEF Varint
<1> HIDE DEF size
<1>6. Got("uint", 0, n, size).ok
  BY DEF Got
<1>7. DecodeUint(CUint(n) \o y) = {Got("uint", 0, n, size)}
  BY <1>2, <1>4, <1>6 DEF DecodeUint
<1>8. CUint(n) \in Seq(Byte) /\ Len(CUint(n)) = size
  BY <1>2, <1>4
<1>9. GetVarint("ruby", "uint", CUint(n) \o y) = Got("uint", 0, n, size)
  BY <1>2, <1>4
<1> QED
  BY <1>3, <1>5, <1>7, <1>8, <1>9

\* A number of one byte or two.
LEMMA ShortUint ==
  ASSUME NEW n \in Short, NEW y \in Seq(Byte)
  PROVE  /\ DecodeUint(CUint(n) \o y) = {Got("uint", 0, n, Len(CUint(n)))}
         /\ CUint(n) \in Seq(Byte) /\ Len(CUint(n)) \in 1..2
         /\ n < 128 => CUint(n) = <<n>> /\ Len(CUint(n)) = 1
<1>1. n \in Sized /\ n < 256
  <2>1. n \in Nat /\ n <= 65535 /\ n < 256
    BY SMT DEF Short
  <2> QED
    BY <2>1, SizedIs
<1> DEFINE k == Len(CUint(n))
<1>2. k = IF n < 128 THEN 1 ELSE 2
  BY <1>1, SizedUint
<1> HIDE DEF k
<1>3. k \in 1..2 /\ (n < 128 => k = 1)
  BY <1>2, SMT
<1> QED
  BY <1>1, <1>3, SizedUint DEF k

\* The one value read.
OneValue(w, n) == {[value |-> w, used |-> n]}

\* A value, as a reader makes it.
ValueRecord(ty, body) == [type |-> ty, body |-> body]

\* What GetData makes of a tag and what follows.
LEMMA TaggedData ==
  ASSUME NEW ty \in 0..13, NEW x \in Seq(Byte)
  PROVE  /\ (<<ty>> \o x)[1] = ty /\ <<ty>> \o x \in Seq(Byte)
         /\ GetData("ruby", <<ty>> \o x) =
              LET r == GetBody("ruby", DataTypes[ty + 1], x)
              IN  IF r.ok THEN Got(r.form, r.hi, r.lo, r.used + 1) ELSE Refused
<1> DEFINE s == <<ty>> \o x
<1>1. ty \in Byte /\ ~(ty >= 14)
  BY Bytes, SMT
<1>2. s # <<>> /\ s[1] = ty /\ Tail(s) = x /\ s \in Seq(Byte)
  BY <1>1, ByteThen
<1> HIDE DEF s
<1>3. GetData("ruby", s) =
        LET r == GetBody("ruby", DataTypes[ty + 1], x)
        IN  IF r.ok THEN Got(r.form, r.hi, r.lo, r.used + 1) ELSE Refused
  BY <1>1, <1>2, Zenon DEF GetData
<1> QED
  BY <1>2, <1>3 DEF s

\* What is refused is no value.
LEMMA NoValueRead ==
  ASSUME NEW s, ~GetData("ruby", s).ok
  PROVE  DecodeValue(s) = {}
  BY Zenon DEF DecodeValue

\* A refusal is none.
LEMMA RefusedNot == ~Refused.ok
  BY DEF Refused

\* A value that is no string.
PlainSized(ty, form) ==
    /\ ty \in 0..13 /\ ty \notin StringTags /\ form = DataTypes[ty + 1]
    /\ form \in TypeNames \ Strings /\ BodySize(ty) \in Nat

\* Each type but the strings is one.
LEMMA PlainForms ==
  ASSUME NEW ty \in 0..13, ty \notin StringTags
  PROVE  PlainSized(ty, DataTypes[ty + 1])
  BY TypeTags, StringTagsAre, BodySizes DEF PlainSized

\* Too few bytes are no value of such a type,
LEMMA PlainShort ==
  ASSUME NEW ty \in 0..13, ty \notin StringTags, NEW x \in Seq(Byte), Len(x) < BodySize(ty)
  PROVE  DecodeValue(<<ty>> \o x) = {}
<1> DEFINE form == DataTypes[ty + 1]
           r == GetBody("ruby", form, x)
<1>1. PlainSized(ty, form)
  BY PlainForms
<1>2. form = DataTypes[ty + 1]
  OBVIOUS
<1> HIDE DEF form
<1>3. r = GetBody("c", form, x) /\ IsBody(GetBody("c", form, x), form, ty, x)
  BY <1>1, <1>2, BodiesAlike, SizesOfBodies DEF PlainSized
<1>4. Len(x) \in Nat /\ BodySize(ty) \in Nat
  BY <1>1 DEF PlainSized
<1>5. ~(BodySize(ty) <= Len(x))
  BY <1>4, SMT
<1>6. r = Refused
  BY <1>3, <1>5 DEF IsBody
<1>7. GetData("ruby", <<ty>> \o x) = Refused
  BY <1>2, <1>6, TaggedData, RefusedNot
<1> QED
  BY <1>7, NoValueRead, RefusedNot

\* One byte, a body, and what follows.
LEMMA BodyAfter ==
  ASSUME NEW a \in Byte, NEW b \in Seq(Byte), NEW y \in Seq(Byte)
  PROVE  SubSeq(<<a>> \o (b \o y), 2, 1 + Len(b)) = b
<1>1. <<a>> \in Seq(Byte)
  BY Bytes1
<1>2. <<a>> \o (b \o y) = (<<a>> \o b) \o y
  BY <1>1, Assoc
<1> QED
  BY <1>2, Middle

\* and a body of its size is one.
LEMMA PlainValue ==
  ASSUME NEW ty \in 0..13, ty \notin StringTags, NEW b, Fitting(ty, b), NEW y \in Seq(Byte)
  PROVE  DecodeValue(<<ty>> \o (b \o y)) = OneValue(ValueRecord(ty, b), 1 + Len(b))
<1> DEFINE form == DataTypes[ty + 1]
           x == b \o y
           s == <<ty>> \o x
           r == GetBody("ruby", form, x)
           n == Len(b)
<1>1. PlainSized(ty, form) /\ Tag(form) = ty
  BY PlainForms, TypeTags
<1>2. form = DataTypes[ty + 1]
  OBVIOUS
<1>3. b \in Seq(Byte) /\ n = BodySize(ty) /\ (ty = Tag("bool") => b \in {<<0>>, <<1>>}) /\ n \in Nat
  BY DEF Fitting
<1>4. x \in Seq(Byte) /\ BodySize(ty) <= Len(x)
  <2>1. x \in Seq(Byte) /\ Len(x) = n + Len(y) /\ Len(y) \in Nat
    BY <1>3, ConcatAt
  <2> DEFINE l == Len(x)
             m == BodySize(ty)
  <2>2. l = n + Len(y) /\ m = n
    BY <1>3, <2>1
  <2> HIDE DEF l, n, m
  <2>3. m <= l
    BY <1>3, <2>1, <2>2, SMT
  <2> QED
    BY <2>1, <2>3 DEF l, m
<1>5. form = "bool" => x[1] \in {0, 1}
  <2> SUFFICES ASSUME form = "bool" PROVE x[1] \in {0, 1}
    OBVIOUS
  <2>1. b \in {<<0>>, <<1>>}
    <3> HIDE DEF form
    <3> QED
      BY <1>1, <1>3
  <2>2. 1 \in 1..Len(b) /\ b[1] \in {0, 1}
    BY <2>1
  <2> QED
    BY <1>3, <2>2, ConcatAt
<1> HIDE DEF form, x
<1>6. r = GetBody("c", form, x) /\ IsBody(GetBody("c", form, x), form, ty, x) /\ GetBody("c", form, x).ok
  BY <1>1, <1>2, <1>4, <1>5, BodiesAlike, SizesOfBodies, BodyRead DEF PlainSized
<1> HIDE DEF r
<1>7. PICK hi, lo : r = Got(form, hi, lo, BodySize(ty))
  BY <1>6, RefusedNot DEF IsBody
<1> DEFINE g == Got(form, hi, lo, n + 1)
<1>8. GetData("ruby", s) = g
  <2>1. r.ok /\ r.form = form /\ r.hi = hi /\ r.lo = lo /\ r.used = n
    BY <1>3, <1>7, GotFields
  <2>2. r = GetBody("ruby", DataTypes[ty + 1], x)
    BY <1>2 DEF r
  <2>3. GetData("ruby", s) = IF r.ok THEN Got(r.form, r.hi, r.lo, r.used + 1) ELSE Refused
    BY <1>4, <2>2, TaggedData
  <2> QED
    BY <2>1, <2>3
<1>9. s[1] = ty
  BY <1>4, TaggedData
<1>10. g.ok /\ g.form = form /\ g.used = n + 1
  BY GotFields
<1>11. form \notin Strings
  BY <1>1 DEF PlainSized
<1>12. DecodeValue(s) = {[value |-> [type |-> s[1], body |-> SubSeq(s, g.used - (g.used - 1) + 1, g.used)],
                          used |-> g.used]}
  <2> HIDE DEF g, s
  <2> QED
    BY <1>8, <1>10, <1>11 DEF DecodeValue
<1>13. SubSeq(s, 2, 1 + n) = b
  <2>1. ty \in Byte
    BY Bytes, SMT
  <2> QED
    BY <1>3, <2>1, BodyAfter DEF x
<1>14. g.used - (g.used - 1) + 1 = 2 /\ g.used = 1 + n
  <2> DEFINE u == g.used
  <2>1. u = n + 1
    BY <1>10
  <2> HIDE DEF u, n
  <2>2. u - (u - 1) + 1 = 2 /\ u = 1 + n
    BY <1>3, <2>1, SMT
  <2> QED
    BY <2>2 DEF u
<1> HIDE DEF g, s, n
<1>15. DecodeValue(s) = OneValue(ValueRecord(ty, b), 1 + n)
  BY <1>9, <1>12, <1>13, <1>14 DEF OneValue, ValueRecord
<1> QED
  BY <1>15 DEF s, x, n

\* The tag of a string.
LEMMA StringTag == Tag("string") = 12 /\ DataTypes[12 + 1] = "string" /\ "string" \in Strings /\ 12 \in 0..13
                   /\ 12 \in Byte /\ 12 \in StringTags
<1>1. DataTypes[12 + 1] = "string"
  BY SMT DEF DataTypes
<1>2. 12 \in 0..13 /\ 12 \in Byte
  BY Bytes, SMT
<1>3. Tag("string") = 12
  BY <1>1, <1>2, TypeTags
<1>4. "string" \in Strings
  BY DEF Strings
<1> QED
  BY <1>1, <1>2, <1>3, <1>4 DEF StringTags

\* The length of a string and what follows it.
LEMMA StringRead ==
  ASSUME NEW n \in Sized, NEW z \in Seq(Byte)
  PROVE  GetData("ruby", <<12>> \o (CUint(n) \o z)) =
            IF Len(z) >= n THEN Got("string", 0, n, (Len(CUint(n)) + n) + 1) ELSE Refused
<1> DEFINE l == CUint(n)
           k == Len(l)
           x == l \o z
           g == Got("uint", 0, n, k)
<1>1. GetVarint("ruby", "uint", x) = g /\ l \in Seq(Byte) /\ k \in Nat
  BY SizedUint
<1>2. x \in Seq(Byte) /\ Len(x) = k + Len(z) /\ Len(z) \in Nat
  BY <1>1, ConcatAt
<1>3. g.ok /\ g.lo = n /\ g.used = k
  BY GotFields
<1>4. GetBody("ruby", "string", x) = StringBody("ruby", "string", x)
  BY StringTag, StringBodies DEF Ends
<1>5. Len(x) - k >= n <=> Len(z) >= n
  <2> DEFINE a == Len(x)
  <2>1. a = k + Len(z) /\ n \in Int
    BY <1>2, SMT DEF Sized
  <2> HIDE DEF a, k
  <2>2. a - k >= n <=> Len(z) >= n
    BY <1>1, <1>2, <2>1, SMT
  <2> QED
    BY <2>2 DEF a
<1> HIDE DEF x, l, k, g
<1>6. GetBody("ruby", "string", x) =
        IF Len(z) >= n THEN Got("string", 0, n, k + n) ELSE Refused
  BY <1>1, <1>3, <1>4, <1>5, Zenon DEF StringBody
<1>7. CASE Len(z) >= n
  <2>1. GetBody("ruby", DataTypes[12 + 1], x) = Got("string", 0, n, k + n)
    BY <1>6, <1>7, StringTag
  <2> DEFINE r == GetBody("ruby", DataTypes[12 + 1], x)
  <2>3. r.ok /\ r.form = "string" /\ r.hi = 0 /\ r.lo = n /\ r.used = k + n
    BY <2>1, GotFields
  <2>4. GetData("ruby", <<12>> \o x) = IF r.ok THEN Got(r.form, r.hi, r.lo, r.used + 1) ELSE Refused
    BY <1>2, StringTag, TaggedData
  <2>2. GetData("ruby", <<12>> \o x) = Got("string", 0, n, (k + n) + 1)
    BY <2>3, <2>4
  <2> QED
    BY <1>7, <2>2 DEF x, l, k
<1>8. CASE ~(Len(z) >= n)
  <2>1. GetBody("ruby", DataTypes[12 + 1], x) = Refused
    BY <1>6, <1>8, StringTag
  <2>2. GetData("ruby", <<12>> \o x) = Refused
    BY <1>2, <2>1, StringTag, TaggedData, RefusedNot
  <2> QED
    BY <1>8, <2>2 DEF x, l, k
<1> QED
  BY <1>7, <1>8

\* Fewer bytes than its length are no string,
LEMMA StringShort ==
  ASSUME NEW n \in Sized, NEW z \in Seq(Byte), Len(z) < n
  PROVE  DecodeValue(<<12>> \o (CUint(n) \o z)) = {}
<1>1. ~(Len(z) >= n)
  BY SMT DEF Sized
<1> QED
  BY <1>1, StringRead, NoValueRead, RefusedNot

\* and as many are one.
LEMMA StringValue ==
  ASSUME NEW b \in Seq(Byte), Len(b) \in Sized, NEW y \in Seq(Byte)
  PROVE  DecodeValue(<<12>> \o (CUint(Len(b)) \o (b \o y))) =
            OneValue(ValueRecord(12, b), 1 + Len(CUint(Len(b))) + Len(b))
<1> DEFINE n == Len(b)
           l == CUint(n)
           k == Len(l)
           z == b \o y
           s == <<12>> \o (l \o z)
           g == Got("string", 0, n, (k + n) + 1)
<1>1. l \in Seq(Byte) /\ k \in Nat /\ n \in Nat
  BY SizedUint, SMT
<1>2. z \in Seq(Byte) /\ Len(z) >= n
  <2>1. z \in Seq(Byte) /\ Len(z) = n + Len(y) /\ Len(y) \in Nat
    BY ConcatAt
  <2> DEFINE a == Len(z)
  <2>2. a = n + Len(y)
    BY <2>1
  <2> HIDE DEF a, n
  <2>3. a >= n
    BY <1>1, <2>1, <2>2, SMT
  <2> QED
    BY <2>1, <2>3 DEF a
<1>3. GetData("ruby", s) = g
  <2> HIDE DEF z
  <2> QED
    BY <1>2, StringRead
<1>4. g.ok /\ g.form = "string" /\ g.lo = n /\ g.used = (k + n) + 1
  BY GotFields
<1>5. s[1] = 12
  <2>1. l \o z \in Seq(Byte)
    BY <1>1, <1>2, ConcatAt
  <2> QED
    BY <2>1, StringTag, ByteThen
<1>6. SubSeq(s, (1 + k) + 1, (1 + k) + n) = b
  <2> DEFINE a == <<12>> \o l
  <2>1. a \in Seq(Byte) /\ Len(a) = 1 + k /\ <<12>> \in Seq(Byte)
    BY <1>1, StringTag, ByteThen, Bytes1
  <2>2. s = (a \o b) \o y
    <3>1. s = a \o z
      BY <1>1, <1>2, <2>1, Assoc, ZenonT(60)
    <3> HIDE DEF a
    <3> QED
      BY <2>1, <3>1, Assoc
  <2> HIDE DEF a, s
  <2>3. SubSeq((a \o b) \o y, Len(a) + 1, Len(a) + Len(b)) = b
    BY <2>1, Second
  <2> QED
    BY <2>1, <2>2, <2>3
<1>7. g.used - n + 1 = (1 + k) + 1 /\ g.used = (1 + k) + n
  <2> DEFINE u == g.used
  <2>1. u = (k + n) + 1
    BY <1>4
  <2> HIDE DEF u, k, n
  <2>2. u - n + 1 = (1 + k) + 1 /\ u = (1 + k) + n
    BY <1>1, <2>1, SMT
  <2> QED
    BY <2>2 DEF u
<1> HIDE DEF g, s, k, n
<1>8. DecodeValue(s) = {[value |-> [type |-> s[1], body |-> SubSeq(s, g.used - n + 1, g.used)],
                          used |-> g.used]}
  BY <1>3, <1>4, StringTag DEF DecodeValue
<1>9. DecodeValue(s) = OneValue(ValueRecord(12, b), 1 + k + n)
  BY <1>5, <1>6, <1>7, <1>8 DEF OneValue, ValueRecord
<1> QED
  BY <1>9 DEF s, k, z, l, n

-----------------------------------------------------------------------------
(* The pieces of a value. *)

\* The flattened pieces, when they are few.
LEMMA FlatTwo ==
  ASSUME NEW a \in Seq(Byte), NEW b \in Seq(Byte)
  PROVE  /\ <<a, b>> \in Seq(Seq(Byte)) /\ Len(<<a, b>>) = 2 /\ <<a, b>>[1] = a /\ <<a, b>>[2] = b
         /\ Flat(<<a, b>>, 0) = <<>> /\ Flat(<<a, b>>, 1) = a /\ Flat(<<a, b>>, 2) = a \o b
         /\ FlattenSeq(<<a, b>>) = a \o b
<1> DEFINE ps == <<a, b>>
<1>1. ps \in Seq(Seq(Byte)) /\ Len(ps) = 2 /\ ps[1] = a /\ ps[2] = b /\ ps # <<>>
  BY SMT
<1> HIDE DEF ps
<1>2. Flat(ps, 0) = <<>> /\ Flat(ps, 1) = a /\ FlattenSeq(ps) = Flat(ps, 2)
  BY <1>1, FlatStep, FlatFirstOne
<1> DEFINE k == 1
           l == k + 1
<1>3. l = 2 /\ k = 1 /\ k \in 0..Len(ps)-1
  BY <1>1, SMT
<1> HIDE DEF k
<1>4. Flat(ps, l) = Flat(ps, k) \o ps[l]
  BY <1>1, <1>3, FlatStep
<1> HIDE DEF l
<1> QED
  BY <1>1, <1>2, <1>3, <1>4 DEF ps

\* One more piece.
LEMMA FlatAppend ==
  ASSUME NEW ps \in Seq(Seq(Byte)), NEW c \in Seq(Byte)
  PROVE  /\ ps \o <<c>> \in Seq(Seq(Byte)) /\ Len(ps \o <<c>>) = Len(ps) + 1
         /\ \A k \in 1..Len(ps) : (ps \o <<c>>)[k] = ps[k]
         /\ (ps \o <<c>>)[Len(ps) + 1] = c
         /\ \A k \in 0..Len(ps) : Flat(ps \o <<c>>, k) = Flat(ps, k)
         /\ FlattenSeq(ps \o <<c>>) = FlattenSeq(ps) \o c
<1>1. <<c>> \in Seq(Seq(Byte)) /\ Len(<<c>>) = 1 /\ FlattenSeq(<<c>>) = c
  BY FlatOne
<1>2. ps \o <<c>> \in Seq(Seq(Byte)) /\ Len(ps \o <<c>>) = Len(ps) + 1
      /\ (\A k \in 1..Len(ps) : (ps \o <<c>>)[k] = ps[k])
      /\ (ps \o <<c>>)[Len(ps) + 1] = c
  BY SMTT(30)
<1> QED
  BY <1>1, <1>2, FlatConcat, ZenonT(60)

\* Three pieces are two and one.
LEMMA ThreePieces ==
  ASSUME NEW S, NEW a \in S, NEW b \in S, NEW c \in S
  PROVE  <<a, b>> \o <<c>> = <<a, b, c>>
<1> DEFINE r == <<a, b>> \o <<c>>
           t == <<a, b, c>>
<1>1. r \in Seq(S) /\ Len(r) = 3 /\ r[1] = a /\ r[2] = b /\ r[3] = c
  BY SMT
<1>2. t \in Seq(S) /\ Len(t) = 3 /\ t[1] = a /\ t[2] = b /\ t[3] = c
  BY SMT
<1>3. \A i \in 1..3 : i = 1 \/ i = 2 \/ i = 3
  BY SMT
<1> HIDE DEF r, t
<1>4. \A i \in 1..Len(r) : r[i] = t[i]
  BY <1>1, <1>2, <1>3
<1>5. r = t
  BY <1>1, <1>2, <1>4, SeqEqual
<1> QED
  BY <1>5 DEF r, t

\* The pieces of a value that is read as w, and as nothing until the last of
\* them is there.
IsPut(ps, w) ==
    /\ ps \in Seq(Seq(Byte)) /\ ps # <<>> /\ ps[1] # <<>>
    /\ \A y \in Seq(Byte) :
          DecodeValue(FlattenSeq(ps) \o y) = OneValue(w, Len(FlattenSeq(ps)))
    /\ Len(FlattenSeq(ps)) + 4 <= Longest
    /\ \A k \in 0..Len(ps)-1 : \A x \in Seq(Byte) :
          Len(x) < Len(ps[k + 1]) /\ Starts(x) => DecodeValue(Flat(ps, k) \o x) = {}

\* What is shorter than one byte, or than two.
LEMMA ShortBytes ==
  ASSUME NEW x \in Seq(Byte)
  PROVE  /\ Len(x) < 1 => x = <<>>
         /\ Len(x) < 2 => (x = <<>> \/ (x = <<x[1]>> /\ x # <<>>))
<1> DEFINE n == Len(x)
<1>1. n \in Nat
  OBVIOUS
<1>2. n = 0 => x = <<>>
  OBVIOUS
<1>3. n = 1 => x = <<x[1]>> /\ x # <<>>
  <2> SUFFICES ASSUME n = 1 PROVE x = <<x[1]>> /\ x # <<>>
    OBVIOUS
  <2>1. x[1] \in Byte /\ x # <<>> /\ Len(x) = 1
    BY SMT
  <2>2. <<x[1]>> \in Seq(Byte) /\ Len(<<x[1]>>) = 1 /\ <<x[1]>>[1] = x[1]
    BY <2>1, Bytes1
  <2>3. \A i \in 1..1 : i = 1
    BY SMT
  <2>4. x = <<x[1]>>
    BY <2>1, <2>2, <2>3, BytesEqual
  <2> QED
    BY <2>1, <2>4
<1> HIDE DEF n
<1>4. (n < 1 => n = 0) /\ (n < 2 => n = 0 \/ n = 1)
  BY <1>1, SMT
<1> QED
  BY <1>2, <1>3, <1>4 DEF n

\* The first byte and the others.
LEMMA HeadTail ==
  ASSUME NEW x \in Seq(Byte), x # <<>>
  PROVE  /\ x[1] \in Byte /\ Tail(x) \in Seq(Byte)
         /\ Len(Tail(x)) = Len(x) - 1 /\ Len(Tail(x)) \in Nat
         /\ x = <<x[1]>> \o Tail(x)
<1> DEFINE n == Len(x)
           z == Tail(x)
           y == <<x[1]>> \o z
<1>1. x[1] \in Byte /\ z \in Seq(Byte) /\ Len(z) = n - 1 /\ n \in Nat /\ n >= 1
      /\ \A i \in 1..Len(z) : z[i] = x[i + 1]
  BY SMT
<1>2. <<x[1]>> \in Seq(Byte) /\ Len(<<x[1]>>) = 1 /\ <<x[1]>>[1] = x[1]
  BY <1>1, Bytes1
<1> HIDE DEF z
<1>3. /\ y \in Seq(Byte) /\ Len(y) = Len(<<x[1]>>) + Len(z)
      /\ \A i \in 1..Len(<<x[1]>>) : y[i] = <<x[1]>>[i]
      /\ \A i \in 1..Len(z) : y[Len(<<x[1]>>) + i] = z[i]
  BY <1>1, <1>2, ConcatAt
<1> HIDE DEF y, n
<1>4. Len(y) = n /\ Len(z) \in Nat
  BY <1>1, <1>2, <1>3, SMT
<1>5. ASSUME NEW i \in 1..n PROVE y[i] = x[i]
  <2>1. CASE i = 1
    <3>1. 1 \in 1..Len(<<x[1]>>)
      BY <1>2
    <3> QED
      BY <1>2, <1>3, <2>1, <3>1
  <2>2. CASE i # 1
    <3> DEFINE j == i - 1
    <3>1. j \in 1..Len(z) /\ 1 + j = i /\ j + 1 = i
      BY <1>1, <2>2, SMT
    <3> HIDE DEF j
    <3>2. y[1 + j] = z[j]
      BY <1>2, <1>3, <3>1
    <3>3. z[j] = x[j + 1]
      BY <1>1, <3>1
    <3> QED
      BY <3>1, <3>2, <3>3
  <2> QED
    BY <2>1, <2>2
<1>6. y = x
  BY <1>3, <1>4, <1>5, BytesEqual DEF n
<1> QED
  BY <1>1, <1>4, <1>6 DEF y, z, n

\* Nothing is no value.
LEMMA EmptyValue == DecodeValue(<<>>) = {}
<1>1. GetData("ruby", <<>>) = Refused
  BY DEF GetData
<1> QED
  BY <1>1, NoValueRead, RefusedNot

\* The values that fit an object are put so.
LEMMA PlainPut ==
  ASSUME NEW ty \in 0..13, ty \notin StringTags, NEW b, Fitting(ty, b)
  PROVE  IsPut(<<<<ty>>, b>>, ValueRecord(ty, b))
<1> DEFINE a == <<ty>>
           ps == <<a, b>>
<1>1. a \in Seq(Byte) /\ Len(a) = 1 /\ b \in Seq(Byte) /\ Len(b) = BodySize(ty) /\ a # <<>> /\ ty \in Byte
  BY ByteSeqs DEF Fitting
<1>2. /\ ps \in Seq(Seq(Byte)) /\ Len(ps) = 2 /\ ps[1] = a /\ ps[2] = b
      /\ Flat(ps, 0) = <<>> /\ Flat(ps, 1) = a /\ FlattenSeq(ps) = a \o b
  BY <1>1, FlatTwo
<1>3. Len(a \o b) = 1 + Len(b)
  BY <1>1, ByteThen
<1>4. Len(b) \in 0..8
  <2>1. PlainSized(ty, DataTypes[ty + 1]) /\ <<>> \in Seq(Byte)
    BY PlainForms, EmptyConcat
  <2>2. IsBody(GetBody("c", DataTypes[ty + 1], <<>>), DataTypes[ty + 1], ty, <<>>)
    BY <2>1, SizesOfBodies DEF PlainSized
  <2> QED
    BY <1>1, <2>2 DEF IsBody
<1> HIDE DEF ps
<1>5. Len(FlattenSeq(ps)) + 4 <= Longest
  <2> DEFINE l == Len(FlattenSeq(ps))
             n == Len(b)
  <2>1. l = 1 + n /\ n \in 0..8
    BY <1>2, <1>3, <1>4
  <2> HIDE DEF l, n
  <2>2. l + 4 <= Longest
    BY <2>1, LongestIs, SMT
  <2> QED
    BY <2>2 DEF l
<1>6. ASSUME NEW y \in Seq(Byte)
      PROVE  DecodeValue(FlattenSeq(ps) \o y) = OneValue(ValueRecord(ty, b), Len(FlattenSeq(ps)))
  <2>1. (a \o b) \o y = a \o (b \o y)
    BY <1>1, Assoc
  <2>2. DecodeValue(a \o (b \o y)) = OneValue(ValueRecord(ty, b), 1 + Len(b))
    BY PlainValue
  <2>3. DecodeValue((a \o b) \o y) = OneValue(ValueRecord(ty, b), Len(a \o b))
    BY <1>3, <2>1, <2>2
  <2> QED
    BY <1>2, <2>3
<1>7. ASSUME NEW k \in 0..Len(ps)-1, NEW x \in Seq(Byte), Len(x) < Len(ps[k + 1])
      PROVE  DecodeValue(Flat(ps, k) \o x) = {}
  <2>1. k = 0 \/ k = 1
    BY <1>2, SMT
  <2>2. CASE k = 0
    <3>1. ps[k + 1] = a
      BY <1>2, <2>2
    <3>4. Len(x) < 1
      BY <1>1, <1>7, <3>1
    <3>2. x = <<>>
      BY <3>4, ShortBytes
    <3>3. Flat(ps, k) \o x = <<>>
      BY <1>2, <2>2, <3>2, EmptyConcat
    <3> QED
      BY <3>3, EmptyValue
  <2>3. CASE k = 1
    <3>1. ps[k + 1] = b
      BY <1>2, <2>3
    <3>2. Len(x) < BodySize(ty)
      BY <1>1, <1>7, <3>1
    <3> QED
      BY <1>2, <2>3, <3>2, PlainShort
  <2> QED
    BY <2>1, <2>2, <2>3
<1>8. ps # <<>> /\ ps[1] # <<>>
  <2>1. Len(ps) # 0 /\ Len(<<>>) = 0
    BY <1>2
  <2>2. ps # <<>>
    BY <2>1, Zenon
  <2> QED
    BY <1>1, <1>2, <2>2
<1>9. IsPut(ps, ValueRecord(ty, b))
  BY <1>2, <1>5, <1>6, <1>7, <1>8 DEF IsPut
<1> QED
  BY <1>9 DEF ps

\* Strings are put so.
LEMMA StringPut ==
  ASSUME Capacity \in Sized, NEW b \in Seq(Byte), Len(b) <= Capacity
  PROVE  IsPut(<<<<12>>, CUint(Len(b)), b>>, ValueRecord(12, b))
<1> DEFINE n == Len(b)
           a == <<12>>
           l == CUint(n)
           qs == <<a, l>>
           ps == qs \o <<b>>
           all == FlattenSeq(ps)
<1>1. a \in Seq(Byte) /\ Len(a) = 1 /\ a # <<>>
  BY StringTag, Bytes1
<1>2. n \in Sized /\ n \in Nat /\ n \in Int /\ n <= Capacity
  <2>1. n \in Nat /\ n <= Capacity /\ Capacity \in Nat /\ Capacity <= 65535
    BY SizedIs
  <2> HIDE DEF n
  <2>2. n <= 65535 /\ n \in Int
    BY <2>1, SMT
  <2> QED
    BY <2>1, <2>2, SizedIs
<1>3. l \in Seq(Byte) /\ Len(l) = (IF n < 128 THEN 1 ELSE IF n < 256 THEN 2 ELSE 3)
      /\ Len(l) \in 1..3
  <2> HIDE DEF n
  <2>1. <<>> \in Seq(Byte)
    BY EmptyConcat
  <2> DEFINE k == Len(l)
  <2>2. l \in Seq(Byte) /\ k = IF n < 128 THEN 1 ELSE IF n < 256 THEN 2 ELSE 3
    BY <1>2, <2>1, SizedUint
  <2> HIDE DEF k
  <2>3. k \in 1..3
    BY <2>2, SMT
  <2> QED
    BY <2>2, <2>3 DEF k
<1> HIDE DEF a, l
<1>4. /\ qs \in Seq(Seq(Byte)) /\ Len(qs) = 2 /\ qs[1] = a /\ qs[2] = l
      /\ Flat(qs, 0) = <<>> /\ Flat(qs, 1) = a /\ Flat(qs, 2) = a \o l /\ FlattenSeq(qs) = a \o l
  BY <1>1, <1>3, FlatTwo
<1>5. ps = <<a, l, b>>
  <2> HIDE DEF n
  <2> QED
    BY <1>1, <1>3, ThreePieces DEF qs, ps
<1> HIDE DEF qs
<1>6. /\ ps \in Seq(Seq(Byte)) /\ Len(ps) = 3
      /\ ps[1] = a /\ ps[2] = l /\ ps[3] = b
      /\ Flat(ps, 0) = <<>> /\ Flat(ps, 1) = a /\ Flat(ps, 2) = a \o l /\ all = (a \o l) \o b
  <2>1. /\ ps \in Seq(Seq(Byte)) /\ Len(ps) = 2 + 1
        /\ (\A k \in 1..2 : ps[k] = qs[k]) /\ ps[2 + 1] = b
        /\ (\A k \in 0..2 : Flat(ps, k) = Flat(qs, k))
        /\ all = FlattenSeq(qs) \o b
    <3> DEFINE m == Len(qs)
    <3>1. /\ ps \in Seq(Seq(Byte)) /\ Len(ps) = m + 1
          /\ (\A k \in 1..m : ps[k] = qs[k]) /\ ps[m + 1] = b
          /\ (\A k \in 0..m : Flat(ps, k) = Flat(qs, k))
          /\ all = FlattenSeq(qs) \o b
      BY <1>4, FlatAppend
    <3>2. m = 2
      BY <1>4
    <3> HIDE DEF m, ps
    <3> QED
      BY <3>1, <3>2
  <2>2. 2 + 1 = 3 /\ 1 \in 1..2 /\ 2 \in 1..2 /\ 0 \in 0..2 /\ 1 \in 0..2 /\ 2 \in 0..2
    BY SMT
  <2> HIDE DEF ps
  <2> QED
    BY <1>4, <2>1, <2>2
<1> HIDE DEF ps
<1>7. a \o l \in Seq(Byte) /\ Len(a \o l) = 1 + Len(l) /\ all \in Seq(Byte)
      /\ Len(all) = 1 + Len(l) + n
  <2>1. Len(a \o l) = Len(a) + Len(l) /\ a \o l \in Seq(Byte)
    BY <1>1, <1>3, ConcatAt
  <2>2. all \in Seq(Byte) /\ Len(all) = Len(a \o l) + n
    BY <1>6, <2>1, ConcatAt
  <2> QED
    BY <1>1, <2>1, <2>2
<1>8. Len(all) + 4 <= Longest
  <2> DEFINE k == Len(l)
             m == Len(CUint(Capacity))
             e == Len(all)
  <2>1. e = 1 + k + n /\ k = (IF n < 128 THEN 1 ELSE IF n < 256 THEN 2 ELSE 3)
    BY <1>3, <1>7
  <2>2. <<>> \in Seq(Byte)
    BY EmptyConcat
  <2>3. m = IF Capacity < 128 THEN 1 ELSE IF Capacity < 256 THEN 2 ELSE 3
    BY <2>2, SizedUint
  <2>4. Longest >= 5 + m + Capacity /\ Longest \in Nat /\ Capacity \in Nat
    BY LongestIs, SizeAssumption
  <2>5. n <= Capacity
    OBVIOUS
  <2> HIDE DEF k, m, n, e
  <2>6. e + 4 <= Longest
    BY <1>2, <2>1, <2>3, <2>4, <2>5, SMT
  <2> QED
    BY <2>6 DEF e
<1>9. ASSUME NEW y \in Seq(Byte)
      PROVE  DecodeValue(all \o y) = OneValue(ValueRecord(12, b), Len(all))
  <2>1. ((a \o l) \o b) \o y = a \o (l \o (b \o y))
    <3>1. b \o y \in Seq(Byte)
      BY ConcatAt
    <3>2. ((a \o l) \o b) \o y = (a \o l) \o (b \o y)
      BY <1>7, Assoc
    <3>3. (a \o l) \o (b \o y) = a \o (l \o (b \o y))
      BY <1>1, <1>3, <3>1, Assoc
    <3> QED
      BY <3>2, <3>3
  <2>2. DecodeValue(a \o (l \o (b \o y))) = OneValue(ValueRecord(12, b), 1 + Len(l) + n)
    BY <1>2, StringValue DEF a, l
  <2> QED
    BY <1>6, <1>7, <2>1, <2>2
<1>10. ASSUME NEW k \in 0..Len(ps)-1, NEW x \in Seq(Byte), Len(x) < Len(ps[k + 1]), Starts(x)
       PROVE  DecodeValue(Flat(ps, k) \o x) = {}
  <2>1. k = 0 \/ k = 1 \/ k = 2
    BY <1>6, SMT
  <2>2. CASE k = 0
    <3>1. Len(x) < 1
      BY <1>1, <1>6, <1>10, <2>2
    <3>2. x = <<>>
      BY <3>1, ShortBytes
    <3>3. Flat(ps, k) \o x = <<>>
      BY <1>6, <2>2, <3>2, EmptyConcat
    <3> QED
      BY <3>3, EmptyValue
  <2>3. CASE k = 1
    <3>1. ps[k + 1] = l /\ Flat(ps, k) = a
      BY <1>6, <2>3
    <3> DEFINE i == Len(x)
               z == Tail(x)
    <3>2. i \in Nat /\ (n < 256 => i < 2) /\ i < 3
      <4> DEFINE j == Len(l)
      <4>1. i < j /\ i \in Nat
        BY <1>10, <3>1
      <4>2. j = IF n < 128 THEN 1 ELSE IF n < 256 THEN 2 ELSE 3
        BY <1>3
      <4> HIDE DEF i, j, n
      <4> QED
        BY <1>2, <4>1, <4>2, SMT
    <3>3. CASE x = <<>>
      <4>1. GetVarint("ruby", "uint", x) = Refused
        BY <3>3 DEF GetVarint
      <4>2. StringBody("ruby", "string", x) = Refused
        BY <4>1, RefusedNot, Zenon DEF StringBody
      <4>3. GetBody("ruby", DataTypes[12 + 1], x) = Refused
        BY <4>2, StringTag, StringBodies DEF Ends
      <4>4. GetData("ruby", a \o x) = Refused
        BY <4>3, TaggedData, StringTag, RefusedNot DEF a
      <4> QED
        BY <3>1, <4>4, NoValueRead, RefusedNot
    <3>4. CASE x # <<>>
      <4> DEFINE c == x[1]
                 h == Len(z)
      <4>1. <<c>> \in Leads
        BY <1>10, <3>4 DEF Starts
      <4>2. c \in {HELLOHELLO, RESPONSE, ALERT} /\ (~(Capacity <= 255) => c \in {RESPONSE, ALERT})
        <5> HIDE DEF c
        <5> QED
          BY <4>1, LeadByte
      <4>3. x = <<c>> \o z /\ z \in Seq(Byte) /\ h = i - 1 /\ h \in Nat
        BY <3>4, HeadTail
      <4> HIDE DEF c, h, i, n, z
      <4>4. c \in Sized /\ c < 128 /\ h < c
        <5>1. c \in {1, 4, 5} /\ (~(Capacity <= 255) => c \in {4, 5})
          BY <4>2 DEF HELLOHELLO, RESPONSE, ALERT
        <5>2. Capacity \in Nat
          BY SizeAssumption
        <5>3. c \in Nat /\ c <= 65535 /\ c < 128
          BY <5>1, SMT
        <5>4. h \in Nat /\ h < 2 /\ (n < 256 => h < 1)
          BY <3>2, <4>3, SMT
        <5>5. ~(n < 256) => ~(Capacity <= 255)
          BY <1>2, <5>2, SMT
        <5>6. h < c
          BY <1>2, <5>1, <5>4, <5>5, SMT
        <5> QED
          BY <5>3, <5>6, SizedIs
      <4>5. <<>> \in Seq(Byte) /\ CUint(c) = <<c>>
        BY <4>4, EmptyConcat, SizedUint
      <4>6. DecodeValue(<<12>> \o (CUint(c) \o z)) = {}
        BY <4>3, <4>4, StringShort DEF h
      <4> QED
        BY <3>1, <4>3, <4>5, <4>6 DEF a
    <3> QED
      BY <3>3, <3>4
  <2>4. CASE k = 2
    <3>1. ps[k + 1] = b /\ Flat(ps, k) = a \o l
      BY <1>6, <2>4
    <3>2. (a \o l) \o x = a \o (l \o x)
      BY <1>1, <1>3, Assoc
    <3>3. Len(x) < n
      BY <1>10, <3>1
    <3>4. DecodeValue(a \o (l \o x)) = {}
      <4> HIDE DEF n
      <4> QED
        BY <1>2, <3>3, StringShort DEF a, l
    <3> QED
      BY <3>1, <3>2, <3>4
  <2> QED
    BY <2>1, <2>2, <2>3, <2>4
<1>11. ps # <<>> /\ ps[1] # <<>>
  <2>1. Len(ps) # 0 /\ Len(<<>>) = 0
    BY <1>6
  <2>2. ps # <<>>
    BY <2>1, Zenon
  <2> QED
    BY <1>1, <1>6, <2>2
<1>12. IsPut(ps, ValueRecord(12, b))
  BY <1>6, <1>8, <1>9, <1>10, <1>11 DEF IsPut
<1> QED
  BY <1>5, <1>12 DEF a, l, n

-----------------------------------------------------------------------------
(* Reading a response, an alert and the answer to a hello. *)

\* What is read behind a byte.
LEMMA Behind1 ==
  ASSUME NEW b \in Byte, NEW y \in Seq(Byte)
  PROVE  /\ From(<<b>> \o y, 1) = y /\ (<<b>> \o y)[1] = b /\ <<b>> \o y \in Seq(Byte)
         /\ Len(<<b>> \o y) = 1 + Len(y)
<1>1. <<b>> \in Seq(Byte) /\ Len(<<b>>) = 1
  BY ByteSeqs
<1> QED
  BY <1>1, ByteThen, FromAfter

\* The fields of a number that was got.
LEMMA GotByte ==
  ASSUME NEW b
  PROVE  Got("uint", 0, b, 1).lo = b /\ Got("uint", 0, b, 1).used = 1
  BY DEF Got

\* Nothing is behind nothing.
LEMMA FromNothing == From(<<>>, 1) = <<>>
<1>1. SubSeq(<<>>, 1 + 1, Len(<<>>)) = <<>>
  OBVIOUS
<1> QED
  BY <1>1 DEF From

\* The first byte of a message says what it is.
LEMMA TaggedMessage ==
  ASSUME NEW y \in Seq(Byte)
  PROVE  /\ DecodeMessage(<<RESPONSE>> \o y) = After(1, DecodeResponse(y))
         /\ DecodeMessage(<<ALERT>> \o y) = After(1, DecodeAlert(y))
         /\ DecodeMessage(<<HELLOHELLO>> \o y) = After(1, DecodeHelloHello(y))
<1>1. ASSUME NEW b \in {RESPONSE, ALERT, HELLOHELLO}
      PROVE  DecodeMessage(<<b>> \o y) =
               After(1, CASE b = RESPONSE -> DecodeResponse(y)
                          [] b = ALERT -> DecodeAlert(y)
                          [] b = HELLOHELLO -> DecodeHelloHello(y)
                          [] OTHER -> {})
  <2>1. b \in 0..127 /\ b \in Byte
    BY Bytes, SMT DEF RESPONSE, ALERT, HELLOHELLO
  <2> DEFINE s == <<b>> \o y
             g == Got("uint", 0, b, 1)
  <2>2. DecodeUint(s) = {g} /\ From(s, 1) = y /\ g.lo = b /\ g.used = 1
    BY <2>1, ByteUint, Behind1, GotByte
  <2> HIDE DEF s, g
  <2> DEFINE X(tag) == After(tag.used,
                 CASE tag.lo = RESPONSE   -> DecodeResponse(From(s, tag.used))
                   [] tag.lo = ALERT      -> DecodeAlert(From(s, tag.used))
                   [] tag.lo = HELLOHELLO -> DecodeHelloHello(From(s, tag.used))
                   [] OTHER               -> {})
  <2>3. DecodeMessage(s) = UNION {X(tag) : tag \in {g}}
    BY <2>2, Zenon DEF DecodeMessage
  <2>4. DecodeMessage(s) = X(g)
    <3> HIDE DEF X
    <3>1. UNION {X(tag) : tag \in {g}} = X(g)
      BY Zenon
    <3> QED
      BY <2>3, <3>1
  <2> QED
    BY <2>2, <2>4, Zenon DEF s
<1>2. RESPONSE # ALERT /\ RESPONSE # HELLOHELLO /\ ALERT # HELLOHELLO
  BY DEF RESPONSE, ALERT, HELLOHELLO
<1>3. DecodeMessage(<<RESPONSE>> \o y) = After(1, DecodeResponse(y))
  BY <1>1, <1>2, Zenon
<1>4. DecodeMessage(<<ALERT>> \o y) = After(1, DecodeAlert(y))
  <2>1. (CASE ALERT = RESPONSE -> DecodeResponse(y)
                          [] ALERT = ALERT -> DecodeAlert(y)
                          [] ALERT = HELLOHELLO -> DecodeHelloHello(y)
                          [] OTHER -> {}) = DecodeAlert(y)
    BY <1>2, Zenon
  <2>2. ALERT \in {RESPONSE, ALERT, HELLOHELLO}
    OBVIOUS
  <2> QED
    BY <1>1, <2>1, <2>2, Zenon
<1>5. DecodeMessage(<<HELLOHELLO>> \o y) = After(1, DecodeHelloHello(y))
  <2>1. (CASE HELLOHELLO = RESPONSE -> DecodeResponse(y)
                          [] HELLOHELLO = ALERT -> DecodeAlert(y)
                          [] HELLOHELLO = HELLOHELLO -> DecodeHelloHello(y)
                          [] OTHER -> {}) = DecodeHelloHello(y)
    BY <1>2, Zenon
  <2>2. HELLOHELLO \in {RESPONSE, ALERT, HELLOHELLO}
    OBVIOUS
  <2> QED
    BY <1>1, <2>1, <2>2, Zenon
<1> QED
  BY <1>3, <1>4, <1>5

\* What After makes of nothing, and of one message.
LEMMA AfterOne ==
  ASSUME NEW n
  PROVE  /\ After(n, {}) = {}
         /\ \A r, u : After(n, {Decoded(r, u)}) = {Decoded(r, u + n)}
<1>1. After(n, {}) = {}
  BY DEF After
<1>2. ASSUME NEW r, NEW u PROVE After(n, {Decoded(r, u)}) = {Decoded(r, u + n)}
  <2>1. [Decoded(r, u) EXCEPT !.used = @ + n] = Decoded(r, u + n)
    BY DEF Decoded
  <2> QED
    BY <2>1 DEF After
<1> QED
  BY <1>1, <1>2

\* The command that is answered.
KindOf(c) == IF c = READ THEN "read" ELSE "write"

\* The rest of a response: what follows the command is its result.
LEMMA ResponseDecoded ==
  /\ DecodeResponse(<<>>) = {}
  /\ \A f \in Byte : DecodeResponse(<<f>>) = {}
  /\ \A f \in Byte : \A c \in {READ, WRITE} : \A y \in Seq(Byte) :
        DecodeResponse(<<f>> \o (<<c>> \o y)) = After(2, DecodeResult(KindOf(c), f % 128, y))
<1>1. DecodeUint(<<>>) = {} /\ <<>> \in Seq(Byte)
  BY NothingRead, EmptyConcat
<1>2. DecodeResponse(<<>>) = {}
  BY <1>1, FromNothing, Zenon DEF DecodeResponse
<1>3. ASSUME NEW f \in Byte PROVE DecodeResponse(<<f>>) = {}
  <2>1. <<f>> \o <<>> = <<f>>
    BY Bytes1, EmptyConcat
  <2>2. From(<<f>>, 1) = <<>>
    BY <1>1, <2>1, Behind1
  <2> QED
    BY <1>1, <2>2, Zenon DEF DecodeResponse
<1>4. ASSUME NEW f \in Byte, NEW c \in {READ, WRITE}, NEW y \in Seq(Byte)
      PROVE  DecodeResponse(<<f>> \o (<<c>> \o y)) = After(2, DecodeResult(KindOf(c), f % 128, y))
  <2>1. c \in 0..127 /\ c \in Byte /\ c \in {WRITE, READ}
    BY Bytes, SMT DEF READ, WRITE
  <2> DEFINE x == <<c>> \o y
             s == <<f>> \o x
             g == Got("uint", 0, c, 1)
  <2>2. DecodeUint(x) = {g} /\ From(x, 1) = y /\ g.lo = c /\ g.used = 1 /\ x \in Seq(Byte)
    BY <2>1, ByteUint, Behind1, GotByte
  <2> HIDE DEF x
  <2>3. From(s, 1) = x /\ s[1] = f /\ s \in Seq(Byte)
    BY <2>2, Behind1
  <2> HIDE DEF s
  <2>4. From(s, 1 + 1) = y
    <3>1. From(From(s, 1), 1) = From(s, 1 + 1)
      <4>1. Len(s) = 1 + Len(x) /\ Len(x) = 1 + Len(y) /\ Len(y) \in Nat
        <5>1. Len(x) = 1 + Len(y)
          BY <2>1, Behind1 DEF x
        <5>2. Len(s) = 1 + Len(x)
          BY <2>2, Behind1 DEF s
        <5> QED
          BY <5>1, <5>2
      <4> DEFINE m == Len(s)
                 n == Len(From(s, 1))
      <4>2. m = 1 + n /\ n = 1 + Len(y) /\ Len(y) \in Nat
        BY <2>3, <4>1
      <4> HIDE DEF m, n
      <4>3. 1 \in 0..m /\ 1 \in 0..n
        BY <4>2, SMT
      <4> QED
        BY <2>3, <4>3, FromFrom DEF m, n
    <3> QED
      BY <2>2, <2>3, <3>1
  <2> HIDE DEF g
  <2>5. {r \in DecodeUint(From(s, 1)) : r.lo \in {WRITE, READ}} = {g}
    BY <2>1, <2>2, <2>3, Zenon
  <2>6. DecodeResponse(s) =
          UNION {After(1 + command.used,
                     DecodeResult(KindOf(command.lo), s[1] % 128, From(s, 1 + command.used))) :
                 command \in {g}}
    BY <2>5, Zenon DEF DecodeResponse, KindOf
  <2>7. DecodeResponse(s) = After(1 + g.used, DecodeResult(KindOf(g.lo), s[1] % 128, From(s, 1 + g.used)))
    <3> DEFINE X(command) == After(1 + command.used,
                     DecodeResult(KindOf(command.lo), s[1] % 128, From(s, 1 + command.used)))
    <3>1. DecodeResponse(s) = UNION {X(command) : command \in {g}}
      BY <2>6
    <3>2. DecodeResponse(s) = X(g)
      <4> HIDE DEF X
      <4>1. UNION {X(command) : command \in {g}} = X(g)
        BY Zenon
      <4> QED
        BY <3>1, <4>1
    <3> QED
      BY <3>2
  <2>8. 1 + 1 = 2
    OBVIOUS
  <2>9. DecodeResponse(s) = After(2, DecodeResult(KindOf(c), f % 128, y))
    BY <2>2, <2>3, <2>4, <2>7, <2>8
  <2> QED
    BY <2>9 DEF s, x
<1> QED
  BY <1>2, <1>3, <1>4

\* What DecodeResult makes of its first byte.
Success(kind, id, s, n) ==
    IF kind = "write" THEN {Decoded(Reply(kind, id, 0, NoValue), n)}
    ELSE {Decoded(Reply(kind, id, 0, v.value), n + v.used) : v \in DecodeValue(From(s, n))}

\* and one that says why it failed.
Failure(kind, id, s, n) ==
    {Decoded(Reply(kind, id, 1 + why.lo, NoValue), n + why.used) :
        why \in {r \in DecodeUint(From(s, n)) : r.lo \in Reasons}}

\* The first byte says which it is.
LEMMA ResultByte ==
  ASSUME NEW kind, NEW id, NEW b \in {0, 1}, NEW y \in Seq(Byte)
  PROVE  /\ b = 0 => DecodeResult(kind, id, <<b>> \o y) = Success(kind, id, <<b>> \o y, 1)
         /\ b = 1 => DecodeResult(kind, id, <<b>> \o y) = Failure(kind, id, <<b>> \o y, 1)
<1>1. b \in 0..127 /\ b \in Byte
  BY Bytes, SMT
<1> DEFINE s == <<b>> \o y
           g == Got("uint", 0, b, 1)
<1>2. DecodeUint(s) = {g} /\ g.lo = b /\ g.used = 1
  BY <1>1, ByteUint, GotByte
<1> HIDE DEF s, g
<1> DEFINE X(result) == CASE result.lo = 0 -> Success(kind, id, s, result.used)
                          [] result.lo = 1 -> Failure(kind, id, s, result.used)
                          [] OTHER         -> {}
<1>3. DecodeResult(kind, id, s) = UNION {X(result) : result \in {g}}
  BY <1>2, Zenon DEF DecodeResult, Success, Failure
<1>4. DecodeResult(kind, id, s) = X(g)
  <2> HIDE DEF X
  <2>1. UNION {X(result) : result \in {g}} = X(g)
    BY Zenon
  <2> QED
    BY <1>3, <2>1
<1>5. b = 0 => X(g) = Success(kind, id, s, 1)
  BY <1>2
<1>6. b = 1 => X(g) = Failure(kind, id, s, 1)
  <2>1. 1 # 0
    OBVIOUS
  <2> QED
    BY <1>2, <2>1
<1> HIDE DEF X
<1> QED
  BY <1>4, <1>5, <1>6 DEF s

\* A result that is cut short is none.
LEMMA ResultNothing ==
  ASSUME NEW kind, NEW id
  PROVE  /\ DecodeResult(kind, id, <<>>) = {}
         /\ DecodeResult(kind, id, <<1>>) = {}
<1>1. DecodeUint(<<>>) = {} /\ <<>> \in Seq(Byte)
  BY NothingRead, EmptyConcat
<1>2. DecodeResult(kind, id, <<>>) = {}
  BY <1>1, Zenon DEF DecodeResult
<1>3. 1 \in Byte
  BY ByteSeqs
<1>4. <<1>> \o <<>> = <<1>> /\ From(<<1>> \o <<>>, 1) = <<>>
  BY <1>1, <1>3, Behind1, Bytes1, EmptyConcat
<1>5. DecodeResult(kind, id, <<1>> \o <<>>) = Failure(kind, id, <<1>> \o <<>>, 1)
  BY <1>1, ResultByte
<1>6. Failure(kind, id, <<1>> \o <<>>, 1) = {}
  BY <1>1, <1>4, Zenon DEF Failure
<1> QED
  BY <1>2, <1>4, <1>5, <1>6

\* A failure is read with its reason.
Refuses(kind, id, w, y) ==
    DecodeResult(kind, id, <<1>> \o (<<w>> \o y)) = {Decoded(Reply(kind, id, 1 + w, NoValue), 2)}

\* What the server writes for results, read.
LEMMA ResultDecoded ==
  ASSUME NEW id, NEW y \in Seq(Byte)
  PROVE  /\ DecodeResult("write", id, <<0>> \o y) = {Decoded(Reply("write", id, 0, NoValue), 1)}
         /\ DecodeResult("read", id, <<0>> \o y) =
              {Decoded(Reply("read", id, 0, v.value), 1 + v.used) : v \in DecodeValue(y)}
         /\ \A kind : \A w \in Reasons : Refuses(kind, id, w, y)
<1>1. 0 \in Byte /\ 1 \in Byte
  BY ByteSeqs
<1>2. DecodeResult("write", id, <<0>> \o y) = {Decoded(Reply("write", id, 0, NoValue), 1)}
  <2>1. DecodeResult("write", id, <<0>> \o y) = Success("write", id, <<0>> \o y, 1)
    BY ResultByte
  <2> QED
    BY <2>1 DEF Success
<1>3. DecodeResult("read", id, <<0>> \o y) =
              {Decoded(Reply("read", id, 0, v.value), 1 + v.used) : v \in DecodeValue(y)}
  <2>1. DecodeResult("read", id, <<0>> \o y) = Success("read", id, <<0>> \o y, 1)
    BY ResultByte
  <2>2. From(<<0>> \o y, 1) = y
    BY <1>1, Behind1
  <2>3. "read" # "write"
    OBVIOUS
  <2> QED
    BY <2>1, <2>2, <2>3 DEF Success
<1>4. ASSUME NEW kind, NEW w \in Reasons
      PROVE  Refuses(kind, id, w, y)
  <2>1. w \in 0..127 /\ w \in Byte
    BY Bytes, SMT DEF Reasons
  <2> DEFINE x == <<w>> \o y
             s == <<1>> \o x
             g == Got("uint", 0, w, 1)
  <2>2. DecodeUint(x) = {g} /\ x \in Seq(Byte) /\ g.lo = w /\ g.used = 1
    BY <2>1, ByteUint, Behind1, GotByte
  <2> HIDE DEF x
  <2>3. From(s, 1) = x
    BY <1>1, <2>2, Behind1
  <2>4. DecodeResult(kind, id, s) = Failure(kind, id, s, 1)
    BY <2>2, ResultByte
  <2> HIDE DEF s, g
  <2>5. {r \in DecodeUint(From(s, 1)) : r.lo \in Reasons} = {g}
    BY <2>2, <2>3, Zenon
  <2> DEFINE X(why) == Decoded(Reply(kind, id, 1 + why.lo, NoValue), 1 + why.used)
  <2>6. Failure(kind, id, s, 1) = {X(why) : why \in {g}}
    BY <2>5, Zenon DEF Failure
  <2>7. Failure(kind, id, s, 1) = {X(g)}
    <3> HIDE DEF X
    <3>1. {X(why) : why \in {g}} = {X(g)}
      BY Zenon
    <3> QED
      BY <2>6, <3>1
  <2>8. 1 + 1 = 2
    OBVIOUS
  <2>9. X(g) = Decoded(Reply(kind, id, 1 + w, NoValue), 2)
    BY <2>2, <2>8
  <2> QED
    BY <2>4, <2>7, <2>9 DEF Refuses, s, x
<1> QED
  BY <1>2, <1>3, <1>4

-----------------------------------------------------------------------------
(* The pieces of an answer. *)

\* The pieces in front of a value, which make nothing of what is not one.
IsLead(hs, kind, id) ==
    /\ hs \in Seq(Seq(Byte)) /\ hs # <<>>
    /\ hs[1] \in Leads
    /\ Len(FlattenSeq(hs)) <= 4
    /\ \A y \in Seq(Byte) : \A w : \A n \in Nat :
          DecodeValue(y) = OneValue(w, n) =>
            DecodeMessage(FlattenSeq(hs) \o y) =
              {Decoded(Reply(kind, id, 0, w), Len(FlattenSeq(hs)) + n)}
    /\ \A y \in Seq(Byte) :
          DecodeValue(y) = {} => DecodeMessage(FlattenSeq(hs) \o y) = {}
    /\ \A k \in 0..Len(hs)-1 : \A x \in Seq(Byte) :
          Len(x) < Len(hs[k + 1]) /\ Starts(x) => DecodeMessage(Flat(hs, k) \o x) = {}

\* Such a head, and a value behind it, is an answer.
LEMMA LeadAnswer ==
  ASSUME NEW hs, NEW kind, NEW id, IsLead(hs, kind, id), NEW ps, NEW w, IsPut(ps, w)
  PROVE  IsAnswer(hs \o ps, Reply(kind, id, 0, w))
<1> DEFINE rs == hs \o ps
           h == FlattenSeq(hs)
           p == FlattenSeq(ps)
           a == Len(hs)
           b == Len(ps)
           r == Reply(kind, id, 0, w)
<1>1. hs \in Seq(Seq(Byte)) /\ hs # <<>> /\ ps \in Seq(Seq(Byte)) /\ ps # <<>>
  BY DEF IsLead, IsPut
<1>2. h \in Seq(Byte) /\ p \in Seq(Byte)
  BY <1>1, FlatType
<1>3. /\ rs \in Seq(Seq(Byte)) /\ Len(rs) = a + b /\ a \in Nat /\ b \in Nat /\ a >= 1 /\ b >= 1
      /\ (\A i \in 1..a : rs[i] = hs[i]) /\ (\A i \in 1..b : rs[a + i] = ps[i])
  BY <1>1, SMTT(30)
<1>4. /\ \A k \in 0..a : Flat(rs, k) = Flat(hs, k)
      /\ \A k \in 0..b : Flat(rs, a + k) = h \o Flat(ps, k)
      /\ FlattenSeq(rs) = h \o p
  BY <1>1, FlatConcat
<1> HIDE DEF rs, r
<1>5. rs # <<>> /\ rs[1] = hs[1]
  <2>1. 1 \in 1..a
    BY <1>3, SMT
  <2>2. Len(rs) # 0 /\ Len(<<>>) = 0
    <3> DEFINE c == Len(rs)
    <3>1. c = a + b
      BY <1>3
    <3> HIDE DEF c, a, b
    <3>2. c # 0
      BY <1>3, <3>1, SMT
    <3> QED
      BY <3>2, EmptyConcat DEF c
  <2>3. rs # <<>>
    BY <2>2, Zenon
  <2> QED
    BY <1>3, <2>1, <2>3
<1>6. Len(h \o p) = Len(h) + Len(p) /\ h \o p \in Seq(Byte) /\ Len(h) \in Nat /\ Len(p) \in Nat
  <2> HIDE DEF h, p
  <2> QED
    BY <1>2, ConcatAt
<1>7. Len(FlattenSeq(rs)) <= Longest
  <2> DEFINE i == Len(h)
             j == Len(p)
  <2>1. Len(FlattenSeq(rs)) = i + j /\ i <= 4 /\ j + 4 <= Longest /\ Longest \in Nat
    BY <1>4, <1>6, LongestIs DEF IsLead, IsPut
  <2> HIDE DEF i, j
  <2>2. i + j <= Longest
    BY <1>6, <2>1, SMT DEF i, j
  <2> QED
    BY <2>1, <2>2
<1>8. IsMessage(h \o p, r)
  <2>1. h \o p # <<>>
    <3>1. h # <<>>
      <4>1. hs[1] \in Seq(Byte) /\ hs[1] # <<>> /\ Flat(hs, 1) = hs[1]
        <5>1. hs[1] \in Leads
          BY DEF IsLead
        <5>2. hs[1] # <<>>
          BY <5>1, LeadBytes
        <5> QED
          BY <1>1, <5>2, FlatFirstOne
      <4>2. PICK z \in Seq(Byte) : Flat(hs, a) = Flat(hs, 1) \o z
        <5>1. 1 \in 0..a /\ a \in 1..a
          BY <1>3, SMT
        <5> QED
          BY <1>1, <5>1, FlatGrows
      <4>3. h = hs[1] \o z
        BY <1>1, <4>1, <4>2, FlatStep
      <4> QED
        BY <4>1, <4>3, SMT
    <3> HIDE DEF h, p
    <3> QED
      BY <1>2, <3>1, SMT
  <2>2. ASSUME NEW x \in Seq(Byte)
        PROVE  DecodeMessage((h \o p) \o x) = {Decoded(r, Len(h \o p))}
    <3>1. (h \o p) \o x = h \o (p \o x) /\ p \o x \in Seq(Byte)
      <4> HIDE DEF h, p
      <4> QED
        BY <1>2, Assoc, ConcatAt
    <3>2. DecodeValue(p \o x) = OneValue(w, Len(p))
      BY DEF IsPut
    <3>3. DecodeMessage(h \o (p \o x)) = {Decoded(r, Len(h) + Len(p))}
      <4> DEFINE y == p \o x
                 n == Len(p)
      <4>1. \A z \in Seq(Byte) : \A v : \A m \in Nat :
              DecodeValue(z) = OneValue(v, m) =>
                DecodeMessage(h \o z) = {Decoded(Reply(kind, id, 0, v), Len(h) + m)}
        BY DEF IsLead
      <4>2. y \in Seq(Byte) /\ n \in Nat /\ DecodeValue(y) = OneValue(w, n)
        BY <1>6, <3>1, <3>2
      <4> HIDE DEF y, n, h, p
      <4>3. DecodeMessage(h \o y) = {Decoded(Reply(kind, id, 0, w), Len(h) + n)}
        BY <4>1, <4>2
      <4> QED
        BY <4>3 DEF y, n, r
    <3> QED
      BY <1>6, <3>1, <3>3
  <2> QED
    BY <1>6, <2>1, <2>2 DEF IsMessage
<1>9. ASSUME NEW k \in 0..Len(rs)-1, NEW x \in Seq(Byte), Len(x) < Len(rs[k + 1]), Starts(x)
      PROVE  DecodeMessage(Flat(rs, k) \o x) = {}
  <2>1. k \in 0..a-1 \/ \E i \in 0..b-1 : k = a + i /\ k + 1 = a + (i + 1) /\ i + 1 \in 1..b /\ i \in 0..b
    <3> DEFINE c == Len(rs)
               i == k - a
    <3>1. c = a + b /\ k \in 0..c-1
      BY <1>3
    <3> HIDE DEF c, a, b
    <3>2. ~(k \in 0..a-1) => (i \in 0..b-1 /\ k = a + i /\ k + 1 = a + (i + 1) /\ i + 1 \in 1..b /\ i \in 0..b)
      BY <1>3, <3>1, SMT
    <3> HIDE DEF i
    <3> QED
      BY <3>2 DEF a, b
  <2>2. CASE k \in 0..a-1
    <3>1. k \in 0..a /\ k + 1 \in 1..a
      BY <1>3, <2>2, SMT
    <3>2. Flat(rs, k) = Flat(hs, k) /\ rs[k + 1] = hs[k + 1]
      BY <1>3, <1>4, <3>1
    <3> QED
      BY <1>9, <2>2, <3>2 DEF IsLead
  <2>3. CASE \E i \in 0..b-1 : k = a + i /\ k + 1 = a + (i + 1) /\ i + 1 \in 1..b /\ i \in 0..b
    <3>1. PICK i \in 0..b-1 : k = a + i /\ k + 1 = a + (i + 1) /\ i + 1 \in 1..b /\ i \in 0..b
      BY <2>3
    <3>2. Flat(rs, k) = h \o Flat(ps, i) /\ rs[k + 1] = ps[i + 1]
      BY <1>3, <1>4, <3>1
    <3>3. Flat(ps, i) \in Seq(Byte)
      BY <1>1, <3>1, FlatType
    <3>4. (h \o Flat(ps, i)) \o x = h \o (Flat(ps, i) \o x) /\ Flat(ps, i) \o x \in Seq(Byte)
      <4> DEFINE q == Flat(ps, i)
      <4>2. q \in Seq(Byte)
        BY <3>3
      <4> HIDE DEF h, q
      <4>3. (h \o q) \o x = h \o (q \o x)
        BY <1>2, <4>2, Assoc, ZenonT(60)
      <4>4. q \o x \in Seq(Byte)
        BY <4>2, ConcatAt
      <4>1. (h \o q) \o x = h \o (q \o x) /\ q \o x \in Seq(Byte)
        BY <4>3, <4>4
      <4> QED
        BY <4>1 DEF q
    <3>5. DecodeValue(Flat(ps, i) \o x) = {}
      BY <1>9, <3>1, <3>2 DEF IsPut
    <3> QED
      BY <3>2, <3>4, <3>5 DEF IsLead
  <2> QED
    BY <2>1, <2>2, <2>3
<1>10. rs[1] \in Leads
  BY <1>5 DEF IsLead
<1>11. IsAnswer(rs, r)
  BY <1>3, <1>4, <1>5, <1>7, <1>8, <1>9, <1>10 DEF IsAnswer, IsWhole
<1> QED
  BY <1>11 DEF rs, r

\* Three pieces, and what they make as they are flattened.
Three(ps, a, b, c) ==
    /\ ps \in Seq(Seq(Byte)) /\ Len(ps) = 3
    /\ ps[1] = a /\ ps[2] = b /\ ps[3] = c
    /\ Flat(ps, 0) = <<>> /\ Flat(ps, 1) = a /\ Flat(ps, 2) = a \o b
    /\ Flat(ps, 3) = (a \o b) \o c
    /\ FlattenSeq(ps) = (a \o b) \o c

\* The pieces, and what they are together.
LEMMA FlatThree ==
  ASSUME NEW a \in Seq(Byte), NEW b \in Seq(Byte), NEW c \in Seq(Byte)
  PROVE  Three(<<a, b, c>>, a, b, c)
<1> DEFINE qs == <<a, b>>
           ps == <<a, b, c>>
           m  == Len(qs)
<1>1. /\ qs \in Seq(Seq(Byte)) /\ m = 2 /\ qs[1] = a /\ qs[2] = b
      /\ Flat(qs, 0) = <<>> /\ Flat(qs, 1) = a /\ Flat(qs, 2) = a \o b /\ FlattenSeq(qs) = a \o b
  BY FlatTwo
<1>2. ps = qs \o <<c>>
  BY ThreePieces
<1> HIDE DEF qs, ps
<1>3. /\ ps \in Seq(Seq(Byte)) /\ Len(ps) = m + 1
      /\ (\A k \in 1..m : ps[k] = qs[k]) /\ ps[m + 1] = c
      /\ (\A k \in 0..m : Flat(ps, k) = Flat(qs, k))
      /\ FlattenSeq(ps) = FlattenSeq(qs) \o c
  BY <1>1, <1>2, FlatAppend
<1> HIDE DEF m
<1>4. 2 + 1 = 3 /\ 1 \in 1..2 /\ 2 \in 1..2 /\ 0 \in 0..2 /\ 1 \in 0..2 /\ 2 \in 0..2
  BY SMT
<1>5. /\ Len(ps) = 3 /\ ps[1] = a /\ ps[2] = b /\ ps[3] = c
      /\ Flat(ps, 0) = <<>> /\ Flat(ps, 1) = a /\ Flat(ps, 2) = a \o b
      /\ FlattenSeq(ps) = (a \o b) \o c
  BY <1>1, <1>3, <1>4
<1>6. Flat(ps, 3) = FlattenSeq(ps)
  BY <1>3, <1>5, FlatStep
<1> QED
  BY <1>3, <1>5, <1>6 DEF Three, ps

\* Of pieces of one byte each nothing is cut but whole pieces.
LEMMA SinglesCut ==
  ASSUME NEW ps \in Seq(Seq(Byte)), Singles(ps),
         \A k \in 0..Len(ps)-1 : DecodeMessage(Flat(ps, k)) = {}
  PROVE  \A k \in 0..Len(ps)-1 : \A x \in Seq(Byte) :
            Len(x) < Len(ps[k + 1]) => DecodeMessage(Flat(ps, k) \o x) = {}
<1> SUFFICES ASSUME NEW k \in 0..Len(ps)-1, NEW x \in Seq(Byte), Len(x) < Len(ps[k + 1])
             PROVE  DecodeMessage(Flat(ps, k) \o x) = {}
  OBVIOUS
<1>1. k + 1 \in 1..Len(ps) /\ k \in 0..Len(ps)
  BY SMT
<1>2. Len(x) < 1
  BY <1>1 DEF Singles
<1>3. x = <<>> /\ Flat(ps, k) \in Seq(Byte)
  BY <1>1, <1>2, ShortBytes, FlatType
<1>4. Flat(ps, k) \o x = Flat(ps, k)
  BY <1>3, EmptyConcat
<1> QED
  BY <1>4

\* Pieces of one byte each that make a message make an answer when no less of
\* them is read.
LEMMA SingleAnswer ==
  ASSUME NEW ps \in Seq(Seq(Byte)), ps # <<>>, Singles(ps),
         ps[1] \in Leads,
         NEW r, IsMessage(FlattenSeq(ps), r), Len(FlattenSeq(ps)) <= 13,
         \A k \in 0..Len(ps)-1 : DecodeMessage(Flat(ps, k)) = {}
  PROVE  IsAnswer(ps, r)
<1>1. Len(FlattenSeq(ps)) <= Longest
  <2> DEFINE l == Len(FlattenSeq(ps))
  <2>1. l \in Nat /\ l <= 13
    BY DEF IsMessage
  <2> HIDE DEF l
  <2>2. l <= Longest
    BY <2>1, LongestIs, SMT
  <2> QED
    BY <2>2 DEF l
<1> QED
  BY <1>1, SinglesCut DEF IsAnswer, IsWhole

\* The first three bytes of a response.
Heads(f, c) == <<<<RESPONSE>>, <<f>>, <<c>>>>

\* A response, read behind its first three bytes.
Responds(f, c, y) ==
    DecodeMessage(<<RESPONSE>> \o (<<f>> \o (<<c>> \o y))) =
        After(1, After(2, DecodeResult(KindOf(c), f % 128, y)))

\* It is read so, and not before its result.
LEMMA ResponseMessage ==
  ASSUME NEW f \in Byte, NEW c \in {READ, WRITE}, NEW y \in Seq(Byte)
  PROVE  /\ Responds(f, c, y)
         /\ DecodeMessage(<<RESPONSE>>) = {}
         /\ DecodeMessage(<<RESPONSE>> \o <<f>>) = {}
<1>1. c \in Byte /\ RESPONSE \in Byte /\ <<>> \in Seq(Byte)
  BY ByteSeqs, EmptyConcat
<1>2. <<c>> \o y \in Seq(Byte) /\ <<f>> \o (<<c>> \o y) \in Seq(Byte)
  BY <1>1, Behind1
<1>3. DecodeMessage(<<RESPONSE>> \o (<<f>> \o (<<c>> \o y))) =
              After(1, After(2, DecodeResult(KindOf(c), f % 128, y)))
  BY <1>2, TaggedMessage, ResponseDecoded, ZenonT(60)
<1>4. <<RESPONSE>> \o <<>> = <<RESPONSE>> /\ <<f>> \in Seq(Byte)
  BY <1>1, Bytes1, EmptyConcat
<1>7. After(1, {}) = {} /\ DecodeResponse(<<>>) = {} /\ DecodeResponse(<<f>>) = {}
  BY AfterOne, ResponseDecoded
<1>5. DecodeMessage(<<RESPONSE>> \o <<>>) = {}
  <2>1. DecodeMessage(<<RESPONSE>> \o <<>>) = After(1, DecodeResponse(<<>>))
    BY <1>1, TaggedMessage
  <2> QED
    BY <1>7, <2>1
<1>6. DecodeMessage(<<RESPONSE>> \o <<f>>) = {}
  <2>1. DecodeMessage(<<RESPONSE>> \o <<f>>) = After(1, DecodeResponse(<<f>>))
    BY <1>4, TaggedMessage
  <2> QED
    BY <1>7, <2>1
<1> QED
  BY <1>3, <1>4, <1>5, <1>6 DEF Responds

\* Four sequences may be joined from either end.
Joined(a, b, c, y) == ((a \o b) \o c) \o y = a \o (b \o (c \o y))

\* What stands together does not matter.
LEMMA Regroup ==
  ASSUME NEW a \in Seq(Byte), NEW b \in Seq(Byte), NEW c \in Seq(Byte), NEW y \in Seq(Byte)
  PROVE  Joined(a, b, c, y)
<1>1. a \o b \in Seq(Byte) /\ c \o y \in Seq(Byte)
  BY ConcatAt
<1>2. ((a \o b) \o c) \o y = (a \o b) \o (c \o y)
  BY <1>1, Assoc, ZenonT(60)
<1>3. (a \o b) \o (c \o y) = a \o (b \o (c \o y))
  <2> DEFINE z == c \o y
  <2>1. z \in Seq(Byte)
    BY <1>1
  <2> HIDE DEF z
  <2>2. (a \o b) \o z = a \o (b \o z)
    BY <2>1, Assoc, ZenonT(60)
  <2> QED
    BY <2>2 DEF z
<1> QED
  BY <1>2, <1>3 DEF Joined

\* What follows them is the result.
ReadsResult(f, c) ==
    \A y \in Seq(Byte) : DecodeMessage(FlattenSeq(Heads(f, c)) \o y) =
                           After(1, After(2, DecodeResult(KindOf(c), f % 128, y)))

\* The first three bytes, one by one.
LEMMA HeadsRead ==
  ASSUME NEW f \in Byte, NEW c \in {READ, WRITE}
  PROVE  /\ Heads(f, c) \in Seq(Seq(Byte)) /\ Len(Heads(f, c)) = 3
         /\ Heads(f, c)[1] = <<RESPONSE>> /\ Singles(Heads(f, c))
         /\ FlattenSeq(Heads(f, c)) \in Seq(Byte) /\ Len(FlattenSeq(Heads(f, c))) = 3
         /\ \A k \in 0..2 : DecodeMessage(Flat(Heads(f, c), k)) = {}
         /\ ReadsResult(f, c)
<1> DEFINE u == <<RESPONSE>>
           v == <<f>>
           w == <<c>>
           hs == Heads(f, c)
<1>1. c \in Byte /\ RESPONSE \in Byte
  BY ByteSeqs
<1>2. u \in Seq(Byte) /\ v \in Seq(Byte) /\ w \in Seq(Byte) /\ Len(u) = 1 /\ Len(v) = 1 /\ Len(w) = 1
  BY <1>1, ByteSeqs
<1> HIDE DEF u, v, w
<1>3. /\ hs \in Seq(Seq(Byte)) /\ Len(hs) = 3 /\ hs[1] = u /\ hs[2] = v /\ hs[3] = w
      /\ Flat(hs, 0) = <<>> /\ Flat(hs, 1) = u /\ Flat(hs, 2) = u \o v
      /\ FlattenSeq(hs) = (u \o v) \o w
  <2>1. hs = <<u, v, w>>
    BY DEF Heads, u, v, w
  <2> DEFINE ts == <<u, v, w>>
  <2>2. Three(ts, u, v, w)
    BY <1>2, FlatThree
  <2> HIDE DEF ts, hs
  <2> QED
    BY <2>1, <2>2 DEF ts, Three
<1> HIDE DEF hs
<1>4. Singles(hs)
  <2>1. \A i \in 1..3 : i = 1 \/ i = 2 \/ i = 3
    BY SMT
  <2> QED
    BY <1>2, <1>3, <2>1 DEF Singles
<1>5. (u \o v) \o w \in Seq(Byte) /\ Len((u \o v) \o w) = 3
  <2>1. u \o v \in Seq(Byte) /\ Len(u \o v) = 1 + 1
    <3>1. u \o v \in Seq(Byte) /\ Len(u \o v) = Len(u) + Len(v)
      BY <1>2, ConcatAt
    <3> QED
      BY <1>2, <3>1
  <2> DEFINE p == u \o v
  <2>2. p \in Seq(Byte) /\ Len(p) = 1 + 1
    BY <2>1
  <2> HIDE DEF p
  <2>3. p \o w \in Seq(Byte) /\ Len(p \o w) = Len(p) + Len(w)
    BY <1>2, <2>2, ConcatAt
  <2>4. (1 + 1) + 1 = 3
    OBVIOUS
  <2>5. p \o w \in Seq(Byte) /\ Len(p \o w) = 3
    BY <1>2, <2>2, <2>3, <2>4
  <2> QED
    BY <2>5 DEF p
<1>6. \A k \in 0..2 : DecodeMessage(Flat(hs, k)) = {}
  <2>1. \A k \in 0..2 : k = 0 \/ k = 1 \/ k = 2
    BY SMT
  <2>2. DecodeMessage(u) = {} /\ DecodeMessage(u \o v) = {}
    BY EmptyConcat, ResponseMessage DEF u, v
  <2> QED
    BY <1>3, <2>1, <2>2, NothingRead
<1>7. ASSUME NEW y \in Seq(Byte)
      PROVE  DecodeMessage(FlattenSeq(hs) \o y) = After(1, After(2, DecodeResult(KindOf(c), f % 128, y)))
  <2>1. ((u \o v) \o w) \o y = u \o (v \o (w \o y))
    <3>1. Joined(u, v, w, y)
      BY <1>2, Regroup
    <3> QED
      BY <3>1 DEF Joined
  <2>2. DecodeMessage(u \o (v \o (w \o y))) = After(1, After(2, DecodeResult(KindOf(c), f % 128, y)))
    <3>1. Responds(f, c, y)
      BY ResponseMessage
    <3> QED
      BY <3>1 DEF Responds, u, v, w
  <2> QED
    BY <1>3, <2>1, <2>2
<1> QED
  BY <1>3, <1>4, <1>5, <1>6, <1>7 DEF ReadsResult, hs, u

\* A response, with nothing behind its first three bytes or a 1 that says it is
\* a failure.
LEMMA HeadsCut ==
  ASSUME NEW f \in Byte, NEW c \in {READ, WRITE}
  PROVE  /\ DecodeMessage(FlattenSeq(Heads(f, c))) = {}
         /\ DecodeMessage(FlattenSeq(Heads(f, c)) \o <<1>>) = {}
<1> DEFINE h == FlattenSeq(Heads(f, c))
<1>1. h \in Seq(Byte) /\ \A y \in Seq(Byte) : DecodeMessage(h \o y) =
                                   After(1, After(2, DecodeResult(KindOf(c), f % 128, y)))
  BY HeadsRead, ZenonT(60) DEF ReadsResult
<1>2. <<>> \in Seq(Byte) /\ <<1>> \in Seq(Byte)
  BY ByteSeqs, EmptyConcat
<1> HIDE DEF h
<1>3. \A k, i : DecodeResult(k, i, <<>>) = {} /\ DecodeResult(k, i, <<1>>) = {}
  BY ResultNothing
<1>4. After(1, After(2, {})) = {}
  BY AfterOne
<1>5. DecodeMessage(h \o <<>>) = {} /\ DecodeMessage(h \o <<1>>) = {}
  <2>1. DecodeMessage(h \o <<>>) = After(1, After(2, DecodeResult(KindOf(c), f % 128, <<>>)))
    BY <1>1, <1>2, Zenon
  <2>2. DecodeMessage(h \o <<1>>) = After(1, After(2, DecodeResult(KindOf(c), f % 128, <<1>>)))
    BY <1>1, <1>2, Zenon
  <2>3. DecodeResult(KindOf(c), f % 128, <<>>) = {} /\ DecodeResult(KindOf(c), f % 128, <<1>>) = {}
    BY <1>3, Zenon
  <2> QED
    BY <1>4, <2>1, <2>2, <2>3
<1>6. h \o <<>> = h
  BY <1>1, EmptyConcat
<1> QED
  BY <1>5, <1>6 DEF h

\* Bytes of a response, written one by one, of which nothing is read yet.
Unread(ps) ==
    /\ ps \in Seq(Seq(Byte)) /\ ps # <<>> /\ ps[1] = <<RESPONSE>> /\ Singles(ps)
    /\ FlattenSeq(ps) \in Seq(Byte)
    /\ \A k \in 0..Len(ps) : DecodeMessage(Flat(ps, k)) = {}

\* The head of a response is not read.
LEMMA HeadsUnread ==
  ASSUME NEW f \in Byte, NEW c \in {READ, WRITE}
  PROVE  Unread(Heads(f, c)) /\ Len(FlattenSeq(Heads(f, c))) = 3
<1> DEFINE hs == Heads(f, c)
<1>1. /\ hs \in Seq(Seq(Byte)) /\ Len(hs) = 3 /\ hs[1] = <<RESPONSE>> /\ Singles(hs)
      /\ FlattenSeq(hs) \in Seq(Byte) /\ Len(FlattenSeq(hs)) = 3
      /\ \A k \in 0..2 : DecodeMessage(Flat(hs, k)) = {}
  BY HeadsRead
<1>2. DecodeMessage(FlattenSeq(hs)) = {}
  BY HeadsCut
<1> HIDE DEF hs
<1>3. Flat(hs, 3) = FlattenSeq(hs)
  BY <1>1, FlatStep
<1>4. \A k \in 0..3 : k \in 0..2 \/ k = 3
  BY SMT
<1>5. Len(hs) # 0 /\ Len(<<>>) = 0
  BY <1>1
<1>6. hs # <<>>
  BY <1>5, Zenon
<1> QED
  BY <1>1, <1>2, <1>3, <1>4, <1>6 DEF Unread, hs

\* One more byte of it.
LEMMA UnreadMore ==
  ASSUME NEW ps, Unread(ps), NEW b \in Byte
  PROVE  LET rs == ps \o <<<<b>>>>
         IN  /\ rs \in Seq(Seq(Byte)) /\ rs # <<>> /\ rs[1] = <<RESPONSE>> /\ Singles(rs)
             /\ FlattenSeq(rs) = FlattenSeq(ps) \o <<b>> /\ FlattenSeq(rs) \in Seq(Byte)
             /\ Len(FlattenSeq(rs)) = Len(FlattenSeq(ps)) + 1
             /\ Len(rs) = Len(ps) + 1
             /\ \A k \in 0..Len(rs)-1 : DecodeMessage(Flat(rs, k)) = {}
             /\ Flat(rs, Len(rs)) = FlattenSeq(rs)
<1> DEFINE d  == <<b>>
           rs == ps \o <<d>>
           n  == Len(ps)
           h  == FlattenSeq(ps)
<1>1. ps \in Seq(Seq(Byte)) /\ d \in Seq(Byte) /\ Len(d) = 1 /\ h \in Seq(Byte) /\ n \in Nat /\ n >= 1
  <2>1. d \in Seq(Byte) /\ Len(d) = 1
    BY ByteSeqs
  <2>2. ps \in Seq(Seq(Byte)) /\ ps # <<>> /\ h \in Seq(Byte)
    BY DEF Unread
  <2>3. n \in Nat /\ n >= 1
    BY <2>2, SMT
  <2> QED
    BY <2>1, <2>2, <2>3
<1> HIDE DEF d
<1>2. /\ rs \in Seq(Seq(Byte)) /\ Len(rs) = n + 1
      /\ (\A k \in 1..n : rs[k] = ps[k]) /\ rs[n + 1] = d
      /\ (\A k \in 0..n : Flat(rs, k) = Flat(ps, k))
      /\ FlattenSeq(rs) = h \o d
  BY <1>1, FlatAppend
<1> HIDE DEF rs
<1>3. Len(h \o d) = Len(h) + 1 /\ h \o d \in Seq(Byte)
  <2> HIDE DEF h
  <2>1. Len(h \o d) = Len(h) + Len(d) /\ h \o d \in Seq(Byte)
    BY <1>1, ConcatAt
  <2> QED
    BY <1>1, <2>1
<1> DEFINE m == Len(rs)
<1>4. m = n + 1
  BY <1>2
<1>5. rs # <<>> /\ rs[1] = <<RESPONSE>>
  <2>1. 1 \in 1..n /\ m # 0 /\ Len(<<>>) = 0
    <3> HIDE DEF m, n
    <3> QED
      BY <1>1, <1>4, SMT
  <2>2. rs # <<>>
    BY <2>1, Zenon
  <2> QED
    BY <1>2, <2>1, <2>2 DEF Unread
<1>6. Singles(rs)
  <2>1. \A k \in 1..m : k \in 1..n \/ k = n + 1
    <3> HIDE DEF m, n
    <3> QED
      BY <1>1, <1>4, SMT
  <2> QED
    BY <1>1, <1>2, <2>1 DEF Singles, Unread
<1>7. \A k \in 0..m-1 : DecodeMessage(Flat(rs, k)) = {}
  <2>1. \A k \in 0..m-1 : k \in 0..n
    <3> HIDE DEF m, n
    <3> QED
      BY <1>1, <1>4, SMT
  <2> QED
    BY <1>2, <2>1 DEF Unread
<1>8. Flat(rs, m) = FlattenSeq(rs)
  BY <1>2, FlatStep
<1> QED
  BY <1>2, <1>3, <1>5, <1>6, <1>7, <1>8 DEF rs, d

\* Nor are these pieces and one byte more, when nothing is made of them.
LEMMA UnreadStill ==
  ASSUME NEW ps, Unread(ps), NEW b \in Byte, DecodeMessage(FlattenSeq(ps \o <<<<b>>>>)) = {}
  PROVE  Unread(ps \o <<<<b>>>>)
<1> DEFINE rs == ps \o <<<<b>>>>
           m == Len(rs)
<1>1. /\ rs \in Seq(Seq(Byte)) /\ rs # <<>> /\ rs[1] = <<RESPONSE>> /\ Singles(rs)
      /\ FlattenSeq(rs) \in Seq(Byte)
      /\ (\A k \in 0..m-1 : DecodeMessage(Flat(rs, k)) = {})
      /\ Flat(rs, m) = FlattenSeq(rs)
  BY UnreadMore
<1>2. DecodeMessage(FlattenSeq(rs)) = {} /\ m \in Nat
  BY <1>1
<1> HIDE DEF rs
<1>3. \A k \in 0..m : k \in 0..m-1 \/ k = m
  <2> HIDE DEF m
  <2> QED
    BY <1>2, SMT
<1>4. Unread(rs)
  BY <1>1, <1>2, <1>3 DEF Unread
<1> QED
  BY <1>4 DEF rs

\* When a message is made of them, they are an answer.
LEMMA UnreadLast ==
  ASSUME NEW ps, Unread(ps), NEW b \in Byte, NEW r, IsMessage(FlattenSeq(ps) \o <<b>>, r),
         Len(FlattenSeq(ps)) <= 12
  PROVE  IsAnswer(ps \o <<<<b>>>>, r)
<1> DEFINE rs == ps \o <<<<b>>>>
           l == Len(FlattenSeq(rs))
           n == Len(FlattenSeq(ps))
<1>1. /\ rs \in Seq(Seq(Byte)) /\ rs # <<>> /\ rs[1] = <<RESPONSE>> /\ Singles(rs)
      /\ FlattenSeq(rs) = FlattenSeq(ps) \o <<b>> /\ FlattenSeq(rs) \in Seq(Byte)
      /\ l = n + 1
      /\ \A k \in 0..Len(rs)-1 : DecodeMessage(Flat(rs, k)) = {}
  BY UnreadMore
<1>2. n \in Nat
  BY DEF Unread
<1>3. l <= 13
  <2>1. n <= 12
    OBVIOUS
  <2> HIDE DEF l, n
  <2> QED
    BY <1>1, <1>2, <2>1, SMT
<1>4. IsMessage(FlattenSeq(rs), r)
  BY <1>1
<1> HIDE DEF rs
<1>5. IsAnswer(rs, r)
  BY <1>1, <1>3, <1>4, LeadBytes, SingleAnswer
<1> QED
  BY <1>5 DEF rs

\* What is read behind the heads of a response is a message of three bytes more.
LEMMA BehindHeads ==
  ASSUME NEW f \in Byte, NEW c \in {READ, WRITE}, NEW y \in Seq(Byte), NEW r, NEW u \in Nat,
         DecodeResult(KindOf(c), f % 128, y) = {Decoded(r, u)}
  PROVE  DecodeMessage(FlattenSeq(Heads(f, c)) \o y) = {Decoded(r, u + 3)}
<1>1. DecodeMessage(FlattenSeq(Heads(f, c)) \o y) = After(1, After(2, {Decoded(r, u)}))
  <2>1. \A x \in Seq(Byte) : DecodeMessage(FlattenSeq(Heads(f, c)) \o x) =
                             After(1, After(2, DecodeResult(KindOf(c), f % 128, x)))
    <3>1. ReadsResult(f, c)
      BY HeadsRead
    <3> QED
      BY <3>1 DEF ReadsResult
  <2>2. DecodeMessage(FlattenSeq(Heads(f, c)) \o y) = After(1, After(2, DecodeResult(KindOf(c), f % 128, y)))
    BY <2>1, Zenon
  <2> QED
    BY <2>2
<1>2. After(2, {Decoded(r, u)}) = {Decoded(r, u + 2)}
  BY AfterOne
<1> DEFINE v == u + 2
<1>3. After(1, {Decoded(r, v)}) = {Decoded(r, v + 1)}
  BY AfterOne
<1>4. v + 1 = u + 3
  BY SMT
<1> QED
  BY <1>1, <1>2, <1>3, <1>4

-----------------------------------------------------------------------------
(* The answers of the server. *)

\* A write that happens.
LEMMA WriteAnswer ==
  ASSUME NEW f \in Byte
  PROVE  IsAnswer(Heads(f, WRITE) \o <<<<0>>>>, Reply("write", f % 128, 0, NoValue))
<1> DEFINE hs == Heads(f, WRITE)
           h  == FlattenSeq(hs)
           r  == Reply("write", f % 128, 0, NoValue)
<1>1. Unread(hs) /\ Len(h) = 3 /\ 0 \in Byte /\ WRITE \in {READ, WRITE}
  BY HeadsUnread, ByteSeqs
<1>2. h \in Seq(Byte) /\ <<0>> \in Seq(Byte) /\ Len(<<0>>) = 1
  BY <1>1, ByteSeqs DEF Unread
<1>3. KindOf(WRITE) = "write"
  BY DEF KindOf, READ, WRITE
<1>4. Len(h \o <<0>>) = 4 /\ h \o <<0>> \in Seq(Byte) /\ h \o <<0>> # <<>>
  <2> HIDE DEF h
  <2>1. Len(h \o <<0>>) = Len(h) + 1 /\ h \o <<0>> \in Seq(Byte)
    BY <1>2, ConcatAt
  <2>2. Len(h \o <<0>>) = 4 /\ Len(h \o <<0>>) # Len(<<>>)
    BY <1>1, <2>1
  <2>3. h \o <<0>> # <<>>
    BY <2>2, Zenon
  <2> QED
    BY <2>1, <2>2, <2>3
<1>5. ASSUME NEW x \in Seq(Byte)
      PROVE  DecodeMessage((h \o <<0>>) \o x) = {Decoded(r, 4)}
  <2> DEFINE y == <<0>> \o x
  <2>1. DecodeResult("write", f % 128, y) = {Decoded(r, 1)}
    BY ResultDecoded
  <2>2. y \in Seq(Byte)
    BY <1>1, Behind1
  <2>3. (h \o <<0>>) \o x = h \o y
    <3> HIDE DEF h
    <3> QED
      BY <1>2, Assoc
  <2> HIDE DEF y, r
  <2>4. DecodeMessage(h \o y) = {Decoded(r, 1 + 3)}
    BY <1>1, <1>3, <2>1, <2>2, BehindHeads
  <2>5. 1 + 3 = 4
    OBVIOUS
  <2> QED
    BY <2>3, <2>4, <2>5
<1>6. IsMessage(h \o <<0>>, r)
  BY <1>4, <1>5 DEF IsMessage
<1>7. Len(h) <= 12
  BY <1>1
<1> HIDE DEF hs, r
<1> QED
  BY <1>1, <1>6, <1>7, UnreadLast DEF hs, r

\* Of sequences of pieces, too, any two may be joined first.
LEMMA AssocPieces ==
  ASSUME NEW ps \in Seq(Seq(Byte)), NEW a \in Seq(Byte), NEW b \in Seq(Byte)
  PROVE  (ps \o <<a>>) \o <<b>> = ps \o <<a, b>>
<1> DEFINE S == Seq(Byte)
<1>1. ps \in Seq(S) /\ a \in S /\ b \in S
  OBVIOUS
<1> HIDE DEF S
<1>2. <<a>> \in Seq(S) /\ <<b>> \in Seq(S) /\ <<a, b>> \in Seq(S) /\ <<a>> \o <<b>> = <<a, b>>
  <2>1. <<a>> \in Seq(S) /\ <<b>> \in Seq(S) /\ <<a, b>> \in Seq(S)
    BY <1>1
  <2> DEFINE s == <<a>> \o <<b>>
             t == <<a, b>>
  <2>2. s \in Seq(S) /\ Len(s) = 2 /\ s[1] = a /\ s[2] = b
    BY <1>1, SMT
  <2>3. t \in Seq(S) /\ Len(t) = 2 /\ t[1] = a /\ t[2] = b
    BY <1>1, SMT
  <2>4. \A i \in 1..2 : i = 1 \/ i = 2
    BY SMT
  <2> HIDE DEF s, t
  <2>5. \A i \in 1..Len(s) : s[i] = t[i]
    BY <2>2, <2>3, <2>4
  <2>6. s = t
    BY <2>2, <2>3, <2>5, SeqEqual
  <2> QED
    BY <2>1, <2>6 DEF s, t
<1>3. (ps \o <<a>>) \o <<b>> = ps \o (<<a>> \o <<b>>)
  BY <1>1, <1>2, SMTT(30)
<1> QED
  BY <1>2, <1>3

\* A refusal.
LEMMA RefusalAnswer ==
  ASSUME NEW f \in Byte, NEW c \in {READ, WRITE}, NEW w \in Reasons
  PROVE  IsAnswer(Heads(f, c) \o <<<<1>>, <<w>>>>, Reply(KindOf(c), f % 128, 1 + w, NoValue))
<1> DEFINE hs == Heads(f, c)
           h  == FlattenSeq(hs)
           ps == hs \o <<<<1>>>>
           r  == Reply(KindOf(c), f % 128, 1 + w, NoValue)
<1>1. Unread(hs) /\ Len(h) = 3 /\ 1 \in Byte /\ w \in Byte
  <2>1. w \in Byte
    BY Bytes, SMT DEF Reasons
  <2> QED
    BY <2>1, HeadsUnread, ByteSeqs
<1>2. h \in Seq(Byte) /\ <<1>> \in Seq(Byte) /\ Len(<<1>>) = 1 /\ <<w>> \in Seq(Byte) /\ Len(<<w>>) = 1
      /\ hs \in Seq(Seq(Byte))
  BY <1>1, ByteSeqs DEF Unread
<1>3. FlattenSeq(ps) = h \o <<1>> /\ Len(FlattenSeq(ps)) = Len(h) + 1
  BY <1>1, UnreadMore
<1>4. Unread(ps) /\ Len(FlattenSeq(ps)) = 4
  <2>1. DecodeMessage(FlattenSeq(ps)) = {}
    BY <1>3, HeadsCut
  <2>2. 3 + 1 = 4
    OBVIOUS
  <2>3. Len(FlattenSeq(ps)) = 4
    BY <1>1, <1>3, <2>2
  <2> HIDE DEF h
  <2>4. Unread(ps)
    BY <1>1, <2>1, UnreadStill
  <2> QED
    BY <2>3, <2>4
<1> HIDE DEF hs, ps
<1> DEFINE m == (h \o <<1>>) \o <<w>>
<1>5. Len(m) = 5 /\ m \in Seq(Byte) /\ m # <<>>
  <2> DEFINE g == h \o <<1>>
  <2>1. g \in Seq(Byte) /\ Len(g) = 4
    <3> HIDE DEF h
    <3>1. Len(h \o <<1>>) = Len(h) + Len(<<1>>) /\ h \o <<1>> \in Seq(Byte)
      BY <1>2, ConcatAt
    <3>2. 3 + 1 = 4
      OBVIOUS
    <3> QED
      BY <1>1, <1>2, <3>1, <3>2
  <2> HIDE DEF g
  <2>2. Len(g \o <<w>>) = Len(g) + Len(<<w>>) /\ g \o <<w>> \in Seq(Byte)
    BY <1>2, <2>1, ConcatAt
  <2>3. Len(m) = 5 /\ m \in Seq(Byte)
    <3>1. 4 + 1 = 5
      OBVIOUS
    <3> QED
      BY <1>2, <2>1, <2>2, <3>1 DEF g
  <2>4. Len(<<>>) = 0 /\ 5 # 0
    OBVIOUS
  <2>5. m # <<>>
    BY <2>3, <2>4, Zenon
  <2> QED
    BY <2>3, <2>5
<1>6. ASSUME NEW x \in Seq(Byte)
      PROVE  DecodeMessage(m \o x) = {Decoded(r, 5)}
  <2> DEFINE y == <<1>> \o (<<w>> \o x)
  <2>1. DecodeResult(KindOf(c), f % 128, y) = {Decoded(r, 2)}
    <3>1. Refuses(KindOf(c), f % 128, w, x)
      BY ResultDecoded
    <3> QED
      BY <3>1 DEF Refuses
  <2>2. y \in Seq(Byte)
    <3>1. <<w>> \o x \in Seq(Byte)
      BY <1>1, Behind1
    <3> QED
      BY <1>1, <3>1, Behind1
  <2>3. m \o x = h \o y
    <3>1. Joined(h, <<1>>, <<w>>, x)
      BY <1>2, Regroup
    <3> QED
      BY <3>1 DEF Joined
  <2> HIDE DEF y, r, m
  <2>4. DecodeMessage(h \o y) = {Decoded(r, 2 + 3)}
    BY <2>1, <2>2, BehindHeads DEF hs
  <2>5. 2 + 3 = 5
    OBVIOUS
  <2> QED
    BY <2>3, <2>4, <2>5
<1>7. IsMessage(FlattenSeq(ps) \o <<w>>, r)
  BY <1>3, <1>5, <1>6 DEF IsMessage
<1>8. Len(FlattenSeq(ps)) <= 12
  BY <1>4
<1> HIDE DEF r, m
<1>9. IsAnswer(ps \o <<<<w>>>>, r)
  BY <1>1, <1>4, <1>7, <1>8, UnreadLast
<1>10. ps \o <<<<w>>>> = hs \o <<<<1>>, <<w>>>>
  BY <1>2, AssocPieces DEF ps
<1> QED
  BY <1>9, <1>10 DEF hs, r

\* What stands in front of the value in the answer to a read.
LEMMA ReadLead ==
  ASSUME NEW f \in Byte
  PROVE  IsLead(Heads(f, READ) \o <<<<0>>>>, "read", f % 128)
<1> DEFINE hs == Heads(f, READ)
           h  == FlattenSeq(hs)
           rs == hs \o <<<<0>>>>
           i  == f % 128
<1>1. Unread(hs) /\ Len(h) = 3 /\ 0 \in Byte /\ READ \in {READ, WRITE}
  BY HeadsUnread, ByteSeqs
<1>2. h \in Seq(Byte) /\ <<0>> \in Seq(Byte)
  BY <1>1, ByteSeqs DEF Unread
<1>3. /\ rs \in Seq(Seq(Byte)) /\ rs # <<>> /\ rs[1] = <<RESPONSE>> /\ Singles(rs)
      /\ FlattenSeq(rs) = h \o <<0>> /\ Len(FlattenSeq(rs)) = Len(h) + 1
      /\ \A k \in 0..Len(rs)-1 : DecodeMessage(Flat(rs, k)) = {}
  <2> HIDE DEF h
  <2> QED
    BY <1>1, UnreadMore DEF h
<1>4. Len(FlattenSeq(rs)) = 4
  <2>1. 3 + 1 = 4
    OBVIOUS
  <2> QED
    BY <1>1, <1>3, <2>1
<1>5. KindOf(READ) = "read"
  BY DEF KindOf
<1>6. ASSUME NEW y \in Seq(Byte)
      PROVE  /\ (h \o <<0>>) \o y = h \o (<<0>> \o y) /\ <<0>> \o y \in Seq(Byte)
             /\ DecodeResult("read", i, <<0>> \o y) =
                  {Decoded(Reply("read", i, 0, v.value), 1 + v.used) : v \in DecodeValue(y)}
  <2>1. (h \o <<0>>) \o y = h \o (<<0>> \o y)
    <3> HIDE DEF h
    <3> QED
      BY <1>2, Assoc
  <2>2. <<0>> \o y \in Seq(Byte)
    BY <1>1, Behind1
  <2> HIDE DEF i
  <2>3. DecodeResult("read", i, <<0>> \o y) =
                  {Decoded(Reply("read", i, 0, v.value), 1 + v.used) : v \in DecodeValue(y)}
    BY ResultDecoded
  <2> QED
    BY <2>1, <2>2, <2>3
<1>7. ASSUME NEW y \in Seq(Byte), NEW w, NEW n \in Nat, DecodeValue(y) = OneValue(w, n)
      PROVE  DecodeMessage(FlattenSeq(rs) \o y) = {Decoded(Reply("read", i, 0, w), Len(FlattenSeq(rs)) + n)}
  <2> DEFINE r == Reply("read", i, 0, w)
             x == <<0>> \o y
             u == 1 + n
  <2>1. DecodeResult("read", i, x) = {Decoded(r, u)}
    <3> DEFINE d == [value |-> w, used |-> n]
    <3>1. DecodeValue(y) = {d} /\ d.value = w /\ d.used = n
      BY <1>7 DEF OneValue
    <3> DEFINE X(v) == Decoded(Reply("read", i, 0, v.value), 1 + v.used)
    <3>2. DecodeResult("read", i, x) = {X(v) : v \in {d}}
      BY <1>6, <3>1
    <3>3. DecodeResult("read", i, x) = {X(d)}
      <4> HIDE DEF X, d, x
      <4>1. {X(v) : v \in {d}} = {X(d)}
        BY Zenon
      <4> QED
        BY <3>2, <4>1
    <3> QED
      BY <3>1, <3>3
  <2>2. x \in Seq(Byte) /\ u \in Nat
    BY <1>6, SMT
  <2> HIDE DEF x, r
  <2>3. DecodeMessage(h \o x) = {Decoded(r, u + 3)}
    BY <1>1, <1>5, <2>1, <2>2, BehindHeads
  <2>4. u + 3 = 4 + n
    BY SMT
  <2> QED
    BY <1>3, <1>4, <1>6, <2>3, <2>4 DEF x, r
<1>8. ASSUME NEW y \in Seq(Byte), DecodeValue(y) = {}
      PROVE  DecodeMessage(FlattenSeq(rs) \o y) = {}
  <2> DEFINE x == <<0>> \o y
  <2>1. DecodeResult("read", i, x) = {}
    BY <1>6, <1>8
  <2>2. x \in Seq(Byte)
    BY <1>6
  <2> HIDE DEF x
  <2>3. DecodeMessage(h \o x) = After(1, After(2, DecodeResult(KindOf(READ), f % 128, x)))
    <3>1. ReadsResult(f, READ)
      BY <1>1, HeadsRead
    <3> QED
      BY <2>2, <3>1 DEF ReadsResult
  <2>4. After(1, After(2, {})) = {}
    BY AfterOne
  <2>5. DecodeMessage(h \o x) = {}
    BY <1>5, <2>1, <2>3, <2>4
  <2> QED
    BY <1>3, <1>6, <2>5 DEF x
<1> HIDE DEF rs, h, i
<1>9. \A k \in 0..Len(rs)-1 : \A x \in Seq(Byte) :
            Len(x) < Len(rs[k + 1]) => DecodeMessage(Flat(rs, k) \o x) = {}
  BY <1>3, SinglesCut
<1>11. rs[1] \in Leads /\ Len(FlattenSeq(rs)) <= 4
  BY <1>3, <1>4, LeadBytes
<1>12. \A k \in 0..Len(rs)-1 : \A x \in Seq(Byte) :
         Len(x) < Len(rs[k + 1]) /\ Starts(x) => DecodeMessage(Flat(rs, k) \o x) = {}
  BY <1>9
<1>10. IsLead(rs, "read", i)
  BY <1>3, <1>7, <1>8, <1>11, <1>12, Zenon DEF IsLead
<1> QED
  BY <1>10 DEF rs, i

\* An alert, as it is read behind its tag.
LEMMA AlertDecoded ==
  ASSUME NEW a \in Short, NEW y \in Seq(Byte)
  PROVE  DecodeAlert(CUint(a) \o y) =
           {Decoded(Reply("alert", a, 0, v.value), Len(CUint(a)) + v.used) : v \in DecodeValue(y)}
<1> DEFINE l == CUint(a)
           n == Len(l)
           g == Got("uint", 0, a, n)
           s == l \o y
<1>1. DecodeUint(s) = {g} /\ l \in Seq(Byte)
  BY ShortUint
<1>2. g.lo = a /\ g.used = n
  BY DEF Got
<1>3. From(s, n) = y
  <2> HIDE DEF l
  <2> QED
    BY <1>1, FromAfter
<1> HIDE DEF s, g, n, l
<1> DEFINE X(aid) == {Decoded(Reply("alert", aid.lo, 0, v.value), aid.used + v.used) :
              v \in DecodeValue(From(s, aid.used))}
<1>4. DecodeAlert(s) = UNION {X(aid) : aid \in {g}}
  BY <1>1, Zenon DEF DecodeAlert
<1>5. DecodeAlert(s) = X(g)
  <2> HIDE DEF X
  <2>1. UNION {X(aid) : aid \in {g}} = X(g)
    BY Zenon
  <2> QED
    BY <1>4, <2>1
<1>6. X(g) = {Decoded(Reply("alert", a, 0, v.value), n + v.used) : v \in DecodeValue(y)}
  BY <1>2, <1>3
<1> QED
  BY <1>5, <1>6 DEF s, n, l

\* What stands in front of the value of an alert.
LEMMA AlertLead ==
  ASSUME NEW a \in Short
  PROVE  IsLead(<<<<ALERT>>, CUint(a)>>, "alert", a)
<1> DEFINE t == <<ALERT>>
           l == CUint(a)
           hs == <<t, l>>
           n == Len(l)
<1>1. ALERT \in Byte /\ t \in Seq(Byte) /\ Len(t) = 1
  BY ByteSeqs
<1>2. l \in Seq(Byte) /\ n \in 1..2
  BY EmptyConcat, ShortUint
<1> HIDE DEF l
<1>3. /\ hs \in Seq(Seq(Byte)) /\ Len(hs) = 2 /\ hs[1] = t /\ hs[2] = l
      /\ Flat(hs, 0) = <<>> /\ Flat(hs, 1) = t /\ FlattenSeq(hs) = t \o l
  <2> HIDE DEF t
  <2> QED
    BY <1>1, <1>2, FlatTwo
<1>4. Len(t \o l) = 1 + n
  BY <1>1, <1>2, Behind1
<1>5. Len(t \o l) <= 4
  <2> HIDE DEF n
  <2> QED
    BY <1>2, <1>4, SMT
<1>6. ASSUME NEW y \in Seq(Byte)
      PROVE  DecodeMessage((t \o l) \o y) =
               After(1, {Decoded(Reply("alert", a, 0, v.value), n + v.used) : v \in DecodeValue(y)})
  <2>1. (t \o l) \o y = t \o (l \o y) /\ l \o y \in Seq(Byte)
    <3>1. l \o y \in Seq(Byte)
      BY <1>2, ConcatAt
    <3>2. (t \o l) \o y = t \o (l \o y)
      <4> HIDE DEF t
      <4> QED
        BY <1>1, <1>2, Assoc
    <3> QED
      BY <3>1, <3>2
  <2>2. DecodeMessage(t \o (l \o y)) = After(1, DecodeAlert(l \o y))
    BY <2>1, TaggedMessage
  <2>3. DecodeAlert(l \o y) = {Decoded(Reply("alert", a, 0, v.value), n + v.used) : v \in DecodeValue(y)}
    BY AlertDecoded DEF l
  <2> QED
    BY <2>1, <2>2, <2>3
<1>7. ASSUME NEW y \in Seq(Byte), NEW w, NEW k \in Nat, DecodeValue(y) = OneValue(w, k)
      PROVE  DecodeMessage(FlattenSeq(hs) \o y) = {Decoded(Reply("alert", a, 0, w), Len(FlattenSeq(hs)) + k)}
  <2> DEFINE d == [value |-> w, used |-> k]
             X(v) == Decoded(Reply("alert", a, 0, v.value), n + v.used)
  <2>1. DecodeValue(y) = {d} /\ d.value = w /\ d.used = k
    BY <1>7 DEF OneValue
  <2>2. {X(v) : v \in DecodeValue(y)} = {X(d)}
    <3> HIDE DEF X, d
    <3>1. {X(v) : v \in {d}} = {X(d)}
      BY Zenon
    <3> QED
      BY <2>1, <3>1
  <2>3. X(d) = Decoded(Reply("alert", a, 0, w), n + k)
    BY <2>1
  <2> HIDE DEF d
  <2>4. DecodeMessage((t \o l) \o y) = After(1, {X(d)})
    BY <1>6, <2>2
  <2> HIDE DEF X
  <2>5. After(1, {Decoded(Reply("alert", a, 0, w), n + k)}) =
          {Decoded(Reply("alert", a, 0, w), (n + k) + 1)}
    BY AfterOne
  <2>6. (n + k) + 1 = (1 + n) + k
    <3> HIDE DEF n
    <3> QED
      BY <1>2, SMT
  <2> QED
    BY <1>3, <1>4, <2>3, <2>4, <2>5, <2>6
<1>8. ASSUME NEW y \in Seq(Byte), DecodeValue(y) = {}
      PROVE  DecodeMessage(FlattenSeq(hs) \o y) = {}
  <2>1. DecodeMessage((t \o l) \o y) = After(1, {})
    BY <1>6, <1>8
  <2> QED
    BY <1>3, <2>1, AfterOne
<1>9. ASSUME NEW k \in 0..Len(hs)-1, NEW x \in Seq(Byte), Len(x) < Len(hs[k + 1]), Starts(x)
      PROVE  DecodeMessage(Flat(hs, k) \o x) = {}
  <2>1. k = 0 \/ k = 1
    BY <1>3, SMT
  <2>2. CASE k = 0
    <3>1. hs[k + 1] = t /\ Flat(hs, k) = <<>>
      BY <1>3, <2>2
    <3>2. x = <<>>
      BY <1>1, <1>9, <3>1, ShortBytes
    <3>3. <<>> \o <<>> = <<>>
      OBVIOUS
    <3> QED
      BY <3>1, <3>2, <3>3, NothingRead
  <2>3. CASE k = 1
    <3>1. hs[k + 1] = l /\ Flat(hs, k) = t
      BY <1>3, <2>3
    <3>2. Len(x) < 2
      <4> DEFINE i == Len(x)
      <4>1. i < n /\ i \in Nat
        BY <1>9, <3>1
      <4> HIDE DEF i, n
      <4>2. i < 2
        BY <1>2, <4>1, SMT
      <4> QED
        BY <4>2 DEF i
    <3>3. DecodeMessage(t \o x) = After(1, DecodeAlert(x))
      BY TaggedMessage
    <3>4. DecodeAlert(x) = {}
      <4>1. CASE x = <<>>
        BY <4>1, NothingRead, Zenon DEF DecodeAlert
      <4>2. CASE x = <<x[1]>> /\ x # <<>>
        <5> DEFINE c == x[1]
        <5>0. <<c>> \in Leads
          BY <1>9, <4>2 DEF Starts
        <5> HIDE DEF c
        <5>1. c \in {HELLOHELLO, RESPONSE, ALERT}
          BY <5>0, LeadByte
        <5>2. c \in Short /\ c < 128
          BY <5>1, SMT DEF Short, HELLOHELLO, RESPONSE, ALERT
        <5>3. <<>> \in Seq(Byte) /\ CUint(c) = <<c>> /\ CUint(c) \in Seq(Byte)
          BY <5>2, EmptyConcat, ShortUint
        <5>4. CUint(c) \o <<>> = x
          <6>1. x = <<c>>
            BY <4>2 DEF c
          <6> QED
            BY <5>3, <6>1, EmptyConcat
        <5>5. DecodeAlert(CUint(c) \o <<>>) = {Decoded(Reply("alert", c, 0, v.value), Len(CUint(c)) + v.used) : v \in DecodeValue(<<>>)}
          BY <5>2, <5>3, AlertDecoded
        <5> QED
          BY <5>4, <5>5, EmptyValue
      <4> QED
        BY <3>2, <4>1, <4>2, ShortBytes
    <3> QED
      BY <3>1, <3>3, <3>4, AfterOne
  <2> QED
    BY <2>1, <2>2, <2>3
<1>10. hs # <<>> /\ hs[1] \in Leads
  BY <1>3, LeadBytes
<1>11. Len(FlattenSeq(hs)) <= 4
  BY <1>3, <1>5
<1> HIDE DEF hs
<1>12. IsLead(hs, "alert", a)
  BY <1>3, <1>7, <1>8, <1>9, <1>10, <1>11 DEF IsLead
<1> QED
  BY <1>12 DEF hs, l

\* The answer to a hello, as it is read behind its tag.
LEMMA HelloDecoded ==
  /\ DecodeHelloHello(<<>>) = {}
  /\ DecodeHelloHello(<<1>>) = {}
  /\ \A z \in Seq(Byte) : DecodeHelloHello(<<1>> \o (<<0>> \o z)) =
        IF Len(z) >= 4 THEN {Decoded(Reply("hello", 1, 0, NoValue), 6)} ELSE {}
<1>1. 0 \in Byte /\ 1 \in Byte /\ <<>> \in Seq(Byte) /\ <<1>> \in Seq(Byte)
  BY ByteSeqs, EmptyConcat
<1>2. ASSUME NEW s, ~HelloAt(s).ok PROVE DecodeHelloHello(s) = {}
  BY <1>2, Zenon DEF DecodeHelloHello
<1>3. ~HelloAt(<<>>).ok
  BY DEF HelloAt
<1>4. ~HelloAt(<<1>>).ok
  <2> DEFINE s == <<1>>
             v == UintAt(From(s, 1))
  <2>1. s # <<>> /\ s[1] = 1 /\ From(s, 1) = <<>>
    <3>1. <<1>> \o <<>> = <<1>>
      BY <1>1, EmptyConcat
    <3> QED
      BY <1>1, <3>1, Behind1
  <2>2. GetVarint("c", "uint", <<>>) = Refused
    BY DEF GetVarint
  <2>3. ~v.ok
    BY <2>1, <2>2, RefusedNot DEF UintAt
  <2> HIDE DEF s, v
  <2>4. HelloAt(s) = [ok |-> FALSE, used |-> 1 + v.used]
    <3>1. ~(s[1] >= 2) /\ s[1] < 2
      BY <2>1
    <3> QED
      BY <2>1, <2>3, <3>1 DEF HelloAt, v
  <2> QED
    BY <2>4 DEF s
<1>5. ASSUME NEW z \in Seq(Byte)
      PROVE  DecodeHelloHello(<<1>> \o (<<0>> \o z)) =
               IF Len(z) >= 4 THEN {Decoded(Reply("hello", 1, 0, NoValue), 6)} ELSE {}
  <2> DEFINE x == <<0>> \o z
             s == <<1>> \o x
             v == UintAt(x)
  <2>1. x \in Seq(Byte) /\ x # <<>> /\ x[1] = 0 /\ Len(x) = 1 + Len(z)
    BY <1>1, ByteThen
  <2> HIDE DEF x
  <2>2. s # <<>> /\ s[1] = 1 /\ From(s, 1) = x /\ Len(s) = 1 + Len(x)
    BY <1>1, <2>1, ByteThen, Behind1
  <2> HIDE DEF s
  <2>3. GetVarint("c", "uint", x) = Got("uint", 0, 0, 1)
    <3>1. "uint" # "int" /\ ~(0 - 128 = 0) /\ ~(0 - 128 \in 1..4) /\ 0 - 128 < 0
      BY SMT
    <3> QED
      BY <2>1, <3>1, Zenon DEF GetVarint
  <2>4. v.ok /\ v.used = 1
    <3>1. Got("uint", 0, 0, 1).ok /\ Got("uint", 0, 0, 1).used = 1
      BY DEF Got
    <3> QED
      BY <2>3, <3>1 DEF UintAt
  <2> DEFINE h == HelloAt(s)
  <2>5. ~(s[1] >= 2) /\ s[1] < 2 /\ 5 + 1 = 6 /\ 1 + 1 = 2
    BY <2>2
  <2>6. Len(s) >= 6 <=> Len(z) >= 4
    <3> DEFINE m == Len(s)
               n == Len(z)
    <3>1. m = 1 + (1 + n) /\ n \in Nat
      BY <2>1, <2>2
    <3> HIDE DEF m, n
    <3>2. m >= 6 <=> n >= 4
      BY <3>1, SMT
    <3> QED
      BY <3>2 DEF m, n
  <2> HIDE DEF v
  <2>7. Len(z) >= 4 => h.ok /\ h.used = 6
    <3> SUFFICES ASSUME Len(z) >= 4 PROVE h.ok /\ h.used = 6
      OBVIOUS
    <3>1. h = [ok |-> TRUE, used |-> 6]
      BY <2>2, <2>4, <2>5, <2>6 DEF HelloAt, v
    <3> QED
      BY <3>1
  <2>8. ~(Len(z) >= 4) => ~h.ok
    <3> SUFFICES ASSUME ~(Len(z) >= 4) PROVE ~h.ok
      OBVIOUS
    <3>1. h = [ok |-> FALSE, used |-> 2]
      BY <2>2, <2>4, <2>5, <2>6 DEF HelloAt, v
    <3> QED
      BY <3>1
  <2>9. Len(z) >= 4 => DecodeHelloHello(s) = {Decoded(Reply("hello", 1, 0, NoValue), 6)}
    <3> SUFFICES ASSUME Len(z) >= 4 PROVE DecodeHelloHello(s) = {Decoded(Reply("hello", 1, 0, NoValue), 6)}
      OBVIOUS
    <3> HIDE DEF h
    <3> DEFINE X(hello) == Decoded(Reply("hello", s[1], 0, NoValue), hello.used)
    <3>1. DecodeHelloHello(s) = {X(hello) : hello \in {k \in {h} : k.ok}}
      BY DEF DecodeHelloHello, h
    <3>2. {k \in {h} : k.ok} = {h}
      BY <2>7
    <3>3. X(h) = Decoded(Reply("hello", 1, 0, NoValue), 6)
      BY <2>2, <2>7
    <3> HIDE DEF X
    <3>4. {X(hello) : hello \in {h}} = {X(h)}
      BY Zenon
    <3> QED
      BY <3>1, <3>2, <3>3, <3>4
  <2> QED
    BY <1>2, <2>8, <2>9 DEF s, x
<1> QED
  BY <1>2, <1>3, <1>4, <1>5

\* Four pieces are three and one.
LEMMA FourPieces ==
  ASSUME NEW S, NEW a \in S, NEW b \in S, NEW c \in S, NEW d \in S
  PROVE  <<a, b, c>> \o <<d>> = <<a, b, c, d>>
<1> DEFINE r == <<a, b, c>> \o <<d>>
           t == <<a, b, c, d>>
<1>1. r \in Seq(S) /\ Len(r) = 4 /\ r[1] = a /\ r[2] = b /\ r[3] = c /\ r[4] = d
  BY SMT
<1>2. t \in Seq(S) /\ Len(t) = 4 /\ t[1] = a /\ t[2] = b /\ t[3] = c /\ t[4] = d
  BY SMT
<1>3. \A i \in 1..4 : i = 1 \/ i = 2 \/ i = 3 \/ i = 4
  BY SMT
<1> HIDE DEF r, t
<1>4. \A i \in 1..Len(r) : r[i] = t[i]
  BY <1>1, <1>2, <1>3
<1>5. r = t
  BY <1>1, <1>2, <1>4, SeqEqual
<1> QED
  BY <1>5 DEF r, t

\* The answer to a hello.
HelloPieces == <<<<HELLOHELLO>>, <<1>>, <<0>>, <<0, 0, 0, 0>>>>

\* It is an answer.
LEMMA HelloAnswer == IsWhole(HelloPieces, Reply("hello", 1, 0, NoValue))
<1> DEFINE a == <<HELLOHELLO>>
           b == <<1>>
           c == <<0>>
           d == <<0, 0, 0, 0>>
           qs == <<a, b, c>>
           ps == HelloPieces
           r == Reply("hello", 1, 0, NoValue)
           g == (a \o b) \o c
           m == g \o d
<1>1. /\ a \in Seq(Byte) /\ b \in Seq(Byte) /\ c \in Seq(Byte) /\ d \in Seq(Byte)
      /\ Len(a) = 1 /\ Len(b) = 1 /\ Len(c) = 1 /\ Len(d) = 4
  BY ByteSeqs, Zeros
<1>2. ps = qs \o <<d>>
  <2> HIDE DEF a, b, c, d
  <2>1. qs \o <<d>> = <<a, b, c, d>>
    BY <1>1, FourPieces
  <2> QED
    BY <2>1 DEF HelloPieces, a, b, c, d
<1>3. \A x \in Seq(Byte) : /\ DecodeMessage(a \o x) = After(1, DecodeHelloHello(x))
                           /\ DecodeHelloHello(b \o (c \o x)) = IF Len(x) >= 4 THEN {Decoded(r, 6)} ELSE {}
  BY TaggedMessage, HelloDecoded
<1>4. DecodeHelloHello(<<>>) = {} /\ DecodeHelloHello(b) = {}
  BY HelloDecoded
<1>6. After(1, {}) = {} /\ After(1, {Decoded(r, 6)}) = {Decoded(r, 7)}
  <2>1. After(1, {Decoded(r, 6)}) = {Decoded(r, 6 + 1)} /\ After(1, {}) = {}
    BY AfterOne
  <2>2. 6 + 1 = 7
    OBVIOUS
  <2> QED
    BY <2>1, <2>2
<1> HIDE DEF a, b, c, d, r
<1>7. Three(qs, a, b, c)
  BY <1>1, FlatThree
<1> HIDE DEF qs
<1> DEFINE n == Len(qs)
<1>8. /\ ps \in Seq(Seq(Byte)) /\ Len(ps) = n + 1
      /\ (\A k \in 1..n : ps[k] = qs[k]) /\ ps[n + 1] = d
      /\ (\A k \in 0..n : Flat(ps, k) = Flat(qs, k))
      /\ FlattenSeq(ps) = FlattenSeq(qs) \o d
  <2>1. qs \in Seq(Seq(Byte))
    BY <1>7 DEF Three
  <2> HIDE DEF ps
  <2> QED
    BY <1>1, <1>2, <2>1, FlatAppend, ZenonT(60)
<1>9. n = 3 /\ 3 + 1 = 4
  BY <1>7 DEF Three
<1> HIDE DEF n, ps, m
<1>10. /\ Len(ps) = 4 /\ ps[1] = a /\ ps[2] = b /\ ps[3] = c /\ ps[4] = d
       /\ Flat(ps, 0) = <<>> /\ Flat(ps, 1) = a /\ Flat(ps, 2) = a \o b /\ Flat(ps, 3) = g
       /\ FlattenSeq(ps) = m
  <2>1. 1 \in 1..3 /\ 2 \in 1..3 /\ 3 \in 1..3 /\ 0 \in 0..3 /\ 1 \in 0..3 /\ 2 \in 0..3 /\ 3 \in 0..3
    BY SMT
  <2>2. /\ Len(ps) = 4 /\ (\A k \in 1..3 : ps[k] = qs[k]) /\ ps[4] = d
        /\ (\A k \in 0..3 : Flat(ps, k) = Flat(qs, k))
        /\ FlattenSeq(ps) = FlattenSeq(qs) \o d
    BY <1>8, <1>9
  <2> QED
    BY <1>7, <2>1, <2>2 DEF Three, m
<1>11. /\ a \o b \in Seq(Byte) /\ Len(a \o b) = 2
       /\ g \in Seq(Byte) /\ Len(g) = 3 /\ m \in Seq(Byte) /\ Len(m) = 7
  <2> DEFINE e == a \o b
  <2>1. e \in Seq(Byte) /\ Len(e) = 1 + 1
    <3>1. a \o b \in Seq(Byte) /\ Len(a \o b) = Len(a) + Len(b)
      BY <1>1, ConcatAt
    <3> QED
      BY <1>1, <3>1
  <2> HIDE DEF e
  <2>2. e \o c \in Seq(Byte) /\ Len(e \o c) = Len(e) + Len(c)
    BY <1>1, <2>1, ConcatAt
  <2>3. g = e \o c
    BY DEF e
  <2> HIDE DEF g
  <2>4. g \o d \in Seq(Byte) /\ Len(g \o d) = Len(g) + Len(d)
    BY <1>1, <2>2, <2>3, ConcatAt
  <2>5. (1 + 1) + 1 = 3 /\ 3 + 4 = 7 /\ 1 + 1 = 2
    OBVIOUS
  <2> QED
    BY <1>1, <2>1, <2>2, <2>3, <2>4, <2>5 DEF e, m
<1>12. ASSUME NEW x \in Seq(Byte)
       PROVE  DecodeMessage(g \o x) = IF Len(x) >= 4 THEN {Decoded(r, 7)} ELSE {}
  <2>1. g \o x = a \o (b \o (c \o x))
    <3>1. Joined(a, b, c, x)
      BY <1>1, Regroup
    <3> QED
      BY <3>1 DEF Joined
  <2>2. b \o (c \o x) \in Seq(Byte)
    <3>1. c \o x \in Seq(Byte)
      BY <1>1, ConcatAt
    <3> QED
      BY <1>1, <3>1, ConcatAt
  <2> DEFINE y == b \o (c \o x)
  <2>3. DecodeHelloHello(y) = IF Len(x) >= 4 THEN {Decoded(r, 6)} ELSE {}
    BY <1>3
  <2>4. DecodeMessage(a \o y) = After(1, DecodeHelloHello(y))
    BY <1>3, <2>2
  <2> HIDE DEF y, g
  <2> QED
    BY <1>6, <2>1, <2>3, <2>4 DEF y
<1>13. IsMessage(m, r)
  <2>1. ASSUME NEW x \in Seq(Byte) PROVE DecodeMessage(m \o x) = {Decoded(r, 7)}
    <3>1. m \o x = g \o (d \o x) /\ d \o x \in Seq(Byte) /\ Len(d \o x) = 4 + Len(x) /\ Len(x) \in Nat
      <4>1. d \o x \in Seq(Byte) /\ Len(d \o x) = Len(d) + Len(x) /\ Len(x) \in Nat
        BY <1>1, ConcatAt
      <4>2. (g \o d) \o x = g \o (d \o x)
        <5> HIDE DEF g
        <5>1. g \in Seq(Byte) /\ d \in Seq(Byte)
          BY <1>1, <1>11
        <5> QED
          BY <5>1, Assoc, Zenon
      <4> QED
        BY <1>1, <4>1, <4>2 DEF m
    <3> DEFINE i == Len(d \o x)
    <3>2. i = 4 + Len(x)
      BY <3>1
    <3> HIDE DEF i
    <3>3. i >= 4
      BY <3>1, <3>2, SMT
    <3> QED
      BY <1>12, <3>1, <3>3 DEF i
  <2>2. Len(<<>>) # 7
    OBVIOUS
  <2>3. m # <<>>
    BY <1>11, <2>2, Zenon
  <2> QED
    BY <1>11, <2>1, <2>3 DEF IsMessage
<1>14. ASSUME NEW k \in 0..Len(ps)-1, NEW x \in Seq(Byte), Len(x) < Len(ps[k + 1])
       PROVE  DecodeMessage(Flat(ps, k) \o x) = {}
  <2>1. k = 0 \/ k = 1 \/ k = 2 \/ k = 3
    BY <1>10, SMT
  <2>2. CASE k = 3
    <3>1. ps[k + 1] = d /\ Flat(ps, k) = g
      BY <1>10, <2>2
    <3> DEFINE i == Len(x)
    <3>2. i < 4 /\ i \in Nat
      <4>1. Len(ps[k + 1]) = 4
        BY <1>1, <3>1
      <4>2. Len(x) \in Nat
        OBVIOUS
      <4> QED
        BY <1>14, <4>1, <4>2
    <3> HIDE DEF i
    <3>3. ~(i >= 4)
      BY <3>2, SMT
    <3> QED
      BY <1>12, <3>1, <3>3 DEF i
  <2>3. CASE k # 3
    <3>1. (k = 0 => ps[k + 1] = a) /\ (k = 1 => ps[k + 1] = b) /\ (k = 2 => ps[k + 1] = c)
      BY <1>10
    <3>2. x = <<>>
      BY <1>1, <1>14, <2>1, <2>3, <3>1, ShortBytes
    <3>3. Flat(ps, k) \o x = Flat(ps, k)
      <4>1. k \in 0..Len(ps)
        BY SMT
      <4>2. Flat(ps, k) \in Seq(Byte)
        BY <1>8, <4>1, FlatType
      <4> QED
        BY <3>2, <4>2, EmptyConcat
    <3>4. DecodeMessage(a) = {} /\ DecodeMessage(a \o b) = {}
      <4>1. a \o <<>> = a /\ <<>> \in Seq(Byte)
        BY <1>1, EmptyConcat
      <4>2. DecodeMessage(a \o <<>>) = After(1, DecodeHelloHello(<<>>))
        BY <1>3, <4>1
      <4>3. DecodeMessage(a \o b) = After(1, DecodeHelloHello(b))
        BY <1>1, <1>3
      <4> QED
        BY <1>4, <1>6, <4>1, <4>2, <4>3
    <3> QED
      BY <1>10, <2>1, <2>3, <3>3, <3>4, NothingRead
  <2> QED
    BY <2>2, <2>3
<1>15. ps # <<>> /\ Len(m) <= Longest
  <2>1. Len(<<>>) # 4 /\ 7 <= Longest
    BY LongestIs, SMT
  <2>2. ps # <<>>
    BY <1>10, <2>1, Zenon
  <2> QED
    BY <1>11, <2>1, <2>2
<1> QED
  BY <1>8, <1>10, <1>13, <1>14, <1>15 DEF IsWhole, ps, r

-----------------------------------------------------------------------------
(* The steps of the service. *)

\* The names of the messages are the service's.
LEMMA SameNames ==
  /\ \A kind, id, result, value : Service!Reply(kind, id, result, value) = Reply(kind, id, result, value)
  /\ \A f : Service!Confirmed(f) <=> Confirmed(f)
  /\ Service!NoValue = NoValue /\ Service!Reasons = Reasons
  /\ Service!StringTags = StringTags
<1>1. Service!StringTags = StringTags
  BY DEF Service!StringTags, StringTags, Service!Tag, Tag, Service!Strings, Strings,
         Service!DataTypes, DataTypes
<1> QED
  BY <1>1 DEF Service!Reply, Reply, Service!Confirmed, Confirmed, Service!NoValue, NoValue,
              Service!Reasons, Reasons

\* What a reader makes of the output tells whether a reply was sent.
LEMMA Sends ==
  ASSUME IInv, NEW r, Answered(tx, tx', r)
  PROVE  Service!Send(r) /\ Readable(tx)'
<1>1. \/ Replies(tx)' = Append(Replies(tx), r)
      \/ TxSize - Len(tx) < Longest /\ Replies(tx)' = Replies(tx)
  BY DEF Answered
<1>2. Len(tx) \in Nat /\ TxSize \in Nat /\ Longest \in Nat
  BY SizeAssumption, LongestIs DEF IInv, Output
<1>3. TxSize - Len(tx) < Longest => ~(TxSize - Len(tx) >= Longest)
  BY <1>2, SMT
<1> QED
  BY <1>1, <1>3 DEF Service!Send, Answered

\* Nothing was written.
LEMMA Silent ==
  ASSUME tx' = tx, Readable(tx)
  PROVE  Readable(tx)' /\ Replies(tx)' = Replies(tx)
  BY DEF Readable

\* What the service sees besides.
LEMMA Seen ==
  ASSUME UNCHANGED handlers
  PROVE  /\ (TxSize - Len(tx) >= Longest)' \in BOOLEAN
         /\ ("write" \in handlers)' = ("write" \in handlers)
  OBVIOUS

\* The values of the objects, as the service sees them.
Values == [oid \in 0..13 |-> Value(oid, objects[oid])]

\* A request that comes first, when nothing was read or written.
GoesFirst(q) == Unconfirmed(q) \/ (q.kind = "hello" /\ ~(Capacity <= 255))

\* It waits only then.
Quiet ==
    \A i \in DOMAIN requests : GoesFirst(requests[i]) => i = 1 /\ tx = <<>> /\ rx.pos = 0

\* All that the steps keep.
Kept == IInv /\ Pending /\ Readable(tx) /\ Quiet

\* At first nothing is there.
LEMMA InitKept == Init => Service!Init /\ Readable(tx) /\ Quiet
<1> SUFFICES ASSUME Init PROVE Service!Init /\ Readable(tx) /\ Quiet
  OBVIOUS
<1>1. tx = <<>> /\ requests = <<>> /\ objects = [oid \in 0..13 |-> [i \in 1..BodySize(oid) |-> 0]]
  BY DEF Init
<1>2. Readable(tx) /\ Replies(tx) = <<>>
  BY <1>1, LiveEmpty, NothingRead DEF Readable
<1>3. Quiet
  BY <1>1 DEF Quiet
<1>4. Values = [oid \in 0..13 |-> Value(oid, [i \in 1..BodySize(oid) |-> 0])]
  BY <1>1 DEF Values
<1> QED
  BY <1>1, <1>2, <1>3, <1>4 DEF Service!Init, Values

\* Messages arrive when the ones before them are processed.
LEMMA AskKept ==
  ASSUME Proper, NEW batch \in Batches, Receive(batch)
  PROVE  Service!Next /\ Readable(tx)' /\ Quiet'
<1>1. /\ requests = <<>> /\ requests' = batch /\ tx' = <<>> /\ rx'.pos = 0
      /\ UNCHANGED <<handlers, objects>>
  BY DEF Receive
<1>2. Readable(tx)' /\ Replies(tx)' = <<>>
  BY <1>1, LiveEmpty, NothingRead DEF Readable
<1>3. Quiet'
  <2>1. batch \in Seq(Request)
    BY RequestsAre
  <2>2. \A i \in 1..Len(batch) : GoesFirst(batch[i]) => i = 1
    BY DEF Proper, GoesFirst
  <2> QED
    BY <1>1, <2>1, <2>2 DEF Quiet
<1>4. Service!Ask(batch)
  BY <1>1, <1>2 DEF Service!Ask
<1> QED
  BY <1>1, <1>2, <1>3, <1>4, Seen DEF Service!Next

\* The requests behind the first are confirmed.
LEMMA QuietKept ==
  ASSUME IInv, Quiet, Processed PROVE Quiet'
<1>1. requests \in Seq(Request) /\ requests # <<>> /\ requests' = Tail(requests)
  BY DEF IInv, Processed
<1>2. ASSUME NEW i \in DOMAIN requests' PROVE ~GoesFirst(requests'[i])
  <2> DEFINE r == requests
             j == i + 1
  <2>1. j \in DOMAIN r /\ Tail(r)[i] = r[j] /\ j # 1
    BY <1>1, <1>2, SMT
  <2> HIDE DEF j
  <2> QED
    BY <1>1, <2>1 DEF Quiet
<1> QED
  BY <1>2 DEF Quiet

\* An unconfirmed command leaves no output.
LEMMA Unanswered ==
  ASSUME IInv, Quiet, requests # <<>>, NEW field, NEW t, Output(t), tx' \in Confirm(field, t),
         ~Confirmed(field) => Unconfirmed(Head(requests))
  PROVE  IF Confirmed(field) THEN tx' = t ELSE tx' = tx
<1>1. CASE Confirmed(field)
  BY <1>1 DEF Confirm
<1>2. CASE ~Confirmed(field)
  <2>1. tx = <<>> /\ rx.pos = 0
    <3>1. requests \in Seq(Request)
      BY DEF IInv
    <3>2. 1 \in DOMAIN requests /\ Head(requests) = requests[1]
      BY <3>1
    <3> QED
      BY <1>2, <3>2 DEF Quiet, GoesFirst
  <2>2. tx' \in SeekSet(t, 0)
    BY <1>2, <2>1 DEF Confirm
  <2>3. t \in Seq(Byte) /\ 0 <= Len(t) /\ SubSeq(t, 1, 0) = <<>>
    BY DEF Output
  <2>4. SeekSet(t, 0) = {SubSeq(t, 1, 0)}
    <3>1. ~(0 > Len(t))
      BY <2>3, SMT
    <3> QED
      BY <2>3, <3>1, Zenon DEF SeekSet
  <2> QED
    BY <1>2, <2>1, <2>2, <2>3, <2>4
<1> QED
  BY <1>1, <1>2

\* The type a value is put with.
PutTag(ty) == IF ty \in StringTags THEN Tag("string") ELSE ty

\* A value of an object is put as one that is alike.
LEMMA FittingPut ==
  ASSUME Capacity \in Sized, NEW ty, NEW b, Fitting(ty, b)
  PROVE  /\ PutTag(ty) \in 0..13 /\ Service!Alike(PutTag(ty), ty)
         /\ IsPut(PutValue(ValueRecord(ty, b)), ValueRecord(PutTag(ty), b))
<1> DEFINE v == ValueRecord(ty, b)
<1>1. v.type = ty /\ v.body = b
  BY DEF ValueRecord
<1>2. Tag("string") = 12 /\ Tag("string") \in StringTags
  BY StringTag
<1>3. ty \in 0..13 /\ b \in Seq(Byte)
  BY DEF Fitting
<1>4. CASE ty \in StringTags
  <2>1. PutTag(ty) = 12
    BY <1>2, <1>4 DEF PutTag
  <2>2. Len(b) <= Capacity
    BY <1>4 DEF Fitting
  <2>3. PutValue(v) = <<<<12>>, CUint(Len(b)), b>>
    BY <1>1, <1>2, <1>4 DEF PutValue
  <2>4. Service!Alike(PutTag(ty), ty)
    BY <1>2, <1>4, <2>1, SameNames DEF Service!Alike
  <2>5. IsPut(<<<<12>>, CUint(Len(b)), b>>, ValueRecord(12, b))
    BY <1>3, <2>2, StringPut
  <2> QED
    BY <2>1, <2>3, <2>4, <2>5
<1>5. CASE ty \notin StringTags
  <2>1. PutTag(ty) = ty
    BY <1>5 DEF PutTag
  <2>2. PutValue(v) = <<<<ty>>, b>>
    BY <1>1, <1>5 DEF PutValue
  <2>3. IsPut(<<<<ty>>, b>>, ValueRecord(ty, b))
    BY <1>3, <1>5, PlainPut
  <2> QED
    BY <1>3, <2>1, <2>2, <2>3 DEF Service!Alike
<1> QED
  BY <1>4, <1>5

\* The bounds of Proper are those of one byte.
LEMMA ShortOnes ==
  ASSUME Proper
  PROVE  Capacity \in Sized /\ \A a \in Alerts : a.aid \in Short
<1>1. Capacity \in Nat /\ Capacity <= 65535
  BY SizeAssumption DEF Proper
<1>2. \A a \in Alerts : a.aid \in Nat /\ a.aid <= 255
  BY AlertAssumption, U32Nat DEF Proper
<1> QED
  <2>1. Capacity \in Sized
    BY <1>1, SizedIs
  <2>2. \A n \in Nat : n <= 255 => n \in Short
    BY SMT DEF Short
  <2> QED
    BY <1>2, <2>1, <2>2

\* An answer that is written at once is there, or there was no room for it.
LEMMA AnswerWritten ==
  ASSUME IInv, Readable(tx), NEW ps, NEW r, IsWhole(ps, r), Live(tx) \/ ps[1] \in Leads
  PROVE  Answered(tx, WrittenAll(tx, ps), r)
<1>1. Output(tx) /\ ps \in Seq(Seq(Byte))
  BY DEF IInv, IsWhole
<1>2. Cut(tx, ps, WrittenAll(tx, ps))
  BY <1>1, CutOf
<1> QED
  BY <1>1, <1>2, Answers

\* So the step sends it.
LEMMA WholeAnswer ==
  ASSUME IInv, Readable(tx), NEW ps, NEW r, IsWhole(ps, r), Live(tx) \/ ps[1] \in Leads,
         tx' = WrittenAll(tx, ps)
  PROVE  Service!Send(r) /\ Readable(tx)'
<1>1. Answered(tx, tx', r)
  BY AnswerWritten
<1> QED
  BY <1>1, Sends

\* What the application sends fits an object of its type.
LEMMA AlertFits ==
  ASSUME Proper, NEW a \in Alerts
  PROVE  /\ Fitting(a.value.type, a.value.body)
         /\ a.value = ValueRecord(a.value.type, a.value.body)
         /\ a.value.type # Tag("double") /\ a.aid \in Short
<1>1. Typed(a.value)
  BY AlertAssumption
<1>2. /\ a.value.type # Tag("double")
      /\ a.value.type \in StringTags => Len(a.value.body) <= Capacity
  BY DEF Proper
<1>3. a.value = ValueRecord(a.value.type, a.value.body)
  BY <1>1, Zenon DEF Typed, ValueRecord
<1> QED
  BY <1>1, <1>2, <1>3, ShortOnes DEF Typed, Fitting

\* An alert is sent.
LEMMA InformKept ==
  ASSUME Proper, ~AlertsAnytime, Kept, NEW a \in Alerts, SendAlert(a)
  PROVE  Service!Next /\ Readable(tx)' /\ Quiet'
<1> DEFINE ty == a.value.type
           b  == a.value.body
           v  == ValueRecord(ty, b)
           hs == <<<<ALERT>>, CUint(a.aid)>>
           r  == Reply("alert", a.aid, 0, ValueRecord(PutTag(ty), b))
<1>0. IInv /\ Readable(tx) /\ Quiet
  BY DEF Kept
<1>1. /\ tx' = WrittenAll(tx, hs \o PutValue(v))
      /\ UNCHANGED <<handlers, objects, rx, requests>>
      /\ \A i \in DOMAIN requests : ~Unconfirmed(requests[i])
  <2>1. PICK u : /\ u \in IF ty = Tag("double")
                             THEN {[type |-> Tag("i8"), body |-> <<c>>] : c \in Byte}
                             ELSE {a.value}
                 /\ tx' = WrittenAll(tx, hs \o PutValue(u))
    BY Zenon DEF SendAlert
  <2>2. u = v
    BY <2>1, AlertFits
  <2>3. /\ UNCHANGED <<handlers, objects, rx, requests>>
        /\ \A i \in DOMAIN requests : ~Unconfirmed(requests[i])
    BY Zenon DEF SendAlert
  <2> QED
    BY <2>1, <2>2, <2>3
<1>2. /\ PutTag(ty) \in 0..13 /\ Service!Alike(PutTag(ty), ty)
      /\ IsPut(PutValue(v), ValueRecord(PutTag(ty), b))
  BY AlertFits, ShortOnes, FittingPut
<1>3. IsAnswer(hs \o PutValue(v), r)
  BY <1>2, AlertFits, AlertLead, LeadAnswer
<1> DEFINE ps == hs \o PutValue(v)
<1>4. IsAnswer(ps, r) /\ tx' = WrittenAll(tx, ps)
  BY <1>1, <1>3
<1> HIDE DEF ps, r
<1>5. Service!Send(r) /\ Readable(tx)'
  BY <1>0, <1>4, WholeAnswer DEF IsAnswer
<1>6. r = Service!Reply("alert", a.aid, 0, [a.value EXCEPT !.type = PutTag(ty)])
  <2>1. [v EXCEPT !.type = PutTag(ty)] = ValueRecord(PutTag(ty), b)
    BY DEF ValueRecord
  <2>2. a.value = v
    BY AlertFits
  <2> QED
    BY <2>1, <2>2, SameNames, Zenon DEF r
<1>7. Service!Inform(a)
  BY <1>1, <1>2, <1>5, <1>6, Zenon DEF Service!Inform
<1>8. Quiet'
  <2>1. ASSUME NEW i \in DOMAIN requests PROVE ~GoesFirst(requests[i])
    <3>1. requests[i] \in Request
      BY <1>0 DEF IInv
    <3>2. PICK batch \in Batches : requests[i] \in Range(batch)
      BY <3>1 DEF Request
    <3>3. PICK k \in 1..Len(batch) : requests[i] = batch[k]
      BY <3>2, RequestsAre DEF Range
    <3>4. requests[i].kind = "hello" => Capacity <= 255
      BY <3>3 DEF Proper
    <3> QED
      BY <1>1, <3>4 DEF GoesFirst
  <2> QED
    BY <1>1, <2>1 DEF Quiet
<1> QED
  BY <1>1, <1>5, <1>7, <1>8, Seen DEF Service!Next

\* Each step that processes a request serves it.
Serving(q) == Service!ServeRead(q) \/ Service!ServeWrite(q) \/ Service!ServeHello(q) \/ Service!ServeOther(q)

\* A hello is answered.
LEMMA HelloKept ==
  ASSUME Kept, Processed, Next, Head(requests).kind = "hello"
  PROVE  Serving(Head(requests)) /\ Readable(tx)'
<1> DEFINE q == Head(requests)
           s == Ahead(0)
           b == Tail(q.bytes)
<1>0. IInv /\ Readable(tx) /\ Pending
  BY DEF Kept
<1>9. Live(tx) \/ HelloPieces[1] \in Leads
  <2>1. HelloPieces[1] = <<HELLOHELLO>>
    BY DEF HelloPieces
  <2>2. CASE Capacity <= 255
    BY <2>1, <2>2, LeadBytes
  <2>3. CASE ~(Capacity <= 255)
    <3>1. requests \in Seq(Request) /\ requests # <<>>
      BY <1>0 DEF IInv, Processed
    <3>2. 1 \in DOMAIN requests /\ Head(requests) = requests[1]
      BY <3>1
    <3>3. tx = <<>>
      BY <2>3, <3>2 DEF Kept, Quiet, GoesFirst
    <3> QED
      BY <3>3, LiveEmpty
  <2> QED
    BY <2>2, <2>3
<1>1. ServesHello(q) /\ Rest \in Seq(Byte)
  BY <1>0, HellosServed, PendingHead DEF Processed
<1> HIDE DEF q
<1>2. /\ Tail(s) = b \o Rest /\ b \in Seq(Byte)
      /\ HelloAt(b) = [ok |-> TRUE, used |-> Len(b)] /\ ProcessHello(s)
  BY <1>1 DEF ServesHello
<1>3. HelloAt(b \o Rest) = HelloAt(b)
  <2> HIDE DEF b
  <2> QED
    BY <1>1, <1>2, HelloTaken
<1>4. HelloAt(Tail(s)).ok
  <2>1. HelloAt(Tail(s)) = [ok |-> TRUE, used |-> Len(b)]
    BY <1>2, <1>3
  <2> HIDE DEF s
  <2> QED
    BY <2>1
<1> HIDE DEF s
<1>5. tx' = WrittenAll(tx, HelloPieces) /\ UNCHANGED objects
  BY <1>2, <1>4, Zenon DEF ProcessHello, HelloPieces
<1>6. Service!Send(Reply("hello", 1, 0, NoValue)) /\ Readable(tx)'
  BY <1>0, <1>5, <1>9, HelloAnswer, WholeAnswer
<1>7. q.kind = "hello"
  BY DEF q
<1>8. Service!ServeHello(q)
  BY <1>5, <1>6, <1>7, SameNames, Zenon DEF Service!ServeHello
<1> QED
  BY <1>6, <1>8 DEF Serving, q

-----------------------------------------------------------------------------
(* Reads. *)

\* The first three bytes of a response, as they are written.
LEMMA HeadsWritten ==
  ASSUME IInv, NEW f \in Byte, NEW c \in {READ, WRITE}
  PROVE  /\ Output(WrittenAll(tx, Heads(f, c)))
         /\ Cut(tx, Heads(f, c), WrittenAll(tx, Heads(f, c)))
<1> DEFINE hs == Heads(f, c)
<1>1. hs \in Seq(Seq(Byte))
  BY HeadsRead
<1>2. Output(tx)
  BY DEF IInv
<1> HIDE DEF hs
<1> QED
  BY <1>1, <1>2, CutOf, WrittenAllTo DEF hs

\* Pieces that follow single bytes.
LEMMA WrittenAfter ==
  ASSUME NEW t, Output(t), NEW ps \in Seq(Seq(Byte)), Singles(ps), NEW u, Output(u), Cut(t, ps, u),
         NEW qs \in Seq(Seq(Byte)), qs # <<>>, qs[1] # <<>>
  PROVE  Cut(t, ps \o qs, WrittenAll(u, qs)) /\ Output(WrittenAll(u, qs))
<1>1. Cut(u, qs, WrittenAll(u, qs)) /\ Output(WrittenAll(u, qs))
  BY CutOf, WrittenAllTo
<1>2. t \in Seq(Byte) /\ Len(t) <= TxSize
  BY DEF Output
<1> QED
  BY <1>1, <1>2, CutJoin

\* One byte more.
LEMMA WrittenByte ==
  ASSUME NEW t, Output(t), NEW ps \in Seq(Seq(Byte)), Singles(ps), NEW u, Output(u), Cut(t, ps, u),
         NEW b \in Byte
  PROVE  /\ Cut(t, ps \o <<<<b>>>>, Written(u, <<b>>)) /\ Output(Written(u, <<b>>))
         /\ Singles(ps \o <<<<b>>>>) /\ ps \o <<<<b>>>> \in Seq(Seq(Byte))
<1> DEFINE c == <<b>>
           qs == <<c>>
<1>1. c \in Seq(Byte) /\ Len(c) = 1 /\ c # <<>>
  BY ByteSeqs
<1> HIDE DEF c
<1>2. qs \in Seq(Seq(Byte)) /\ qs # <<>> /\ qs[1] = c
  BY <1>1
<1>3. Cut(u, qs, Written(u, c)) /\ Output(Written(u, c))
  BY <1>1, CutWritten, WrittenType
<1>4. t \in Seq(Byte) /\ Len(t) <= TxSize
  BY DEF Output
<1>5. /\ ps \o qs \in Seq(Seq(Byte)) /\ Len(ps \o qs) = Len(ps) + 1
      /\ \A k \in 1..Len(ps) : (ps \o qs)[k] = ps[k]
      /\ (ps \o qs)[Len(ps) + 1] = c
  BY <1>1, FlatAppend
<1> HIDE DEF qs
<1>6. Cut(t, ps \o qs, Written(u, c))
  BY <1>1, <1>2, <1>3, <1>4, CutJoin
<1>7. Singles(ps \o qs)
  <2> DEFINE n == Len(ps)
             rs == ps \o qs
  <2>1. n \in Nat /\ Len(rs) = n + 1
    BY <1>5
  <2>2. /\ \A k \in 1..n : rs[k] = ps[k] /\ Len(ps[k]) = 1
        /\ Len(rs[n + 1]) = 1
    BY <1>1, <1>5 DEF Singles
  <2> HIDE DEF n, rs
  <2>3. \A k \in 1..Len(rs) : k \in 1..n \/ k = n + 1
    BY <2>1, SMT
  <2>4. \A k \in 1..Len(rs) : Len(rs[k]) = 1
    BY <2>2, <2>3
  <2> QED
    BY <2>4 DEF Singles, rs
<1> QED
  BY <1>3, <1>5, <1>6, <1>7 DEF qs, c

\* The bytes of a refusal.
LEMMA RefusalBytes ==
  ASSUME NEW w \in Byte
  PROVE  <<<<1>>, <<w>>>> \in Seq(Seq(Byte)) /\ <<<<1>>, <<w>>>> # <<>> /\ <<<<1>>, <<w>>>>[1] # <<>>
<1> DEFINE a == <<1>>
           b == <<w>>
<1>1. a \in Seq(Byte) /\ b \in Seq(Byte) /\ a # <<>>
  BY ByteSeqs
<1> HIDE DEF a, b
<1> QED
  BY <1>1 DEF a, b

\* The values of objects can be put.
LEMMA ObjectFits ==
  ASSUME IInv, NEW oid \in 0..13
  PROVE  Fitting(oid, objects[oid])
  BY DEF IInv, ObjectsOK, Fitting

\* The response to a read of an object gives its value,
LEMMA ReadAnswered ==
  ASSUME Proper, IInv, Readable(tx), NEW f \in Byte, NEW oid \in 0..13
  PROVE  Answered(tx, ReadResponse(f, oid),
                  Reply("read", f % 128, 0, ValueRecord(PutTag(oid), objects[oid])))
<1> DEFINE hs   == Heads(f, READ)
           head == WrittenAll(tx, hs)
           said == Written(head, <<0>>)
           v    == ValueRecord(oid, objects[oid])
           ps   == PutValue(v)
           ls   == hs \o <<<<0>>>>
           done == WrittenAll(said, ps)
           w    == ValueRecord(PutTag(oid), objects[oid])
<1>1. "read" \in handlers
  BY DEF Proper, IInv
<1>2. ReadResponse(f, oid) = done
  <2>1. ~("read" \notin handlers)
    BY <1>1
  <2> QED
    BY <1>1, <2>1, Zenon DEF ReadResponse, Heads, ValueRecord
<1>3. IsPut(ps, w)
  BY ObjectFits, ShortOnes, FittingPut
<1>4. ps \in Seq(Seq(Byte)) /\ ps # <<>> /\ ps[1] # <<>>
  BY <1>3 DEF IsPut
<1>5. IsLead(ls, "read", f % 128)
  BY ReadLead
<1>6. Output(tx) /\ hs \in Seq(Seq(Byte)) /\ Singles(hs) /\ Output(head) /\ Cut(tx, hs, head)
  BY HeadsRead, HeadsWritten DEF IInv
<1> HIDE DEF hs, head, ps
<1>7. Cut(tx, ls, said) /\ Output(said) /\ Singles(ls) /\ ls \in Seq(Seq(Byte))
  BY <1>6, WrittenByte, ByteSeqs
<1> HIDE DEF ls, said
<1>8. Cut(tx, ls \o ps, done)
  BY <1>4, <1>6, <1>7, WrittenAfter
<1> HIDE DEF done, w
<1>9. IsAnswer(ls \o ps, Reply("read", f % 128, 0, w))
  BY <1>3, <1>5, LeadAnswer
<1>10. Answered(tx, done, Reply("read", f % 128, 0, w))
  BY <1>6, <1>8, <1>9, Answers DEF IsAnswer
<1> QED
  BY <1>2, <1>10 DEF w

\* and that to a read of no object says why not.
LEMMA ReadRefused ==
  ASSUME Proper, IInv, Readable(tx), NEW f \in Byte, NEW oid \in Nat, oid \notin 0..13
  PROVE  /\ Why(oid) \in Reasons
         /\ Answered(tx, ReadResponse(f, oid), Reply("read", f % 128, 1 + Why(oid), NoValue))
<1> DEFINE hs   == Heads(f, READ)
           head == WrittenAll(tx, hs)
           said == Written(head, <<0>>)
           w    == Why(oid)
           no   == <<<<1>>, <<w>>>>
           done == WrittenAll(head, no)
           r    == Reply("read", f % 128, 1 + w, NoValue)
<1>1. "read" \in handlers
  BY DEF Proper, IInv
<1>2. w \in Reasons /\ w \in Byte
  <2>1. w \in Reasons
    BY SMT DEF Why, Reasons, UNKNOWN
  <2> QED
    BY <2>1, WhyType
<1>3. ReadResponse(f, oid) = WrittenAll(SubSeq(said, 1, Len(head)), no)
  <2>1. ~("read" \notin handlers) /\ ~("read" \in handlers /\ oid \in 0..13)
    BY <1>1
  <2> QED
    BY <2>1, Zenon DEF ReadResponse, Heads
<1>4. Output(tx) /\ hs \in Seq(Seq(Byte)) /\ Singles(hs) /\ Output(head) /\ Cut(tx, hs, head)
  BY HeadsRead, HeadsWritten DEF IInv
<1>5. KindOf(READ) = "read"
  BY DEF KindOf, READ, WRITE
<1>6. IsAnswer(hs \o no, r)
  BY <1>2, <1>5, RefusalAnswer
<1> HIDE DEF hs, head, w, r
<1>7. SubSeq(said, 1, Len(head)) = head
  <2>1. head \in Seq(Byte) /\ <<0>> \in Seq(Byte)
    BY <1>4, ByteSeqs DEF Output
  <2>2. SubSeq(head \o <<0>>, 1, Len(head)) = head /\ SubSeq(head, 1, Len(head)) = head
    BY <2>1, FlatFirst
  <2> QED
    BY <2>2 DEF Written
<1>8. no \in Seq(Seq(Byte)) /\ no # <<>> /\ no[1] # <<>>
  BY <1>2, RefusalBytes
<1> HIDE DEF no
<1>9. Cut(tx, hs \o no, done)
  BY <1>4, <1>8, WrittenAfter
<1>10. Answered(tx, done, r)
  BY <1>4, <1>6, <1>9, Answers DEF IsAnswer
<1>11. ReadResponse(f, oid) = done
  BY <1>3, <1>7
<1> HIDE DEF done
<1> QED
  BY <1>2, <1>10, <1>11 DEF w, r

\* An answer is given, unless the command is not confirmed.
LEMMA Answering ==
  ASSUME Kept, requests # <<>>, NEW field, NEW t, Output(t), tx' \in Confirm(field, t),
         ~Confirmed(field) => Unconfirmed(Head(requests)), NEW r, Answered(tx, t, r)
  PROVE  Service!Answer(field, r) /\ Readable(tx)'
<1>0. IInv /\ Readable(tx) /\ Quiet
  BY DEF Kept
<1>1. IF Confirmed(field) THEN tx' = t ELSE tx' = tx
  BY <1>0, Unanswered
<1>2. CASE Confirmed(field)
  <2>1. Answered(tx, tx', r)
    BY <1>1, <1>2
  <2>2. Service!Send(r) /\ Readable(tx)'
    BY <1>0, <2>1, Sends
  <2> QED
    BY <1>2, <2>2, SameNames DEF Service!Answer
<1>3. CASE ~Confirmed(field)
  <2>1. Replies(tx)' = Replies(tx) /\ Readable(tx)'
    BY <1>0, <1>1, <1>3, Silent
  <2> QED
    BY <1>3, <2>1, SameNames DEF Service!Answer
<1> QED
  BY <1>2, <1>3

\* A read is served.
LEMMA ReadKept ==
  ASSUME Proper, Kept, Processed, Next, Head(requests).kind = "read"
  PROVE  Serving(Head(requests)) /\ Readable(tx)'
<1> DEFINE q == Head(requests)
           s == Ahead(0)
           f == q.field
           oid == q.oid
           t == ReadResponse(f, oid)
<1>0. Kept /\ IInv /\ Readable(tx) /\ Pending /\ requests # <<>>
  BY DEF Kept, Processed
<1>1. ServesRead(q) /\ q.kind = "read"
  BY <1>0, ReadsServed
<1>2. ~Confirmed(f) => Unconfirmed(q)
  BY <1>1 DEF Unconfirmed
<1> HIDE DEF q
<1>3. /\ IsCommand(s, q, READ, Rest) /\ ProcessRead(s)
      /\ s[2] = f /\ UintAt(From(s, 3)) = Got("uint", 0, oid, Len(Uint(oid)))
      /\ f \in Byte /\ oid \in U32
  BY <1>1 DEF ServesRead, IsCommand
<1>4. UintAt(From(s, 3)).ok /\ UintAt(From(s, 3)).lo = oid
  BY <1>3 DEF Got
<1>5. tx' \in Confirm(f, t) /\ UNCHANGED objects
  BY <1>3, <1>4, Zenon DEF ProcessRead
<1>6. oid \in Nat
  BY <1>3, U32Nat
<1>7. Output(t)
  BY <1>0, <1>3, <1>6, ReadResponseType
<1> HIDE DEF f, s, oid
<1>9. DOMAIN Values = 0..13 /\ \A n \in 0..13 : Values[n] = ValueRecord(n, objects[n])
  BY DEF Values, Value, ValueRecord
<1>10. ASSUME NEW r, Answered(tx, t, r)
       PROVE  Service!Answer(f, r) /\ Readable(tx)'
  <2> HIDE DEF t
  <2> QED
    BY <1>0, <1>2, <1>5, <1>7, <1>10, Answering DEF q
<1>11. CASE oid \in 0..13
  <2> DEFINE r == Reply("read", f % 128, 0, ValueRecord(PutTag(oid), objects[oid]))
  <2>1. Answered(tx, t, r)
    BY <1>0, <1>3, <1>11, ReadAnswered DEF f
  <2>2. PutTag(oid) \in 0..13 /\ Service!Alike(PutTag(oid), oid)
    BY <1>0, <1>11, ObjectFits, ShortOnes, FittingPut
  <2>3. Service!Answer(f, r) /\ Readable(tx)'
    BY <1>10, <2>1
  <2>4. /\ [Values[oid] EXCEPT !.type = PutTag(oid)] = ValueRecord(PutTag(oid), objects[oid])
        /\ Values[oid].type = oid
    BY <1>9, <1>11 DEF ValueRecord
  <2>5. Service!Answer(f, Service!Reply("read", f % 128, 0, [Values[oid] EXCEPT !.type = PutTag(oid)]))
    BY <2>3, <2>4, SameNames
  <2> HIDE DEF r
  <2>6. Service!ServeRead(q)
    BY <1>1, <1>5, <1>9, <1>11, <2>2, <2>4, <2>5, Zenon DEF Service!ServeRead, Values, f, oid
  <2> QED
    BY <2>3, <2>6 DEF Serving, q
<1>12. CASE oid \notin 0..13
  <2> DEFINE r == Reply("read", f % 128, 1 + Why(oid), NoValue)
  <2>1. Why(oid) \in Reasons /\ Answered(tx, t, r)
    BY <1>0, <1>3, <1>6, <1>12, ReadRefused DEF f
  <2>2. Service!Answer(f, r) /\ Readable(tx)'
    BY <1>10, <2>1
  <2>3. /\ Service!Answer(f, Service!Reply("read", f % 128, 1 + Why(oid), Service!NoValue))
        /\ Why(oid) \in Service!Reasons
    BY <2>1, <2>2, SameNames
  <2>4. Service!Refuse(q)
    BY <1>1, <2>3, Zenon DEF Service!Refuse, f
  <2>5. Service!ServeRead(q)
    BY <1>1, <1>5, <1>9, <1>12, <2>4, Zenon DEF Service!ServeRead, Values, oid
  <2> QED
    BY <2>2, <2>5 DEF Serving, q
<1> QED
  BY <1>11, <1>12

-----------------------------------------------------------------------------
(* Writes. *)

\* The bytes b of s behind m bytes and h.
Lies(s, m, h, b) ==
    /\ m + Len(h) + Len(b) <= Len(s)
    /\ SubSeq(s, m + Len(h) + 1, m + Len(h) + Len(b)) = b

\* The middle of what is left.
LEMMA MiddlePart ==
  ASSUME NEW s \in Seq(Byte), NEW m \in 0..Len(s), NEW h \in Seq(Byte), NEW b \in Seq(Byte),
         NEW x \in Seq(Byte), From(s, m) = (h \o b) \o x
  PROVE  Lies(s, m, h, b)
<1> DEFINE f == From(s, m)
           hb == h \o b
           k == Len(h)
           n == Len(b)
           j == m + k
           a == j + 1
           e == j + n
           p == SubSeq(s, a, e)
<1>1. hb \in Seq(Byte) /\ Len(hb) = k + n /\ k \in Nat /\ n \in Nat
      /\ \A i \in 1..n : hb[k + i] = b[i]
  BY ConcatAt
<1> HIDE DEF hb
<1>2. /\ f = hb \o x /\ Len(f) = Len(hb) + Len(x) /\ Len(x) \in Nat
      /\ \A i \in 1..Len(hb) : f[i] = hb[i]
  BY <1>1, ConcatAt DEF hb
<1>3. Len(f) = Len(s) - m /\ m \in Nat /\ Len(s) \in Nat /\ \A i \in 1..Len(s)-m : f[i] = s[m + i]
  <2>1. Len(f) = Len(s) - m
    BY FromType
  <2>2. \A i \in 1..Len(s)-m : f[i] = s[m + i]
    BY FromAt
  <2>3. m \in Nat /\ Len(s) \in Nat
    OBVIOUS
  <2> QED
    BY <2>1, <2>2, <2>3
<1> HIDE DEF f, k, n
<1>4. /\ j + n <= Len(s) /\ a \in Nat /\ e \in Nat /\ 1 <= a /\ a <= e + 1 /\ e - a + 1 = n
  BY <1>1, <1>2, <1>3, SMT
<1>5. ASSUME NEW i \in 1..n PROVE s[j + i] = b[i]
  <2> DEFINE l == k + i
  <2>1. l \in 1..Len(hb) /\ l \in 1..Len(s)-m /\ m + l = j + i
    BY <1>1, <1>2, <1>3, SMT
  <2>2. hb[l] = b[i]
    BY <1>1
  <2> HIDE DEF l, j
  <2>3. f[l] = s[m + l] /\ f[l] = hb[l]
    BY <1>2, <1>3, <2>1
  <2> QED
    BY <2>1, <2>2, <2>3
<1>6. \A i \in 1..n : p[i] = s[j + i]
  <2> SUFFICES ASSUME NEW i \in 1..n PROVE p[i] = s[j + i]
    OBVIOUS
  <2>1. a + i - 1 = j + i /\ i \in 1..(e - a + 1)
    BY <1>1, <1>3, <1>4, SMT
  <2> HIDE DEF a, e, j
  <2>2. p[i] = s[a + i - 1]
    BY <1>4, <2>1, SMT
  <2> QED
    BY <2>1, <2>2
<1>7. p \in Seq(Byte) /\ Len(p) = n
  <2>1. e <= Len(s)
    BY <1>4
  <2> HIDE DEF a, e
  <2>2. SubSeq(s, a, e) \in Seq(Byte) /\ Len(SubSeq(s, a, e)) = e - a + 1
    BY <1>4, <2>1, SubType
  <2> QED
    BY <1>4, <2>2
<1>8. \A i \in 1..Len(p) : p[i] = b[i]
  <2> HIDE DEF p, j
  <2> QED
    BY <1>5, <1>6, <1>7
<1> HIDE DEF p
<1>9. p = b
  BY <1>7, <1>8, BytesEqual DEF n
<1> QED
  BY <1>4, <1>9 DEF p, a, e, j, k, n, Lies

\* The parts of an encoded value.
LEMMA ValueParts ==
  ASSUME NEW v, Typed(v)
  PROVE  \E h \in Seq(Byte) :
           /\ EncodeValue(v) = h \o v.body
           /\ Len(h) = 1 + (IF v.type \in StringTags THEN Len(Uint(Len(v.body))) ELSE 0)
<1> DEFINE a == <<v.type>>
           l == IF v.type \in StringTags THEN Uint(Len(v.body)) ELSE <<>>
           h == a \o l
<1>1. v.type \in 0..13 /\ v.body \in Seq(Byte) /\ (v.type \in StringTags => Len(v.body) \in U32)
  BY DEF Typed
<1>2. a \in Seq(Byte) /\ Len(a) = 1
  BY <1>1, ByteSeqs
<1>3. l \in Seq(Byte) /\ Len(l) = IF v.type \in StringTags THEN Len(Uint(Len(v.body))) ELSE 0
  BY <1>1, UintTaken, EmptyConcat
<1>4. EncodeValue(v) = h \o v.body
  BY DEF EncodeValue
<1> HIDE DEF a, l
<1>5. h \in Seq(Byte) /\ Len(h) = Len(a) + Len(l)
  BY <1>2, <1>3, ConcatAt
<1>6. Len(h) = 1 + (IF v.type \in StringTags THEN Len(Uint(Len(v.body))) ELSE 0)
  BY <1>2, <1>3, <1>5
<1> QED
  BY <1>4, <1>5, <1>6

\* The body that a write stores is that of its value.
BodyThere(s, n, m, d, v) ==
    /\ StoredBody(s, n, m, d) = v.body
    /\ d.form \in Strings => d.lo = Len(v.body) /\ d.lo <= Len(s) - n

\* The body is found where it was put.
LEMMA BodyStored ==
  ASSUME NEW v, Typed(v), NEW x \in Seq(Byte), NEW s \in Seq(Byte), NEW m \in 0..Len(s),
         From(s, m) = EncodeValue(v) \o x, NEW d, IsValueRead(d, v), NEW n, n = m + d.used
  PROVE  BodyThere(s, n, m, d, v)
<1>1. PICK h \in Seq(Byte) :
           /\ EncodeValue(v) = h \o v.body
           /\ Len(h) = 1 + (IF v.type \in StringTags THEN Len(Uint(Len(v.body))) ELSE 0)
  BY ValueParts
<1> DEFINE b == v.body
           k == Len(b)
           j == m + Len(h)
<1>2. b \in Seq(Byte) /\ k \in Nat /\ m \in Nat /\ Len(s) \in Nat /\ Len(h) \in Nat
  BY DEF Typed
<1>3. m + Len(h) + Len(b) <= Len(s) /\ SubSeq(s, m + Len(h) + 1, m + Len(h) + Len(b)) = b
  <2>1. From(s, m) = (h \o b) \o x
    BY <1>1
  <2>2. b \in Seq(Byte)
    BY <1>2
  <2> HIDE DEF b
  <2>3. Lies(s, m, h, b)
    BY <2>1, <2>2, MiddlePart
  <2> QED
    BY <2>3 DEF Lies
<1>4. d.form \in Strings <=> v.type \in StringTags
  BY StringTagsAre DEF Typed, IsValueRead
<1>5. CASE v.type \in StringTags
  <2>1. d.lo = k /\ n = j
    BY <1>1, <1>5 DEF IsValueRead
  <2>2. StoredBody(s, n, m, d) = SubSeq(s, n + 1, n + d.lo)
    BY <1>4, <1>5 DEF StoredBody
  <2>3. StoredBody(s, n, m, d) = b
    BY <1>3, <2>1, <2>2
  <2>4. k <= Len(s) - j
    <3>1. j + k <= Len(s)
      BY <1>3
    <3>2. j \in Nat
      BY <1>2
    <3> HIDE DEF j, k
    <3> QED
      BY <1>2, <3>1, <3>2, SMT
  <2> QED
    BY <2>1, <2>3, <2>4 DEF BodyThere
<1>6. CASE v.type \notin StringTags
  <2>1. d.used = 1 + k /\ Len(h) = 1 /\ d.form \notin Strings
    <3>1. Len(h) = 1 + 0 /\ 1 + 0 = 1
      BY <1>1, <1>6
    <3> QED
      BY <1>4, <1>6, <3>1 DEF IsValueRead
  <2>2. StoredBody(s, n, m, d) = SubSeq(s, m + 2, n)
    BY <2>1 DEF StoredBody
  <2>3. m + Len(h) + 1 = m + 2 /\ m + Len(h) + k = n
    <3> HIDE DEF k
    <3> QED
      BY <1>2, <2>1, SMT
  <2>4. StoredBody(s, n, m, d) = b
    BY <1>3, <2>2, <2>3
  <2> QED
    BY <2>1, <2>4 DEF BodyThere
<1> QED
  BY <1>5, <1>6

\* Why a write is refused: without a write handler, nothing is known.
WriteRefusal(oid, d, taken) ==
    IF "write" \in handlers THEN Refusal(oid, d, taken) ELSE {UNKNOWN}

\* Reasons are given, and none of them when the service accepts the value.
LEMMA Accepting ==
  ASSUME NEW v, Typed(v), NEW d, IsValueRead(d, v), NEW taken \in Int, NEW oid \in Nat,
         d.form \in Strings => d.lo <= taken
  PROVE  /\ \A why \in WriteRefusal(oid, d, taken) : why \in Reasons
         /\ WriteRefusal(oid, d, taken) = {} <=> Service!Accepts(oid, v)
         /\ Service!Accepts(oid, v) => Fitting(oid, v.body) /\ v.type = oid
<1>1. /\ v.type \in 0..13 /\ v.body \in Seq(Byte) /\ Len(v.body) \in Nat /\ Capacity \in Nat
      /\ d.form = DataTypes[v.type + 1]
      /\ v.type \in StringTags => d.lo = Len(v.body)
  BY SizeAssumption DEF Typed, IsValueRead
<1>2. d.form \in TypeNames /\ Tag(d.form) = v.type /\ (d.form \in Strings <=> v.type \in StringTags)
  BY <1>1, TypeTags, StringTagsAre
<1>3. DOMAIN Values = 0..13 /\ \A n \in 0..13 : Values[n].type = n
  BY DEF Values, Value
<1> DEFINE acc == /\ "write" \in handlers /\ oid \in 0..13 /\ v.type = oid
                  /\ Len(v.body) <= Capacity \/ v.type \notin StringTags
<1>4. Service!Accepts(oid, v) <=> acc
  <2>1. Service!Accepts(oid, v) <=>
            /\ "write" \in handlers /\ oid \in DOMAIN Values /\ v.type = Values[oid].type
            /\ Len(v.body) <= Capacity \/ v.type \notin Service!StringTags
    BY Zenon DEF Service!Accepts, Values
  <2> QED
    BY <1>3, <2>1, SameNames, Zenon
<1> DEFINE r == Refusal(oid, d, taken)
<1>5. /\ \A why \in r : why \in Reasons
      /\ r = {} => oid \in 0..13 /\ oid = Tag(d.form)
              /\ (d.form \in Strings => ~(d.lo > Capacity \/ taken < d.lo))
  BY <1>2, RefusalType
<1>6. ASSUME acc PROVE r = {}
  <2>1. oid \in 0..13 /\ oid = Tag(d.form)
    BY <1>2, <1>6
  <2>2. ~(d.form \in Strings /\ (d.lo > Capacity \/ taken < d.lo))
    BY <1>1, <1>2, <1>6, SMT
  <2>3. ~(oid \notin 0..19) /\ ~(TypeOf(oid) # Tag(d.form)) /\ ~(oid \in 14..19)
    BY <2>1, SMT DEF TypeOf
  <2> QED
    BY <2>1, <2>2, <2>3, Zenon DEF Refusal
<1>7. ASSUME r = {}, "write" \in handlers PROVE acc
  <2>1. oid \in 0..13 /\ oid = v.type /\ (d.form \in Strings => ~(d.lo > Capacity))
    BY <1>2, <1>5, <1>7
  <2>2. Len(v.body) <= Capacity \/ v.type \notin StringTags
    BY <1>1, <1>2, <2>1, SMT
  <2> QED
    BY <1>7, <2>1, <2>2
<1>8. acc => Fitting(oid, v.body) /\ v.type = oid
  BY <1>1 DEF Typed, Fitting
<1>9. UNKNOWN \in Reasons
  BY SMT DEF UNKNOWN, Reasons
<1> HIDE DEF r, acc
<1>10. acc => "write" \in handlers
  BY DEF acc
<1> QED
  BY <1>4, <1>5, <1>6, <1>7, <1>8, <1>9, <1>10, Zenon DEF WriteRefusal, r

\* The response to a write says whether it happened.
LEMMA WriteAnswered ==
  ASSUME IInv, Readable(tx), NEW f \in Byte, NEW refusal, \A why \in refusal : why \in Reasons
  PROVE  /\ refusal = {} => Answered(tx, WriteResponse(f, refusal),
                                     Reply("write", f % 128, 0, NoValue))
         /\ refusal # {} => \E w \in Reasons :
              Answered(tx, WriteResponse(f, refusal), Reply("write", f % 128, 1 + w, NoValue))
<1>1. CASE refusal = {}
  <2>1. WriteResponse(f, refusal) = WrittenAll(tx, Heads(f, WRITE) \o <<<<0>>>>)
    BY <1>1, Zenon DEF WriteResponse, Heads
  <2>2. Answered(tx, WrittenAll(tx, Heads(f, WRITE) \o <<<<0>>>>), Reply("write", f % 128, 0, NoValue))
    BY WriteAnswer, AnswerWritten DEF IsAnswer
  <2> QED
    BY <1>1, <2>1, <2>2
<1>2. CASE refusal # {}
  <2> DEFINE w == CHOOSE why \in refusal : TRUE
  <2>1. w \in Reasons
    BY <1>2
  <2>2. WriteResponse(f, refusal) = WrittenAll(tx, Heads(f, WRITE) \o <<<<1>>, <<w>>>>)
    BY <1>2, Zenon DEF WriteResponse, Heads
  <2> HIDE DEF w
  <2>3. KindOf(WRITE) = "write"
    BY DEF KindOf, READ, WRITE
  <2>4. IsAnswer(Heads(f, WRITE) \o <<<<1>>, <<w>>>>, Reply("write", f % 128, 1 + w, NoValue))
    BY <2>1, <2>3, RefusalAnswer
  <2>5. Answered(tx, WrittenAll(tx, Heads(f, WRITE) \o <<<<1>>, <<w>>>>), Reply("write", f % 128, 1 + w, NoValue))
    BY <2>4, AnswerWritten DEF IsAnswer
  <2> QED
    BY <1>2, <2>1, <2>2, <2>5
<1> QED
  BY <1>1, <1>2

\* What a write does: d is the value it finds n bytes ahead of the input s.
Stores(s, field, oid, m, d, n, refusal) ==
    /\ tx' \in Confirm(field, WriteResponse(field, refusal))
    /\ objects' = IF refusal = {} THEN [objects EXCEPT ![oid] = StoredBody(s, n, m, d)]
                                  ELSE objects

\* A write is served.
LEMMA WriteKept ==
  ASSUME Proper, Kept, Processed, Next, Head(requests).kind = "write"
  PROVE  Serving(Head(requests)) /\ Readable(tx)'
<1> DEFINE q   == Head(requests)
           s   == Ahead(0)
           f   == q.field
           oid == q.oid
           v   == q.value
           u   == Len(Uint(oid))
           m   == 3 + u
           x   == EncodeValue(v) \o Rest
           d   == DataAt(x)
           n   == m + d.used
           k   == Len(s) - n
           refusal == WriteRefusal(oid, d, k)
           t   == WriteResponse(f, refusal)
<1>0. Kept /\ IInv /\ Readable(tx) /\ Pending /\ requests # <<>>
  BY DEF Kept, Processed
<1>1. ServesWrite(q) /\ q.kind = "write" /\ Rest \in Seq(Byte)
  BY <1>0, WritesServed, PendingHead
<1>2. ~Confirmed(f) => Unconfirmed(q)
  BY <1>1 DEF Unconfirmed
<1> HIDE DEF q
<1>3. /\ ProcessWrite(s) /\ Typed(v) /\ EncodeValue(v) \in Seq(Byte)
      /\ s \in Seq(Byte) /\ x \in Seq(Byte) /\ f \in Byte /\ oid \in U32 /\ s[2] = f
      /\ UintAt(From(s, 3)) = Got("uint", 0, oid, u) /\ From(s, m) = x
      /\ Len(s) = m + Len(x) /\ u \in 1..5
  BY <1>1 DEF ServesWrite, IsCommand
<1>4. /\ UintAt(From(s, 3)).ok /\ UintAt(From(s, 3)).lo = oid /\ UintAt(From(s, 3)).used = u
  BY <1>3 DEF Got
<1>5. IsValueRead(d, v)
  BY <1>1, <1>3, ValueTaken
<1>6. IsData(d, x)
  <2> HIDE DEF x
  <2> QED
    BY <1>3, DataAtType
<1>7. oid \in Nat /\ m \in 0..Len(s) /\ d.used \in Nat /\ d.ok = TRUE /\ k \in Int
  <2>1. oid \in Nat
    BY <1>3, U32Nat
  <2>2. Len(x) \in Nat /\ d.used \in 0..Len(x) /\ d.ok = TRUE
    BY <1>3, <1>5, <1>6 DEF IsData, IsValueRead
  <2>3. Len(s) = m + Len(x) /\ u \in 1..5
    BY <1>3
  <2> HIDE DEF d, x, s, u
  <2> QED
    BY <2>1, <2>2, <2>3, SMT
<1> HIDE DEF x, d
<1>8. Stores(s, f, oid, m, d, n, refusal)
  <2> DEFINE o    == UintAt(From(s, 3))
             data == DataAt(From(s, 3 + o.used))
             l    == 3 + o.used + data.used
             rf   == IF "write" \in handlers THEN Refusal(o.lo, data, Len(s) - l) ELSE {UNKNOWN}
             body == IF data.form \in Strings THEN SubSeq(s, l + 1, l + data.lo)
                     ELSE SubSeq(s, 3 + o.used + 2, l)
  <2>1. o.ok /\ data.ok => /\ tx' \in Confirm(s[2], WriteResponse(s[2], rf))
                           /\ objects' = IF rf = {} THEN [objects EXCEPT ![o.lo] = body] ELSE objects
    BY <1>3, Zenon DEF ProcessWrite
  <2>2. o.ok /\ o.lo = oid /\ 3 + o.used = m
    BY <1>4
  <2> HIDE DEF o, s
  <2>3. data = d
    BY <1>3, <2>2 DEF d
  <2> HIDE DEF data
  <2>4. l = n
    BY <2>2, <2>3
  <2> HIDE DEF l, n
  <2>5. rf = refusal
    BY <2>2, <2>3, <2>4 DEF WriteRefusal
  <2>6. body = StoredBody(s, n, m, d)
    BY <2>2, <2>3, <2>4 DEF StoredBody
  <2> HIDE DEF rf, body, refusal
  <2> QED
    BY <1>3, <1>7, <2>1, <2>2, <2>3, <2>5, <2>6, Zenon DEF Stores
<1>9. tx' \in Confirm(f, t)
  BY <1>8, Zenon DEF Stores
<1>10. BodyThere(s, n, m, d, v)
  <2> HIDE DEF s, m, v
  <2> QED
    BY <1>1, <1>3, <1>5, <1>7, BodyStored DEF x
<1>11. /\ \A why \in refusal : why \in Reasons
       /\ refusal = {} <=> Service!Accepts(oid, v)
       /\ Service!Accepts(oid, v) => Fitting(oid, v.body) /\ v.type = oid
  <2>1. d.form \in Strings => d.lo <= k
    BY <1>10 DEF BodyThere
  <2> HIDE DEF k, oid, v
  <2> QED
    BY <1>3, <1>5, <1>7, <2>1, Accepting
<1>12. Output(t)
  <2> HIDE DEF refusal, f
  <2> QED
    BY <1>0, <1>3, <1>11, WriteResponseType
<1> HIDE DEF s, f, oid, v, refusal
<1>13. ASSUME NEW r, Answered(tx, t, r)
       PROVE  Service!Answer(f, r) /\ Readable(tx)'
  <2> HIDE DEF t
  <2> QED
    BY <1>0, <1>2, <1>9, <1>12, <1>13, Answering DEF q
<1>14. /\ refusal = {} => Answered(tx, t, Reply("write", f % 128, 0, NoValue))
       /\ refusal # {} => \E w \in Reasons : Answered(tx, t, Reply("write", f % 128, 1 + w, NoValue))
  BY <1>0, <1>3, <1>11, WriteAnswered
<1>15. CASE refusal = {}
  <2>1. objects' = [objects EXCEPT ![oid] = v.body]
    BY <1>8, <1>10, <1>15, Zenon DEF Stores, BodyThere
  <2>2. oid \in 0..13 /\ v = ValueRecord(oid, v.body)
    <3>1. v = ValueRecord(v.type, v.body)
      BY <1>3, Zenon DEF Typed, ValueRecord
    <3> QED
      BY <1>11, <1>15, <3>1 DEF Fitting
  <2>3. Values' = [Values EXCEPT ![oid] = v]
    <3>1. DOMAIN objects = 0..13
      BY <1>0 DEF IInv, ObjectsOK
    <3>2. \A o \in 0..13 : objects'[o] = IF o = oid THEN v.body ELSE objects[o]
      BY <2>1, <2>2, <3>1
    <3>3. \A o \in 0..13 : Value(o, objects'[o]) = IF o = oid THEN v ELSE Value(o, objects[o])
      BY <2>2, <3>2 DEF Value, ValueRecord
    <3>4. Values' = [o \in 0..13 |-> Value(o, objects'[o])]
      BY DEF Values
    <3>5. Values = [o \in 0..13 |-> Value(o, objects[o])]
      BY DEF Values
    <3> QED
      BY <2>2, <3>3, <3>4, <3>5, Zenon
  <2>4. Service!Answer(f, Reply("write", f % 128, 0, NoValue)) /\ Readable(tx)'
    BY <1>13, <1>14, <1>15
  <2>5. Service!Answer(f, Service!Reply("write", f % 128, 0, Service!NoValue))
    BY <2>4, SameNames
  <2>6. Service!ServeWrite(q)
    BY <1>1, <1>11, <1>15, <2>3, <2>5, Zenon DEF Service!ServeWrite, Values, f, oid, v
  <2> QED
    BY <2>4, <2>6 DEF Serving, q
<1>16. CASE refusal # {}
  <2>1. objects' = objects
    BY <1>8, <1>16, Zenon DEF Stores
  <2>2. PICK w \in Reasons : Answered(tx, t, Reply("write", f % 128, 1 + w, NoValue))
    BY <1>14, <1>16
  <2>3. Service!Answer(f, Reply("write", f % 128, 1 + w, NoValue)) /\ Readable(tx)'
    BY <1>13, <2>2
  <2>4. /\ Service!Answer(f, Service!Reply("write", f % 128, 1 + w, Service!NoValue))
        /\ w \in Service!Reasons
    BY <2>3, SameNames
  <2>5. Service!Refuse(q)
    BY <1>1, <2>4, Zenon DEF Service!Refuse, f
  <2>6. Service!ServeWrite(q)
    BY <1>1, <1>11, <1>16, <2>1, <2>5, Zenon DEF Service!ServeWrite, oid, v
  <2> QED
    BY <2>3, <2>6 DEF Serving, q
<1> QED
  BY <1>15, <1>16

-----------------------------------------------------------------------------
(* What is no request, and all of it. *)

\* What is no request is the last of the input.
LEMMA OtherAlone ==
  ASSUME Proper, IInv, Pending, requests # <<>>, Head(requests).kind = "other"
  PROVE  /\ Ahead(0) = Head(requests).bytes /\ NoRequest(Head(requests).bytes)
         /\ Head(requests).bytes \in Seq(Byte) /\ Head(requests).bytes # <<>>
<1> DEFINE q == Head(requests)
<1>1. requests \in Seq(Request) /\ q = requests[1] /\ q \in Request
  BY DEF IInv
<1>2. q.kind = "other" /\ IsRequest(q)
  BY <1>1, RequestsAre
<1>3. Len(requests) = 1
  <2>1. ~(1 \in 1..Len(requests)-1)
    BY <1>1, <1>2 DEF Pending
  <2> DEFINE l == Len(requests)
  <2>2. l \in Nat /\ l # 0 /\ ~(1 \in 1..l-1)
    BY <1>1, <2>1
  <2> HIDE DEF l
  <2>3. l = 1
    BY <2>2, SMT
  <2> QED
    BY <2>3 DEF l
<1>4. Tail(requests) = <<>>
  <2> DEFINE r == requests
  <2>1. r \in Seq(Request) /\ Len(r) = 1
    BY <1>1, <1>3
  <2> HIDE DEF r
  <2>2. Tail(r) \in Seq(Request) /\ Len(Tail(r)) = 0
    BY <2>1
  <2>3. Tail(r) = <<>>
    BY <2>2
  <2> QED
    BY <2>3 DEF r
<1>5. Rest = <<>>
  <2> DEFINE none == Frames(Tail(requests))
  <2>1. <<>> \in Seq(Request) /\ Len(<<>>) = 0
    OBVIOUS
  <2>2. none \in Seq(Seq(Byte)) /\ Len(none) = 0
    BY <1>4, <2>1, FramesType
  <2> HIDE DEF none
  <2>3. none = <<>> /\ <<>> \in Seq(Seq(Byte))
    BY <2>2, SMT
  <2>4. FlattenSeq(<<>>) = <<>>
    <3> DEFINE ps == <<<<>>, <<>>>>
               e == SubSeq(ps, 1, 0)
    <3>1. Flat(ps, 0) = <<>>
      BY EmptyConcat, FlatTwo
    <3>2. e = <<>>
      OBVIOUS
    <3> HIDE DEF ps
    <3> QED
      BY <3>1, <3>2 DEF Flat
  <2> QED
    BY <2>3, <2>4 DEF Rest, none
<1>6. Encode(q) = q.bytes
  BY <1>2 DEF Encode
<1>7. q.bytes \in Seq(Byte) /\ q.bytes # <<>>
  BY <1>2 DEF IsRequest
<1>8. Ahead(0) = q.bytes
  <2>1. Ahead(0) = Encode(q) \o Rest
    BY PendingHead
  <2> HIDE DEF q
  <2> QED
    BY <1>5, <1>6, <1>7, <2>1, EmptyConcat
<1>9. NoRequest(q.bytes)
  <2>1. PICK batch \in Batches : q \in Range(batch)
    BY <1>1 DEF Request
  <2>2. batch \in Seq(Request)
    BY RequestsAre
  <2>3. PICK i \in 1..Len(batch) : q = batch[i]
    BY <2>1, <2>2 DEF Range
  <2> QED
    BY <1>2, <2>3 DEF Proper
<1> QED
  BY <1>7, <1>8, <1>9

\* The server makes of it what the service may: nothing or a refusal.
LEMMA OtherKept ==
  ASSUME Proper, Kept, Processed, Next, Head(requests).kind = "other"
  PROVE  Serving(Head(requests)) /\ Readable(tx)'
<1> DEFINE q == Head(requests)
           s == Ahead(0)
           f == IF Len(s) = 1 THEN 0 ELSE s[2]
           oid == UintAt(From(s, 3))
           data == DataAt(From(s, 3 + oid.used))
           n == 3 + oid.used + data.used
           refusal == IF "write" \in handlers THEN Refusal(oid.lo, data, Len(s) - n) ELSE {UNKNOWN}
<1>0. Kept /\ IInv /\ Readable(tx) /\ Pending /\ requests # <<>>
  BY DEF Kept, Processed
<1>1. /\ s = q.bytes /\ NoRequest(q.bytes) /\ q.bytes \in Seq(Byte) /\ q.bytes # <<>> /\ q.kind = "other"
  BY <1>0, OtherAlone
<1> HIDE DEF q
<1>2. s \in Seq(Byte) /\ Len(s) \in Nat /\ Len(s) >= 1
  BY <1>1, SMT
<1> HIDE DEF s
<1>3. ~Confirmed(f) => Unconfirmed(q)
  <2>1. f = IF Len(q.bytes) > 1 THEN q.bytes[2] ELSE 0
    <3> DEFINE l == Len(s)
    <3>1. l \in Nat /\ l >= 1
      BY <1>2
    <3> HIDE DEF l
    <3>2. l = 1 <=> ~(l > 1)
      BY <3>1, SMT
    <3> QED
      BY <1>1, <3>2 DEF l
  <2> HIDE DEF f
  <2> QED
    BY <1>1, <2>1, Zenon DEF Unconfirmed
<1>4. ASSUME tx' = tx, objects' = objects PROVE Serving(q) /\ Readable(tx)'
  <2>1. Readable(tx)' /\ Replies(tx)' = Replies(tx)
    BY <1>0, <1>4, Silent
  <2>2. Service!ServeOther(q)
    BY <1>1, <1>4, <2>1, Zenon DEF Service!ServeOther
  <2> QED
    BY <2>1, <2>2 DEF Serving
<1>5. ASSUME tx' \in Confirm(f, tx) PROVE tx' = tx
  <2>1. Output(tx)
    BY <1>0 DEF IInv
  <2> HIDE DEF f
  <2>2. Quiet
    BY <1>0 DEF Kept
  <2> QED
    BY <1>0, <1>3, <1>5, <2>1, <2>2, Unanswered DEF q
<1>6. CASE ProcessIgnored(s)
  <2>1. tx' = tx /\ objects' = objects
    BY <1>6, Zenon DEF ProcessIgnored
  <2> QED
    BY <1>4, <2>1 DEF q
<1>7. CASE ProcessHello(s)
  <2>1. s[1] = HELLO /\ ~HelloAt(Tail(s)).ok
    BY <1>1, <1>7, Zenon DEF ProcessHello, NoRequest
  <2>2. tx' = tx /\ objects' = objects
    BY <1>7, <2>1, Zenon DEF ProcessHello
  <2> QED
    BY <1>4, <2>2 DEF q
<1>8. CASE ProcessUnknown(s)
  <2>1. /\ objects' = objects
        /\ \E field \in IF Len(s) = 1 THEN {0, 128} ELSE {s[2]} : tx' \in Confirm(field, tx)
    BY <1>8, Zenon DEF ProcessUnknown
  <2>2. tx' = tx
    <3>1. PICK field \in IF Len(s) = 1 THEN {0, 128} ELSE {s[2]} : tx' \in Confirm(field, tx)
      BY <2>1
    <3>2. CASE Confirmed(field)
      BY <3>1, <3>2 DEF Confirm
    <3>3. CASE ~Confirmed(field)
      <4>1. field = f
        <5>1. Confirmed(128)
          BY SMT DEF Confirmed
        <5> QED
          BY <3>1, <3>3, <5>1
      <4> QED
        BY <1>5, <3>1, <4>1
    <3> QED
      BY <3>2, <3>3
  <2> QED
    BY <1>4, <2>1, <2>2 DEF q
<1>9. /\ s[1] = COMMAND /\ Len(s) >= 3 /\ s[3] = READ => ~oid.ok
      /\ s[1] = COMMAND /\ Len(s) >= 3 /\ s[3] = WRITE /\ oid.ok /\ data.ok
            => Refusal(oid.lo, data, Len(s) - n) # {}
  BY <1>1, Zenon DEF NoRequest
<1>10. Len(s) >= 3 => f = s[2] /\ f \in Byte
  <2>1. Len(s) >= 3 => Len(s) # 1 /\ 2 \in 1..Len(s)
    <3> DEFINE l == Len(s)
    <3>1. l \in Nat
      BY <1>2
    <3> HIDE DEF l
    <3>2. l >= 3 => l # 1 /\ 2 \in 1..l
      BY <3>1, SMT
    <3> QED
      BY <3>2 DEF l
  <2> QED
    BY <1>2, <2>1
<1>11. CASE ProcessRead(s)
  <2>1. Len(s) >= 3 /\ s[1] = COMMAND /\ s[3] = READ
    BY <1>11, Zenon DEF ProcessRead
  <2>2. objects' = objects /\ tx' \in Confirm(s[2], IF oid.ok THEN ReadResponse(s[2], oid.lo) ELSE tx)
    BY <1>11, Zenon DEF ProcessRead
  <2>3. tx' \in Confirm(f, tx)
    BY <1>9, <1>10, <2>1, <2>2
  <2>4. tx' = tx
    BY <1>5, <2>3
  <2> QED
    BY <1>4, <2>2, <2>4 DEF q
<1>12. CASE ProcessWrite(s)
  <2>1. Len(s) >= 3 /\ s[1] = COMMAND /\ s[3] = WRITE
    BY <1>12, Zenon DEF ProcessWrite
  <2>2. CASE ~(oid.ok /\ data.ok)
    <3>1. tx' \in Confirm(s[2], tx) /\ objects' = objects
      BY <1>12, <2>2, Zenon DEF ProcessWrite
    <3>2. tx' \in Confirm(f, tx)
      BY <1>10, <2>1, <3>1
    <3> QED
      BY <1>4, <1>5, <3>1, <3>2 DEF q
  <2>3. CASE oid.ok /\ data.ok
    <3> DEFINE t == WriteResponse(f, refusal)
    <3>1. refusal # {} /\ \A why \in refusal : why \in Reasons
      <4>1. Refusal(oid.lo, data, Len(s) - n) # {}
        BY <1>9, <2>1, <2>3
      <4>2. UNKNOWN \in Reasons
        BY SMT DEF UNKNOWN, Reasons
      <4>3. \A why \in Refusal(oid.lo, data, Len(s) - n) : why \in Reasons
        <5> DEFINE k == Len(s) - n
        <5>1. 3 \in 0..Len(s)
          BY <1>2, <2>1, SMT
        <5>2. From(s, 3) \in Seq(Byte) /\ Len(From(s, 3)) = Len(s) - 3
          BY <1>2, <5>1, FromType
        <5>3. oid.lo \in Nat /\ oid.used \in 0..Len(s)-3
          <6> DEFINE z == From(s, 3)
          <6>1. IsRead(UintAt(z), z)
            <7> HIDE DEF z
            <7> QED
              BY <5>2, UintAtType DEF z
          <6>2. oid.ok /\ oid.lo \in Int /\ oid.lo >= 0 /\ oid.used \in 0..Len(z)
            <7>1. IsRead(oid, z) /\ oid.ok
              BY <2>3, <6>1
            <7> HIDE DEF oid, z
            <7> QED
              BY <7>1 DEF IsRead
          <6>3. oid.lo \in Nat
            <7> HIDE DEF oid
            <7> QED
              BY <6>2
          <6> QED
            BY <5>2, <6>2, <6>3
        <5>4. 3 + oid.used \in 0..Len(s)
          <6> HIDE DEF oid
          <6> QED
            BY <1>2, <2>1, <5>3, SMT
        <5> DEFINE y == From(s, 3 + oid.used)
        <5>5. y \in Seq(Byte)
          <6> DEFINE m == 3 + oid.used
          <6> HIDE DEF m
          <6>1. m \in 0..Len(s)
            BY <5>4 DEF m
          <6>2. From(s, m) \in Seq(Byte)
            BY <1>2, <6>1, FromType
          <6> QED
            BY <6>2 DEF m
        <5> HIDE DEF y
        <5>6. IsData(DataAt(y), y)
          BY <5>5, DataAtType
        <5>7. data.form \in TypeNames
          BY <2>3, <5>6, TypeTags DEF IsData, y
        <5> HIDE DEF oid, data, k
        <5>8. \A why \in Refusal(oid.lo, data, k) : why \in Reasons
          BY <5>3, <5>7, RefusalType
        <5> QED
          BY <5>8 DEF k
      <4> HIDE DEF oid, data, n
      <4> QED
        BY <4>1, <4>2, <4>3
    <3>2. tx' \in Confirm(s[2], WriteResponse(s[2], refusal))
          /\ objects' = IF refusal = {} THEN [objects EXCEPT ![oid.lo] =
                IF data.form \in Strings THEN SubSeq(s, n + 1, n + data.lo)
                ELSE SubSeq(s, 3 + oid.used + 2, n)] ELSE objects
      BY <1>12, <2>3, Zenon DEF ProcessWrite
    <3> HIDE DEF oid, data, n, refusal
    <3>3. tx' \in Confirm(f, t) /\ objects' = objects /\ f \in Byte /\ f = s[2]
      BY <1>10, <2>1, <3>1, <3>2
    <3> HIDE DEF f
    <3>4. PICK w \in Reasons : Answered(tx, t, Reply("write", f % 128, 1 + w, NoValue))
      BY <1>0, <3>1, <3>3, WriteAnswered
    <3>5. Output(t)
      BY <1>0, <3>1, <3>3, WriteResponseType
    <3> DEFINE r == Reply("write", f % 128, 1 + w, NoValue)
    <3> HIDE DEF t
    <3>6. Service!Answer(f, r) /\ Readable(tx)'
      BY <1>0, <1>3, <3>3, <3>4, <3>5, Answering DEF q
    <3>7. \/ Service!Send(Service!Reply("write", q.bytes[2] % 128, 1 + w, Service!NoValue))
          \/ Replies(tx)' = Replies(tx)
      <4>1. f = q.bytes[2]
        BY <1>1, <3>3
      <4> QED
        BY <3>6, <4>1, SameNames, Zenon DEF Service!Answer
    <3>8. Len(q.bytes) > 1 /\ w \in Service!Reasons
      BY <1>1, <1>2, <2>1, SameNames, SMT
    <3>9. Service!ServeOther(q)
      BY <1>1, <3>3, <3>7, <3>8, Zenon DEF Service!ServeOther
    <3> QED
      BY <3>6, <3>9 DEF Serving, q
  <2> QED
    BY <2>2, <2>3
<1> QED
  BY <1>0, <1>6, <1>7, <1>8, <1>11, <1>12, Processing DEF s

\* Each step of the server is one of the service, or none.
LEMMA ServiceSteps ==
  ASSUME Proper, ~AlertsAnytime
  PROVE  Kept /\ [Next]_vars => [Service!Next]_(Service!vars) /\ Readable(tx)' /\ Quiet'
<1> SUFFICES ASSUME Kept, [Next]_vars
             PROVE  [Service!Next]_(Service!vars) /\ Readable(tx)' /\ Quiet'
  OBVIOUS
<1>0. IInv /\ Pending /\ Readable(tx) /\ Quiet
  BY DEF Kept
<1>1. CASE \E batch \in Batches : Receive(batch)
  BY <1>1, AskKept
<1>2. CASE \E a \in Alerts : SendAlert(a)
  BY <1>2, InformKept
<1>3. CASE UNCHANGED vars
  <2>1. UNCHANGED <<handlers, objects, rx, tx, requests>>
    BY <1>3 DEF vars
  <2>2. Readable(tx)' /\ Quiet'
    BY <1>0, <2>1 DEF Readable, Quiet
  <2>3. UNCHANGED Service!vars
    BY <2>1 DEF Service!vars
  <2> QED
    BY <2>2, <2>3
<1>4. CASE Next /\ Processed /\ UNCHANGED handlers
  <2> DEFINE q == Head(requests)
  <2>1. IsRequest(q)
    BY <1>0, <1>4, PendingHead DEF Processed
  <2>2. q.kind \in {"read", "write", "hello", "other"}
    BY <2>1 DEF IsRequest
  <2>3. Serving(q) /\ Readable(tx)'
    BY <1>4, <2>2, ReadKept, WriteKept, HelloKept, OtherKept
  <2>4. Quiet'
    BY <1>0, <1>4, QuietKept
  <2>5. Service!Serve
    BY <1>4, <2>3, Zenon DEF Service!Serve, Serving, Processed
  <2> QED
    BY <1>4, <2>3, <2>4, <2>5, Seen DEF Service!Next
<1>5. /\ ProcessIgnored(Ahead(0)) => Processed /\ UNCHANGED handlers
      /\ ProcessHello(Ahead(0)) => Processed /\ UNCHANGED handlers
      /\ ProcessUnknown(Ahead(0)) => Processed /\ UNCHANGED handlers
      /\ ProcessRead(Ahead(0)) => Processed /\ UNCHANGED handlers
      /\ ProcessWrite(Ahead(0)) => Processed /\ UNCHANGED handlers
  BY Zenon DEF ProcessIgnored, ProcessHello, ProcessUnknown, ProcessRead, ProcessWrite,
               Process, Processed
<1> QED
  BY <1>1, <1>2, <1>3, <1>4, <1>5 DEF Next

\* The server keeps what AloofService promises (aloof.c:52-387): what a reader makes
\* of the output is the true outcome of each confirmed request and each alert, in
\* order, wherever the output ends.
THEOREM ServiceImplemented ==
  ASSUME Proper, ~AlertsAnytime PROVE Spec => ServiceKept
<1>1. Init => Kept /\ Service!Init
  BY Inits, InitPending, InitKept DEF Kept
<1>2. Kept /\ [Next]_vars => Kept' /\ [Service!Next]_(Service!vars)
  <2>1. OthersLast
    BY DEF Proper
  <2>2. Kept /\ [Next]_vars => IInv' /\ Pending'
    BY <2>1, Steps, PendingSteps DEF Kept
  <2> QED
    BY <2>2, ServiceSteps DEF Kept
<1> QED
  BY <1>1, <1>2, PTL DEF Spec, ServiceKept, Service!Spec
=============================================================================
