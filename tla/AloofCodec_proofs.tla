-------------------------- MODULE AloofCodec_proofs --------------------------
(***************************************************************************)
(* What TLAPS proves of the codecs, for every value of the words, lengths  *)
(* and bytes: each end decodes what either end encodes, and the two ends   *)
(* decode alike what nobody encoded.                                       *)
(*                                                                         *)
(* From the bottom: the digits of a word make the word again, a variable   *)
(* length integer has room for its value, the body of each type decodes,   *)
(* and so does the tagged value.                                           *)
(***************************************************************************)
EXTENDS AloofCodec, TLAPS

-----------------------------------------------------------------------------
(* Digits. *)

\* Digits makes n bytes.
LEMMA DigitsType ==
  ASSUME NEW v \in Int, NEW n \in 1..4
  PROVE  /\ Digits(v, n) \in Seq(Byte) /\ Len(Digits(v, n)) = n
         /\ Digits(v, n) \in [1..n -> Byte]
<1>1. \A i \in 1..n : Weight[n - i + 1] \in Nat \ {0}
  BY SMT DEF Weight
<1>2. \A i \in 1..n : (v \div Weight[n - i + 1]) % 256 \in 0..255
  BY <1>1, SMT
<1> QED
  BY <1>2, SMT DEF Digits, Byte

\* Which byte of the word each of them is.
LEMMA DigitsAt ==
  ASSUME NEW v \in Int
  PROVE  /\ Len(Digits(v, 1)) = 1 /\ Len(Digits(v, 2)) = 2
         /\ Len(Digits(v, 3)) = 3 /\ Len(Digits(v, 4)) = 4
         /\ Digits(v, 1)[1] = v % 256
         /\ Digits(v, 2)[1] = (v \div 256) % 256 /\ Digits(v, 2)[2] = v % 256
         /\ Digits(v, 3)[1] = (v \div 65536) % 256
         /\ Digits(v, 3)[2] = (v \div 256) % 256 /\ Digits(v, 3)[3] = v % 256
         /\ Digits(v, 4)[1] = (v \div 16777216) % 256
         /\ Digits(v, 4)[2] = (v \div 65536) % 256
         /\ Digits(v, 4)[3] = (v \div 256) % 256 /\ Digits(v, 4)[4] = v % 256
<1>1. 1 \in 1..4 /\ 2 \in 1..4 /\ 3 \in 1..4 /\ 4 \in 1..4
  BY SMT
<1>2. /\ Len(Digits(v, 1)) = 1 /\ Len(Digits(v, 2)) = 2
      /\ Len(Digits(v, 3)) = 3 /\ Len(Digits(v, 4)) = 4
  BY <1>1, DigitsType
<1> QED
  BY <1>2, SMT DEF Digits, Weight

\* A word is the sum of its weighted bytes, whatever the sign of the first.
LEMMA Split2 ==
  ASSUME NEW v \in Int
  PROVE  (v % 256) + 256 * (v \div 256) = v
  BY SMT
\* The same for three bytes.
LEMMA Split3 ==
  ASSUME NEW v \in Int
  PROVE  (v % 256) + 256 * ((v \div 256) % 256) + 65536 * (v \div 65536) = v
  BY SMT
\* The same for four.
LEMMA Split4 ==
  ASSUME NEW v \in Int
  PROVE  (v % 256) + 256 * ((v \div 256) % 256) + 65536 * ((v \div 65536) % 256)
         + 16777216 * (v \div 16777216) = v
  BY SMT

\* Shifting the digits in gives the word when the first stands for the top.
LEMMA ShiftedDigits ==
  ASSUME NEW v \in Int
  PROVE  /\ Shifted(v, Digits(v, 1)) = v
         /\ Shifted(v \div 256, Digits(v, 2)) = v
         /\ Shifted(v \div 65536, Digits(v, 3)) = v
         /\ Shifted(v \div 16777216, Digits(v, 4)) = v
<1>1. Shifted(v, Digits(v, 1)) = v
  BY DigitsAt, SMT DEF Shifted
<1>2. Shifted(v \div 256, Digits(v, 2)) = (v % 256)
                                    + 256 * (v \div 256)
  BY DigitsAt, SMT DEF Shifted
<1>3. Shifted(v \div 65536, Digits(v, 3)) = (v % 256) + 256 * ((v \div 256) % 256)
                                    + 65536 * (v \div 65536)
  BY DigitsAt, SMT DEF Shifted
<1>4. Shifted(v \div 16777216, Digits(v, 4)) = (v % 256)
                                    + 256 * ((v \div 256) % 256)
                                    + 65536 * ((v \div 65536) % 256)
                                    + 16777216 * (v \div 16777216)
  BY DigitsAt, SMT DEF Shifted
<1> QED
  BY <1>1, <1>2, <1>3, <1>4, Split2, Split3, Split4

\* An unsigned word is read back from as many digits as hold it.
LEMMA NumberDigits ==
  ASSUME NEW v \in Int
  PROVE  /\ v \in 0..255 => Number(Digits(v, 1)) = v
         /\ v \div 256 \in 0..255 => Number(Digits(v, 2)) = v
         /\ v \div 65536 \in 0..255 => Number(Digits(v, 3)) = v
         /\ v \div 16777216 \in 0..255 => Number(Digits(v, 4)) = v
<1>0. Digits(v, 1)[1] = v % 256
  BY SMT DEF Digits, Weight
<1>1. ASSUME v \in 0..255 PROVE Number(Digits(v, 1)) = v
  <2>1. Digits(v, 1)[1] = v % 256
    BY <1>0
  <2>2. v % 256 = v
    BY <1>1, SMT
  <2>3. Shifted(v, Digits(v, 1)) = v
    BY ShiftedDigits, SMT
  <2> QED
    BY <2>1, <2>2, <2>3, SMT DEF Number
<1>2. ASSUME v \div 256 \in 0..255 PROVE Number(Digits(v, 2)) = v
  <2>1. Digits(v, 2)[1] = (v \div 256) % 256
    BY DigitsAt, SMT
  <2>2. (v \div 256) % 256 = v \div 256
    BY <1>2, SMT
  <2>3. Shifted(v \div 256, Digits(v, 2)) = v
    BY ShiftedDigits, SMT
  <2> QED
    BY <2>1, <2>2, <2>3, SMT DEF Number
<1>3. ASSUME v \div 65536 \in 0..255 PROVE Number(Digits(v, 3)) = v
  <2>1. Digits(v, 3)[1] = (v \div 65536) % 256
    BY DigitsAt, SMT
  <2>2. (v \div 65536) % 256 = v \div 65536
    BY <1>3, SMT
  <2>3. Shifted(v \div 65536, Digits(v, 3)) = v
    BY ShiftedDigits, SMT
  <2> QED
    BY <2>1, <2>2, <2>3, SMT DEF Number
<1>4. ASSUME v \div 16777216 \in 0..255 PROVE Number(Digits(v, 4)) = v
  <2>1. Digits(v, 4)[1] = (v \div 16777216) % 256
    BY DigitsAt, SMT
  <2>2. (v \div 16777216) % 256 = v \div 16777216
    BY <1>4, SMT
  <2>3. Shifted(v \div 16777216, Digits(v, 4)) = v
    BY ShiftedDigits, SMT
  <2> QED
    BY <2>1, <2>2, <2>3, SMT DEF Number
<1> QED
  BY <1>1, <1>2, <1>3, <1>4, SMT

\* A signed word too.
LEMMA SNumberDigits ==
  ASSUME NEW v \in Int
  PROVE  /\ v \in -128..127 => SNumber(Digits(v, 1)) = v
         /\ v \div 256 \in -128..127 => SNumber(Digits(v, 2)) = v
         /\ v \div 65536 \in -128..127 => SNumber(Digits(v, 3)) = v
         /\ v \div 16777216 \in -128..127 => SNumber(Digits(v, 4)) = v
<1>0. Digits(v, 1)[1] = v % 256
  BY SMT DEF Digits, Weight
<1>1. ASSUME v \in -128..127 PROVE SNumber(Digits(v, 1)) = v
  <2>1. Digits(v, 1)[1] = v % 256
    BY <1>0
  <2>2. SignedByte(v % 256) = v
    BY <1>1, SMT DEF SignedByte
  <2>3. Shifted(v, Digits(v, 1)) = v
    BY ShiftedDigits, SMT
  <2> QED
    BY <2>1, <2>2, <2>3, SMT DEF SNumber
<1>2. ASSUME v \div 256 \in -128..127 PROVE SNumber(Digits(v, 2)) = v
  <2>1. Digits(v, 2)[1] = (v \div 256) % 256
    BY DigitsAt, SMT
  <2>2. SignedByte((v \div 256) % 256) = v \div 256
    BY <1>2, SMT DEF SignedByte
  <2>3. Shifted(v \div 256, Digits(v, 2)) = v
    BY ShiftedDigits, SMT
  <2> QED
    BY <2>1, <2>2, <2>3, SMT DEF SNumber
<1>3. ASSUME v \div 65536 \in -128..127 PROVE SNumber(Digits(v, 3)) = v
  <2>1. Digits(v, 3)[1] = (v \div 65536) % 256
    BY DigitsAt, SMT
  <2>2. SignedByte((v \div 65536) % 256) = v \div 65536
    BY <1>3, SMT DEF SignedByte
  <2>3. Shifted(v \div 65536, Digits(v, 3)) = v
    BY ShiftedDigits, SMT
  <2> QED
    BY <2>1, <2>2, <2>3, SMT DEF SNumber
<1>4. ASSUME v \div 16777216 \in -128..127 PROVE SNumber(Digits(v, 4)) = v
  <2>1. Digits(v, 4)[1] = (v \div 16777216) % 256
    BY DigitsAt, SMT
  <2>2. SignedByte((v \div 16777216) % 256) = v \div 16777216
    BY <1>4, SMT DEF SignedByte
  <2>3. Shifted(v \div 16777216, Digits(v, 4)) = v
    BY ShiftedDigits, SMT
  <2> QED
    BY <2>1, <2>2, <2>3, SMT DEF SNumber
<1> QED
  BY <1>1, <1>2, <1>3, <1>4, SMT

\* What is appended does not change the first bytes.
LEMMA Prefix ==
  ASSUME NEW s \in Seq(Byte), NEW t \in Seq(Byte)
  PROVE  SubSeq(s \o t, 1, Len(s)) = s
  BY SMT
\* A byte, its body and what follows, taken apart.
LEMMA Middle ==
  ASSUME NEW b \in Byte, NEW s \in Seq(Byte), NEW t \in Seq(Byte)
  PROVE  /\ SubSeq((<<b>> \o s) \o t, 2, 1 + Len(s)) = s
         /\ ((<<b>> \o s) \o t)[1] = b
         /\ Len((<<b>> \o s) \o t) = 1 + Len(s) + Len(t)
         /\ (<<b>> \o s) \o t # <<>>
         /\ Tail((<<b>> \o s) \o t) = s \o t
  BY SMT
-----------------------------------------------------------------------------
(* Integers. *)

\* A fixed width integer is read back, whatever follows it.
LEMMA FixedDecodes ==
  ASSUME NEW v \in Int, NEW n \in 1..4, NEW t \in Seq(Byte), NEW form,
         IF form \in {"i8", "i16", "i32"} THEN SNumber(Digits(v, n)) = v
                                          ELSE Number(Digits(v, n)) = v
  PROVE  Fixed(form, Digits(v, n) \o t, n) = Got(form, 0, v, n)
<1> DEFINE s == Digits(v, n) \o t
<1>1. Digits(v, n) \in Seq(Byte) /\ Len(Digits(v, n)) = n
  BY DigitsType
<1>2. SubSeq(s, 1, n) = Digits(v, n) 
  BY <1>1, Prefix
<1>3. Len(s) = n + Len(t) /\ Len(t) \in Nat
  BY <1>1, SMT
<1>4. ~(Len(s) < n)
  BY <1>3, SMT
<1> HIDE DEF s
<1>5. Fixed(form, s, n) = Got(form, 0, IF form \in {"i8", "i16", "i32"}
                        THEN SNumber(SubSeq(s, 1, n))
                        ELSE Number(SubSeq(s, 1, n)), n)
  BY <1>4 DEF Fixed
<1>6. (IF form \in {"i8", "i16", "i32"} THEN SNumber(Digits(v, n))
                                        ELSE Number(Digits(v, n))) = v
  OBVIOUS
<1> QED
  BY <1>2, <1>5, <1>6 DEF s

\* Varint makes size bytes.
LEMMA VarintType ==
  ASSUME NEW v \in Int, NEW size \in 1..5
  PROVE  Varint(v, size) \in Seq(Byte) /\ Len(Varint(v, size)) = size
<1>1. CASE size = 1
  BY <1>1, SMT DEF Varint, Byte
<1>2. CASE size \in 2..5
  <2>1. size - 1 \in 1..4 /\ 127 + size \in Byte /\ size # 1
    BY <1>2, SMT DEF Byte
  <2>2. Digits(v, size - 1) \in Seq(Byte) /\ Len(Digits(v, size - 1)) = size - 1
    BY <2>1, DigitsType
  <2> QED
    BY <2>1, <2>2, SMT DEF Varint
<1> QED
  BY <1>1, <1>2, SMT

\* An integer of size bytes, the first of which counts the rest, holds v.
Fits(form, v, size) ==
    /\ size = 1 => IF form = "int" THEN v \in -64..63 ELSE v \in 0..127
    /\ size # 1 => IF form = "int" THEN SNumber(Digits(v, size - 1)) = v
                                   ELSE Number(Digits(v, size - 1)) = v

\* A variable length integer is read back, whatever follows it, if its bytes can
\* be joined with the padding.
LEMMA VarintDecodes ==
  ASSUME NEW v \in Int, NEW size \in 1..5, NEW t \in Seq(Byte), NEW d \in Ends,
         NEW form \in {"uint", "int"},
         Fits(form, v, size), size # 1 => ~Unjoined(d, form, Digits(v, size - 1))
  PROVE  GetVarint(d, form, Varint(v, size) \o t) = Got(form, 0, v, size)
<1> DEFINE s == Varint(v, size) \o t
           n == s[1] - 128
<1>0. Len(t) \in Nat
  BY SMT
<1>1. CASE size = 1
  <2>1. s # <<>> /\ s[1] = v % 128
    BY <1>1, <1>0, SMT DEF Varint
  <2>2. v % 128 \in 0..127
    BY SMT
  <2>3. GetVarint(d, form, s) = 
            Got(form, 0, IF form = "int" /\ s[1] >= 64 THEN s[1] - 128 ELSE s[1], 1)
    BY <2>1, <2>2, SMT DEF GetVarint
  <2>4. CASE form = "int"
    <3>1. v \in -64..63
      BY <1>1, <2>4 DEF Fits
    <3>2. (IF v % 128 >= 64 THEN (v % 128) - 128 ELSE v % 128) = v
      BY <3>1, SMT
    <3> QED
      BY <1>1, <2>1, <2>2, <2>3, <2>4, <3>2, SMT
  <2>5. CASE form = "uint"
    <3>1. v \in 0..127
      BY <1>1, <2>5 DEF Fits
    <3>2. v % 128 = v
      BY <3>1, SMT
    <3> QED
      BY <1>1, <2>1, <2>2, <2>3, <2>5, <3>2, SMT
  <2> QED
    BY <2>4, <2>5
<1>2. CASE size \in 2..5
  <2>1. size - 1 \in 1..4 /\ 127 + size \in Byte /\ size # 1
    BY <1>2, SMT DEF Byte
  <2>2. /\ Digits(v, size - 1) \in Seq(Byte)
        /\ Len(Digits(v, size - 1)) = size - 1
    BY <2>1, DigitsType
  <2>3. s = (<<127 + size>> \o Digits(v, size - 1)) \o t
    BY <2>1 DEF Varint
  <2>4. /\ SubSeq(s, 2, 1 + (size - 1)) = Digits(v, size - 1)
        /\ s[1] = 127 + size /\ Len(s) = 1 + (size - 1) + Len(t) /\ s # <<>>
    BY <2>1, <2>2, <2>3, <1>0, Middle
  <2> HIDE DEF s
  <2>5. n = size - 1 /\ n \in 1..4 /\ Len(s) > n /\ 1 + n = size
    BY <2>4, <1>2, <1>0, SMT DEF n
  <2>6. SubSeq(s, 2, 1 + n) = Digits(v, size - 1)
    BY <2>4, <2>5, SMT
  <2> HIDE DEF n
  <2>7. ~(n < 0) /\ n # 0
    BY <2>5, SMT
  <2>11. ~Unjoined(d, form, SubSeq(s, 2, 1 + n))
    BY <2>1, <2>6
  <2>8. GetVarint(d, form, s) =
            Got(form, 0, IF form = "int" THEN SNumber(SubSeq(s, 2, 1 + n))
                                         ELSE Number(SubSeq(s, 2, 1 + n)), 1 + n)
    BY <2>4, <2>5, <2>7, <2>11, SMT DEF GetVarint, n
  <2>9. (IF form = "int" THEN SNumber(Digits(v, size - 1))
                         ELSE Number(Digits(v, size - 1))) = v
    BY <2>1 DEF Fits
  <2>10. GetVarint(d, form, s) = Got(form, 0, v, size)
    BY <2>5, <2>6, <2>8, <2>9
  <2> QED
    BY <2>5, <2>10 DEF s
<1>3. size = 1 \/ size \in 2..5
  BY SMT
<1> QED
  BY <1>1, <1>2, <1>3

\* The first byte.
First(s) == s[1]

\* Neither end starts an integer with 0x80.
LEMMA VarintFirst ==
  ASSUME NEW v \in Int, NEW size \in 1..5, NEW t \in Seq(Byte)
  PROVE  First(Varint(v, size) \o t) # 128
<1>1. CASE size = 1
  <2>1. (Varint(v, size) \o t)[1] = v % 128
    BY <1>1, SMT DEF Varint
  <2> QED
    BY <2>1, SMT DEF First
<1>2. CASE size \in 2..5
  <2>1. size - 1 \in 1..4 /\ 127 + size \in Byte /\ size # 1
    BY <1>2, SMT DEF Byte
  <2>2. Digits(v, size - 1) \in Seq(Byte)
    BY <2>1, DigitsType
  <2>3. Varint(v, size) \o t = (<<127 + size>> \o Digits(v, size - 1)) \o t
    BY <2>1 DEF Varint
  <2>4. (Varint(v, size) \o t)[1] = 127 + size
    BY <2>1, <2>2, <2>3, Middle
  <2> QED
    BY <1>2, <2>4, SMT DEF First
<1>3. size = 1 \/ size \in 2..5
  BY SMT
<1> QED
  BY <1>1, <1>2, <1>3

\* aloof_oer_sizeofUint leaves room for the value, but at the two
\* boundaries; sizeof_uint always does.
LEMMA SizeofUintFits ==
  ASSUME NEW v \in U32, NEW e \in Ends,
         ~(e = "c" /\ v \in CutShort)
  PROVE  /\ SizeofUint(e, v) \in 1..5
         /\ SizeofUint(e, v) = 1 => v \in 0..127
         /\ SizeofUint(e, v) # 1 => Number(Digits(v, SizeofUint(e, v) - 1)) = v
<1>1. v \in Int /\ v \in Nat
  BY SMT DEF U32
<1> DEFINE below(w) == v < w \/ (e = "c" /\ v = w)
<1>2. (below(65536) <=> v < 65536) /\ (below(16777216) <=> v < 16777216)
  BY SMT DEF CutShort
<1>3. CASE v < 128
  <2>1. SizeofUint(e, v) = 1
    BY <1>1, <1>3, SMT DEF SizeofUint
  <2> QED
    BY <1>1, <1>3, <2>1, SMT
<1>4. CASE 128 <= v /\ v < 256
  <2>1. SizeofUint(e, v) = 2
    BY <1>1, <1>4, SMT DEF SizeofUint
  <2>2. v \in 0..255
    BY <1>1, <1>4, SMT
  <2>3. Number(Digits(v, 1)) = v
    BY <1>1, <2>2, NumberDigits, SMT
  <2> QED
    BY <2>1, <2>3, SMT
<1>5. CASE 256 <= v /\ v < 65536
  <2>1. SizeofUint(e, v) = 3
    BY <1>1, <1>5, SMT DEF SizeofUint
  <2>2. v \div 256 \in 0..255
    BY <1>1, <1>5, SMT
  <2>3. Number(Digits(v, 2)) = v
    BY <1>1, <2>2, NumberDigits, SMT
  <2> QED
    BY <2>1, <2>3, SMT
<1>6. CASE 65536 <= v /\ v < 16777216
  <2>1. SizeofUint(e, v) = 4
    BY <1>1, <1>2, <1>6, SMT DEF SizeofUint
  <2>2. v \div 65536 \in 0..255
    BY <1>1, <1>6, SMT
  <2>3. Number(Digits(v, 3)) = v
    BY <1>1, <2>2, NumberDigits, SMT
  <2> QED
    BY <2>1, <2>3, SMT
<1>7. CASE 16777216 <= v
  <2>1. SizeofUint(e, v) = 5
    BY <1>1, <1>2, <1>7, SMT DEF SizeofUint
  <2>2. v \div 16777216 \in 0..255
    BY <1>1, <1>7, SMT DEF U32
  <2>3. Number(Digits(v, 4)) = v
    BY <1>1, <2>2, NumberDigits, SMT
  <2> QED
    BY <2>1, <2>3, SMT
<1> QED
  BY <1>1, <1>3, <1>4, <1>5, <1>6, <1>7, SMT

\* aloof_oer_sizeofInt leaves room for the value.
LEMMA SizeofIntFits ==
  ASSUME NEW v \in I32
  PROVE  /\ SizeofInt(v) \in 1..5
         /\ SizeofInt(v) = 1 => v \in -64..63
         /\ SizeofInt(v) # 1 => SNumber(Digits(v, SizeofInt(v) - 1)) = v
<1>1. v \in Int
  BY SMT DEF I32
<1>3. CASE -64 <= v /\ v < 64
  <2>1. SizeofInt(v) = 1
    BY <1>1, <1>3, SMT DEF SizeofInt
  <2> QED
    BY <1>1, <1>3, <2>1, SMT
<1>4. CASE ~(-64 <= v /\ v < 64) /\ -128 <= v /\ v < 128
  <2>1. SizeofInt(v) = 2
    BY <1>1, <1>4, SMT DEF SizeofInt
  <2>2. v \in -128..127
    BY <1>1, <1>4, SMT
  <2>3. SNumber(Digits(v, 1)) = v
    BY <1>1, <2>2, SNumberDigits, SMT
  <2> QED
    BY <2>1, <2>3, SMT
<1>5. CASE ~(-128 <= v /\ v < 128) /\ -32768 <= v /\ v < 32768
  <2>1. SizeofInt(v) = 3
    BY <1>1, <1>5, SMT DEF SizeofInt
  <2>2. v \div 256 \in -128..127
    BY <1>1, <1>5, SMT
  <2>3. SNumber(Digits(v, 2)) = v
    BY <1>1, <2>2, SNumberDigits, SMT
  <2> QED
    BY <2>1, <2>3, SMT
<1>6. CASE ~(-32768 <= v /\ v < 32768) /\ -8388608 <= v /\ v < 8388608
  <2>1. SizeofInt(v) = 4
    BY <1>1, <1>6, SMT DEF SizeofInt
  <2>2. v \div 65536 \in -128..127
    BY <1>1, <1>6, SMT
  <2>3. SNumber(Digits(v, 3)) = v
    BY <1>1, <2>2, SNumberDigits, SMT
  <2> QED
    BY <2>1, <2>3, SMT
<1>7. CASE ~(-8388608 <= v /\ v < 8388608)
  <2>1. SizeofInt(v) = 5
    BY <1>1, <1>7, SMT DEF SizeofInt
  <2>2. v \div 16777216 \in -128..127
    BY <1>1, SMT DEF I32
  <2>3. SNumber(Digits(v, 4)) = v
    BY <1>1, <2>2, SNumberDigits, SMT
  <2> QED
    BY <2>1, <2>3, SMT
<1> QED
  BY <1>1, <1>3, <1>4, <1>5, <1>6, <1>7, SMT

\* A tag names its type.
LEMMA TagNames ==
  ASSUME NEW form \in TypeNames
  PROVE  Tag(form) \in 0..13 /\ DataTypes[Tag(form) + 1] = form
<1> DEFINE i == CHOOSE i \in 1..14 : DataTypes[i] = form
<1>1. \E j \in 1..14 : DataTypes[j] = form
  BY SMT DEF TypeNames
<1>2. i \in 1..14 /\ DataTypes[i] = form
  BY <1>1
<1>3. Tag(form) = i - 1
  BY DEF Tag
<1> HIDE DEF i
<1> QED
  BY <1>2, <1>3, SMT

\* A value the other end should read.
IsSendable(e, x) == IsValue(x) /\ x.form \in Forms /\ ~Misencoded(e, x)

-----------------------------------------------------------------------------
(* Bodies. *)

\* Every fixed width type is as wide as its values.
LEMMA LoDecodes ==
  ASSUME NEW form \in {"bool", "u8", "i8", "u16", "i16", "u32", "i32", "float"},
         NEW v \in LoRange(form)
  PROVE  /\ v \in Int /\ Width(form) \in 1..4
         /\ IF form \in {"i8", "i16", "i32"}
              THEN SNumber(Digits(v, Width(form))) = v
              ELSE Number(Digits(v, Width(form))) = v
<1>1. CASE form = "bool"
  <2>1. v \in Int /\ v \in 0..255 /\ Width(form) = 1
    BY <1>1, SMT DEF LoRange, Width
  <2> QED
    BY <1>1, <2>1, NumberDigits, SMT
<1>2. CASE form = "u8"
  <2>1. v \in Int /\ v \in 0..255 /\ Width(form) = 1
    BY <1>2, SMT DEF LoRange, Width
  <2> QED
    BY <1>2, <2>1, NumberDigits, SMT
<1>3. CASE form = "i8"
  <2>1. v \in Int /\ v \in -128..127 /\ Width(form) = 1
    BY <1>3, SMT DEF LoRange, Width
  <2> QED
    BY <1>3, <2>1, SNumberDigits, SMT
<1>4. CASE form = "u16"
  <2>1. v \in U16
    BY <1>4, SMT DEF LoRange
  <2>2. Width(form) = 2
    BY <1>4, SMT DEF Width
  <2>3. v \in Int /\ v \div 256 \in 0..255
    BY <2>1, SMT DEF U16
  <2> QED
    BY <1>4, <2>2, <2>3, NumberDigits, SMT
<1>5. CASE form = "i16"
  <2>1. v \in I16
    BY <1>5, SMT DEF LoRange
  <2>2. Width(form) = 2
    BY <1>5, SMT DEF Width
  <2>3. v \in Int /\ v \div 256 \in -128..127
    BY <2>1, SMT DEF I16
  <2> QED
    BY <1>5, <2>2, <2>3, SNumberDigits, SMT
<1>6. CASE form = "u32"
  <2>1. v \in U32
    BY <1>6, SMT DEF LoRange
  <2>2. Width(form) = 4
    BY <1>6, SMT DEF Width
  <2>3. v \in Int /\ v \div 16777216 \in 0..255
    BY <2>1, SMT DEF U32
  <2> QED
    BY <1>6, <2>2, <2>3, NumberDigits, SMT
<1>7. CASE form = "i32"
  <2>1. v \in I32
    BY <1>7, SMT DEF LoRange
  <2>2. Width(form) = 4
    BY <1>7, SMT DEF Width
  <2>3. v \in Int /\ v \div 16777216 \in -128..127
    BY <2>1, SMT DEF I32
  <2> QED
    BY <1>7, <2>2, <2>3, SNumberDigits, SMT
<1>8. CASE form = "float"
  <2>1. v \in U32
    BY <1>8, SMT DEF LoRange
  <2>2. Width(form) = 4
    BY <1>8, SMT DEF Width
  <2>3. v \in Int /\ v \div 16777216 \in 0..255
    BY <2>1, SMT DEF U32
  <2> QED
    BY <1>8, <2>2, <2>3, NumberDigits, SMT
<1> QED
  BY <1>1, <1>2, <1>3, <1>4, <1>5, <1>6, <1>7, <1>8

\* The types of one to four bytes.
Fixeds == {"bool", "u8", "i8", "u16", "i16", "u32", "i32", "float"}

\* What PutBody appends, GetBody decodes, where it can.
Decodes(e, x) ==
    /\ PutBody(e, x) \in Seq(Byte)
    /\ \A d \in Ends : ~Unreadable(d, x) => \A t \in Seq(Byte) :
          GetBody(d, x.form, PutBody(e, x) \o t)
              = Got(x.form, x.hi, x.lo, Len(PutBody(e, x)))

\* The body of a fixed width type decodes.
LEMMA FixedsDecode ==
  ASSUME NEW e \in Ends, NEW x, IsSendable(e, x), x.form \in Fixeds
  PROVE  Decodes(e, x)
<1> DEFINE n == Width(x.form)
<1>1. x.lo \in LoRange(x.form) /\ x.hi \in HiRange(x.form)
  BY DEF IsSendable, IsValue
<1>2. x.hi = 0
  BY <1>1, SMT DEF HiRange, Fixeds
<1>3. /\ x.lo \in Int /\ n \in 1..4
      /\ IF x.form \in {"i8", "i16", "i32"} THEN SNumber(Digits(x.lo, n)) = x.lo
                                            ELSE Number(Digits(x.lo, n)) = x.lo
  BY <1>1, LoDecodes DEF Fixeds
<1>4. PutBody(e, x) = Digits(x.lo, n)
  BY SMT DEF PutBody, Fixeds, Strings, Doubles
<1>5. Digits(x.lo, n) \in Seq(Byte) /\ Len(Digits(x.lo, n)) = n
  BY <1>3, DigitsType
<1> HIDE DEF n
<1>6. ASSUME NEW d \in Ends, NEW t \in Seq(Byte)
      PROVE  GetBody(d, x.form, Digits(x.lo, n) \o t) = Got(x.form, 0, x.lo, n)
  <2> DEFINE s == Digits(x.lo, n) \o t
  <2>1. Fixed(x.form, s, n) = Got(x.form, 0, x.lo, n)
    BY <1>3, FixedDecodes
  <2> HIDE DEF s
  <2>2. CASE x.form # "bool"
    <3>1. GetBody(d, x.form, s) = Fixed(x.form, s, n)
      BY <2>2, SMT DEF GetBody, Fixeds, Strings, Doubles, n
    <3> QED
      BY <2>1, <3>1 DEF s
  <2>3. CASE x.form = "bool"
    <3>1. GetBody(d, x.form, s) = BoolBody(s)
      BY <2>3, SMT DEF GetBody, Strings, Doubles
    <3>2. n = 1
      BY <2>3, SMT DEF n, Width
    <3>3. x.lo \in {0, 1}
      BY <1>1, <2>3, SMT DEF LoRange
    <3>4. Fixed("bool", s, 1) = Got("bool", 0, x.lo, 1)
      BY <2>1, <2>3, <3>2
    <3>5. /\ Got("bool", 0, x.lo, 1).ok
          /\ Got("bool", 0, x.lo, 1).lo = x.lo /\ x.lo <= 1
      BY <3>3, SMT DEF Got
    <3>6. BoolBody(s) = Got("bool", 0, x.lo, 1)
      BY <3>4, <3>5 DEF BoolBody
    <3> QED
      BY <2>3, <3>1, <3>2, <3>6 DEF s
  <2> QED
    BY <2>2, <2>3
<1> QED
  BY <1>2, <1>4, <1>5, <1>6 DEF Decodes

\* An unsigned variable length integer decodes.
LEMMA UintDecodes ==
  ASSUME NEW v \in Int, v \in U32, NEW e \in Ends, NEW d \in Ends,
         NEW t \in Seq(Byte), ~(e = "c" /\ v \in CutShort),
         NEW size, size = SizeofUint(e, v)
  PROVE  /\ size \in 1..5
         /\ Varint(v, size) \in Seq(Byte) /\ Len(Varint(v, size)) = size
         /\ GetVarint(d, "uint", Varint(v, size) \o t) = Got("uint", 0, v, size)
<1>1. size \in 1..5
  BY SizeofUintFits
<1>2. /\ size = 1 => v \in 0..127
      /\ size # 1 => Number(Digits(v, size - 1)) = v
  BY SizeofUintFits
<1>3. Fits("uint", v, size)
  BY <1>2 DEF Fits
<1>4. "uint" \in {"uint", "int"}
  OBVIOUS
<1>5. Varint(v, size) \in Seq(Byte) /\ Len(Varint(v, size)) = size
  BY <1>1, VarintType
<1>6. ~Unjoined(d, "uint", Digits(v, size - 1))
  BY DEF Unjoined
<1>7. GetVarint(d, "uint", Varint(v, size) \o t) = Got("uint", 0, v, size)
  BY <1>1, <1>3, <1>4, <1>6, VarintDecodes
<1> QED
  BY <1>1, <1>5, <1>7

\* The high bit of a signed number's first byte is its sign.
LEMMA SNumberSign ==
  ASSUME NEW s \in Seq(Byte), Len(s) \in 1..4
  PROVE  SNumber(s) < 0 <=> s[1] >= 128
<1>1. \A i \in 1..Len(s) : s[i] \in Byte
  BY SMT
<1>2. \A b \in Byte : b \in Int /\ 0 <= b /\ b <= 255
  BY SMT DEF Byte
<1>3. \A i \in 1..Len(s) : s[i] \in Int /\ 0 <= s[i] /\ s[i] <= 255
  BY <1>1, <1>2
<1>4. Len(s) = 1 \/ Len(s) = 2 \/ Len(s) = 3 \/ Len(s) = 4
  BY SMT
<1> DEFINE b == SignedByte(s[1])
<1>5. s[1] \in Int /\ 0 <= s[1] /\ s[1] <= 255
  BY <1>3, SMT
<1>6. b \in Int /\ (b < 0 <=> s[1] >= 128)
  BY <1>5, SMT DEF SignedByte
<1>7. SNumber(s) = Shifted(b, s)
  BY DEF SNumber
<1> HIDE DEF b
<1>8. CASE Len(s) = 1
  BY <1>6, <1>7, <1>8, SMT DEF Shifted
<1>9. CASE Len(s) = 2
  BY <1>3, <1>6, <1>7, <1>9, SMT DEF Shifted
<1>10. CASE Len(s) = 3
  BY <1>3, <1>6, <1>7, <1>10, SMT DEF Shifted
<1>11. CASE Len(s) = 4
  BY <1>3, <1>6, <1>7, <1>11, SMT DEF Shifted
<1> QED
  BY <1>4, <1>8, <1>9, <1>10, <1>11

\* The bytes of an int of the server's: their sign, when there are several.
LEMMA IntBytes ==
  ASSUME NEW v \in I32, NEW size, size = SizeofInt(v), size # 1
  PROVE  /\ size - 1 \in 1..4
         /\ Digits(v, size - 1) \in Seq(Byte) /\ Len(Digits(v, size - 1)) = size - 1
         /\ Digits(v, size - 1)[1] >= 128 <=> v < 0
<1>1. v \in Int
  BY SMT DEF I32
<1>2. size - 1 \in 1..4
  BY SizeofIntFits, SMT
<1>3. SNumber(Digits(v, size - 1)) = v
  BY SizeofIntFits
<1>4. Digits(v, size - 1) \in Seq(Byte) /\ Len(Digits(v, size - 1)) = size - 1
  BY <1>1, <1>2, DigitsType
<1>5. Digits(v, size - 1)[1] >= 128 <=> v < 0
  BY <1>2, <1>3, <1>4, SNumberSign
<1> QED
  BY <1>2, <1>4, <1>5

\* A signed one from the server does, but for the client's many bytes of a
\* negative one.
LEMMA IntDecodes ==
  ASSUME NEW v \in Int, v \in I32, NEW d \in Ends, ~(d = "ruby" /\ v < -64),
         NEW t \in Seq(Byte), NEW size, size = SizeofInt(v)
  PROVE  /\ size \in 1..5
         /\ Varint(v, size) \in Seq(Byte) /\ Len(Varint(v, size)) = size
         /\ GetVarint(d, "int", Varint(v, size) \o t) = Got("int", 0, v, size)
<1>1. size \in 1..5
  BY SizeofIntFits
<1>2. /\ size = 1 => v \in -64..63
      /\ size # 1 => SNumber(Digits(v, size - 1)) = v
  BY SizeofIntFits
<1>3. Fits("int", v, size)
  BY <1>2 DEF Fits
<1>4. "int" \in {"uint", "int"}
  OBVIOUS
<1>5. Varint(v, size) \in Seq(Byte) /\ Len(Varint(v, size)) = size
  BY <1>1, VarintType
<1>6. size # 1 => (v < 0 => v < -64)
  BY SMT DEF SizeofInt
<1>7. size # 1 => ~Unjoined(d, "int", Digits(v, size - 1))
  BY <1>6, IntBytes DEF Unjoined
<1>8. GetVarint(d, "int", Varint(v, size) \o t) = Got("int", 0, v, size)
  BY <1>1, <1>3, <1>4, <1>7, VarintDecodes
<1> QED
  BY <1>1, <1>5, <1>8

\* So does a value without a tag.
LEMMA VarintsDecode ==
  ASSUME NEW e \in Ends, NEW x, IsSendable(e, x), x.form \in {"uint", "int"}
  PROVE  Decodes(e, x)
<1>1. x.lo \in LoRange(x.form) /\ x.hi \in HiRange(x.form)
  BY DEF IsSendable, IsValue
<1>2. x.hi = 0
  BY <1>1, SMT DEF HiRange
<1>3. CASE x.form = "uint"
  <2> DEFINE size == SizeofUint(e, x.lo)
             p == Varint(x.lo, size)
  <2>1. x.lo \in U32 /\ ~(e = "c" /\ x.lo \in CutShort)
    BY <1>1, <1>3, SMT DEF LoRange, IsSendable, Misencoded
  <2>2. x.lo \in Int
    BY <2>1, SMT DEF U32
  <2>3. ASSUME NEW d \in Ends, NEW t \in Seq(Byte)
        PROVE  /\ p \in Seq(Byte) /\ Len(p) = size
               /\ GetVarint(d, "uint", p \o t) = Got("uint", 0, x.lo, size)
    <3>1. x.lo \in U32 /\ ~(e = "c" /\ x.lo \in CutShort)
      BY <2>1
    <3>2. size = SizeofUint(e, x.lo)
      OBVIOUS
    <3> HIDE DEF size
    <3> QED
      BY <2>2, <3>1, <3>2, UintDecodes
  <2>4. PutBody(e, x) = p
    BY <1>3, SMT DEF PutBody, Strings, Doubles
  <2>5. <<>> \in Seq(Byte)
    BY SMT
  <2> HIDE DEF size, p
  <2>6. \A d \in Ends : \A s : GetBody(d, "uint", s) = GetVarint(d, "uint", s)
    BY SMT DEF GetBody, Strings, Doubles
  <2>7. p \in Seq(Byte) /\ Len(p) = size
    BY <2>3, <2>5
  <2>8. ASSUME NEW d \in Ends, NEW t \in Seq(Byte)
        PROVE  GetBody(d, x.form, p \o t) = Got(x.form, x.hi, x.lo, Len(p))
    BY <1>2, <1>3, <2>3, <2>6, <2>7
  <2> QED
    BY <2>4, <2>7, <2>8 DEF Decodes
<1>4. CASE x.form = "int"
  <2> DEFINE size == SizeofInt(x.lo)
             p == Varint(x.lo, size)
  <2>1. x.lo \in I32 /\ e = "c"
    BY <1>1, <1>4, SMT DEF LoRange, IsSendable, Misencoded, Ends
  <2>2. x.lo \in Int
    BY <2>1, SMT DEF I32
  <2>3. ASSUME NEW d \in Ends, ~Unreadable(d, x), NEW t \in Seq(Byte)
        PROVE  GetVarint(d, "int", p \o t) = Got("int", 0, x.lo, size)
    <3>1. x.lo \in I32 /\ ~(d = "ruby" /\ x.lo < -64)
      BY <2>1, <2>3, <1>4 DEF Unreadable
    <3>2. size = SizeofInt(x.lo)
      OBVIOUS
    <3> HIDE DEF size
    <3> QED
      BY <2>2, <3>1, <3>2, IntDecodes
  <2>4. PutBody(e, x) = p
    BY <1>4, <2>1, SMT DEF PutBody, Strings, Doubles
  <2>5. p \in Seq(Byte) /\ Len(p) = size
    BY <2>1, <2>2, SizeofIntFits, VarintType
  <2> HIDE DEF size, p
  <2>6. \A d \in Ends : \A s : GetBody(d, "int", s) = GetVarint(d, "int", s)
    BY SMT DEF GetBody, Strings, Doubles
  <2>7. ASSUME NEW d \in Ends, ~Unreadable(d, x), NEW t \in Seq(Byte)
        PROVE  GetBody(d, x.form, p \o t) = Got(x.form, x.hi, x.lo, Len(p))
    BY <1>2, <1>4, <2>3, <2>5, <2>6, <2>7
  <2> QED
    BY <2>4, <2>5, <2>7 DEF Decodes
<1> QED
  BY <1>3, <1>4

\* Three pieces of a message, put together.
LEMMA Append3 ==
  ASSUME NEW p \in Seq(Byte), NEW z \in Seq(Byte), NEW t \in Seq(Byte)
  PROVE  /\ p \o z \in Seq(Byte) /\ z \o t \in Seq(Byte)
         /\ (p \o z) \o t = p \o (z \o t)
         /\ Len(p \o z) = Len(p) + Len(z)
         /\ Len((p \o z) \o t) = Len(p) + Len(z) + Len(t)
         /\ Len(p) \in Nat /\ Len(z) \in Nat /\ Len(t) \in Nat
  BY SMT

\* The body of a string decodes, and takes exactly its bytes.
LEMMA StringsDecode ==
  ASSUME NEW e \in Ends, NEW x, IsSendable(e, x), x.form \in Strings
  PROVE  Decodes(e, x)
<1> DEFINE size == SizeofUint(e, x.lo)
           p == Varint(x.lo, size)
           z == [i \in 1..x.lo |-> 0]
<1>1. x.lo \in LoRange(x.form) /\ x.hi \in HiRange(x.form)
  BY DEF IsSendable, IsValue
<1>2. x.hi = 0 /\ x.lo \in U32 /\ ~(e = "c" /\ x.lo \in CutShort)
  BY <1>1, SMT DEF HiRange, LoRange, Strings, IsSendable, Misencoded
<1>3. x.lo \in Int /\ x.lo \in Nat
  BY <1>2, SMT DEF U32
<1>4. ASSUME NEW d \in Ends, NEW t \in Seq(Byte)
      PROVE  /\ p \in Seq(Byte) /\ Len(p) = size /\ size \in 1..5
             /\ GetVarint(d, "uint", p \o t) = Got("uint", 0, x.lo, size)
  BY <1>2, <1>3, UintDecodes
<1>5. PutBody(e, x) = p \o z
  <2>1. x.form # "uint" /\ x.form # "int" /\ x.form # "nil" /\ x.form \notin Doubles
    BY SMT DEF Strings, Doubles
  <2> QED
    BY <2>1 DEF PutBody
<1>6. z \in Seq(Byte) /\ Len(z) = x.lo
  BY <1>3, SMT DEF Byte
<1>7. <<>> \in Seq(Byte)
  BY SMT
<1> HIDE DEF size, p, z
<1>8. p \in Seq(Byte) /\ Len(p) = size /\ size \in 1..5
  BY <1>4, <1>7
<1>9. \A d \in Ends : \A s : GetBody(d, x.form, s) = StringBody(d, x.form, s)
  BY SMT DEF GetBody, Strings, Doubles
<1>10. ASSUME NEW d \in Ends, NEW t \in Seq(Byte)
       PROVE  GetBody(d, x.form, (p \o z) \o t)
                    = Got(x.form, x.hi, x.lo, Len(p \o z))
  <2> DEFINE s == (p \o z) \o t
             n == GetVarint(d, "uint", s)
  <2>1. z \o t \in Seq(Byte) /\ s = p \o (z \o t)
    BY <1>6, <1>8, Append3
  <2>2. n = Got("uint", 0, x.lo, size)
    BY <1>4, <2>1
  <2>3. n.ok = TRUE /\ n.lo = x.lo /\ n.used = size
    BY <2>2, SMT DEF Got
  <2>4. Len(s) = size + x.lo + Len(t) /\ Len(t) \in Nat /\ Len(p \o z) = size + x.lo
    BY <1>6, <1>8, Append3
  <2> HIDE DEF s
  <2>5. Len(s) - n.used >= n.lo /\ n.used + n.lo = Len(p \o z)
    BY <1>3, <1>8, <2>3, <2>4, SMT
  <2> HIDE DEF n
  <2>6. StringBody(d, x.form, s) = Got(x.form, 0, n.lo, n.used + n.lo)
    BY <2>3, <2>5 DEF StringBody, n
  <2> QED
    BY <1>2, <1>9, <2>3, <2>5, <2>6 DEF s
<1>11. p \o z \in Seq(Byte)
  BY <1>6, <1>8, Append3
<1> QED
  BY <1>5, <1>10, <1>11 DEF Decodes

\* The second of three pieces.
LEMMA Second ==
  ASSUME NEW a \in Seq(Byte), NEW b \in Seq(Byte), NEW t \in Seq(Byte)
  PROVE  SubSeq((a \o b) \o t, Len(a) + 1, Len(a) + Len(b)) = b
  BY SMT

\* The length of three pieces.
LEMMA AppendLen ==
  ASSUME NEW a \in Seq(Byte), NEW b \in Seq(Byte), NEW t \in Seq(Byte)
  PROVE  /\ Len(a \o b) = Len(a) + Len(b)
         /\ Len((a \o b) \o t) = Len(a) + Len(b) + Len(t)
  BY SMT

\* The first of two words.
LEMMA HighWord ==
  ASSUME NEW a \in Seq(Byte), NEW b \in Seq(Byte), NEW t \in Seq(Byte),
         Len(a) = 4
  PROVE  SubSeq((a \o b) \o t, 1, 4) = a
<1>1. b \o t \in Seq(Byte) /\ (a \o b) \o t = a \o (b \o t)
  BY SMT
<1>2. SubSeq(a \o (b \o t), 1, Len(a)) = a
  BY <1>1, Prefix
<1> QED
  BY <1>1, <1>2

\* The second of two words.
LEMMA LowWord ==
  ASSUME NEW a \in Seq(Byte), NEW b \in Seq(Byte), NEW t \in Seq(Byte),
         Len(a) = 4, Len(b) = 4
  PROVE  SubSeq((a \o b) \o t, 5, 8) = b
<1>1. SubSeq((a \o b) \o t, Len(a) + 1, Len(a) + Len(b)) = b
  BY Second
<1>2. 4 + 1 = 5 /\ 4 + 4 = 8
  BY SMT
<1> QED
  BY <1>1, <1>2

\* The body of a 64 bit type decodes, one word at a time.
LEMMA DoublesDecode ==
  ASSUME NEW e \in Ends, NEW x, IsSendable(e, x), x.form \in Doubles
  PROVE  Decodes(e, x)
<1> DEFINE hw == Digits(x.hi, 4)
           lw == Digits(x.lo, 4)
<1>1. x.lo \in LoRange(x.form) /\ x.hi \in HiRange(x.form)
  BY DEF IsSendable, IsValue
<1>2. /\ x.lo \in U32
      /\ x.form = "i64" => x.hi \in I32
      /\ x.form # "i64" => x.hi \in U32
  BY <1>1, SMT DEF HiRange, LoRange, Doubles
<1>3. /\ x.lo \in Int /\ x.lo \div 16777216 \in 0..255 /\ x.hi \in Int
      /\ x.form = "i64" => x.hi \div 16777216 \in -128..127
      /\ x.form # "i64" => x.hi \div 16777216 \in 0..255
  BY <1>2, SMT DEF U32, I32
<1>4. Number(lw) = x.lo
  BY <1>3, NumberDigits, SMT
<1>5. (IF x.form = "i64" THEN SNumber(hw) ELSE Number(hw)) = x.hi
  <2>1. x.form = "i64" => SNumber(hw) = x.hi
    BY <1>3, SNumberDigits, SMT
  <2>2. ASSUME x.form # "i64" PROVE Number(hw) = x.hi
    <3>1. x.hi \in Int /\ x.hi \div 16777216 \in 0..255
      BY <1>3, <2>2
    <3> QED
      BY <3>1, NumberDigits, SMT
  <2> QED
    BY <2>1, <2>2
<1>6. 4 \in 1..4
  BY SMT
<1>7. hw \in Seq(Byte) /\ Len(hw) = 4 /\ lw \in Seq(Byte) /\ Len(lw) = 4
  BY <1>3, <1>6, DigitsType
<1>8. PutBody(e, x) = hw \o lw
  BY SMT DEF PutBody, Strings, Doubles
<1> HIDE DEF hw, lw
<1>9. \A d \in Ends : \A s : GetBody(d, x.form, s) = DoubleBody(x.form, s)
  BY SMT DEF GetBody, Strings, Doubles
<1>10. ASSUME NEW d \in Ends, NEW t \in Seq(Byte)
       PROVE  GetBody(d, x.form, (hw \o lw) \o t) = Got(x.form, x.hi, x.lo, 8)
  <2> DEFINE s == (hw \o lw) \o t
  <2>1. /\ SubSeq(s, 1, 4) = hw /\ SubSeq(s, 5, 8) = lw
        /\ Len(s) = 8 + Len(t) /\ Len(t) \in Nat
    <3>1. SubSeq((hw \o lw) \o t, 1, 4) = hw
      BY <1>7, HighWord
    <3>2. SubSeq((hw \o lw) \o t, 5, 8) = lw
      BY <1>7, LowWord
    <3>4. Len((hw \o lw) \o t) = Len(hw) + Len(lw) + Len(t)
      BY <1>7, AppendLen
    <3>5. Len((hw \o lw) \o t) = 8 + Len(t)
      BY <1>7, <3>4
    <3>3. Len(t) \in Nat
      BY SMT
    <3> QED
      BY <3>1, <3>2, <3>3, <3>5
  <2> HIDE DEF s
  <2>2. ~(Len(s) < 8)
    BY <2>1, SMT
  <2>3. DoubleBody(x.form, s) = Got(x.form, x.hi, x.lo, 8)
    BY <1>4, <1>5, <2>1, <2>2 DEF DoubleBody
  <2> QED
    BY <1>9, <2>3 DEF s
<1>11. hw \o lw \in Seq(Byte) /\ Len(hw \o lw) = 8
  <2>1. hw \o lw \in Seq(Byte) /\ Len(hw \o lw) = Len(hw) + Len(lw)
    BY <1>7, Append3
  <2> QED
    BY <1>7, <2>1
<1> QED
  BY <1>8, <1>10, <1>11 DEF Decodes

\* Nil has no body.
LEMMA NilDecodes ==
  ASSUME NEW e \in Ends, NEW x, IsSendable(e, x), x.form = "nil"
  PROVE  Decodes(e, x)
<1>1. x.lo = 0 /\ x.hi = 0
  BY SMT DEF IsSendable, IsValue, LoRange, HiRange
<1>2. PutBody(e, x) = <<>>
  BY SMT DEF PutBody, Strings, Doubles
<1>3. <<>> \in Seq(Byte) /\ Len(<<>>) = 0
  BY SMT
<1>4. \A d \in Ends : \A s : GetBody(d, "nil", s) = Got("nil", 0, 0, 0)
  BY SMT DEF GetBody, Strings, Doubles
<1> QED
  BY <1>1, <1>2, <1>3, <1>4 DEF Decodes

\* The body of every value decodes.
LEMMA BodyDecodes ==
  ASSUME NEW e \in Ends, NEW x, IsSendable(e, x)
  PROVE  Decodes(e, x)
<1>1. x.form \in Fixeds \cup {"uint", "int"} \cup Strings \cup Doubles \cup {"nil"}
  BY SMT DEF IsSendable, Forms, TypeNames, DataTypes, Fixeds, Strings, Doubles
<1> QED
  BY <1>1, FixedsDecode, VarintsDecode, StringsDecode, DoublesDecode, NilDecodes

\* A signed integer from the server never meets the byte it does not read.
LEMMA UntaggedFirst ==
  ASSUME NEW e \in Ends, NEW x, IsSendable(e, x), x.form = "int",
         NEW t \in Seq(Byte)
  PROVE  First(PutBody(e, x) \o t) # 128
<1> DEFINE size == SizeofInt(x.lo)
<1>1. x.lo \in LoRange("int") /\ e = "c"
  BY SMT DEF IsSendable, IsValue, Misencoded, Ends
<1>2. x.lo \in I32
  BY <1>1, SMT DEF LoRange
<1>3. x.lo \in Int
  BY <1>2, SMT DEF I32
<1>4. size \in 1..5
  BY <1>2, SizeofIntFits
<1>5. PutBody(e, x) = Varint(x.lo, size)
  BY <1>1, SMT DEF PutBody, Strings, Doubles
<1> HIDE DEF size
<1>6. First(Varint(x.lo, size) \o t) # 128
  BY <1>3, <1>4, VarintFirst
<1> QED
  BY <1>5, <1>6

-----------------------------------------------------------------------------
(* Values. *)

\* The fields of what a reader gets.
LEMMA GotFields ==
  ASSUME NEW form, NEW hi, NEW lo, NEW used
  PROVE  /\ Got(form, hi, lo, used).ok /\ Got(form, hi, lo, used).form = form
         /\ Got(form, hi, lo, used).hi = hi /\ Got(form, hi, lo, used).lo = lo
         /\ Got(form, hi, lo, used).used = used
  BY DEF Got

\* A reader gets the value that was put, if it can read it, and takes its bytes.
LEMMA PutGet ==
  ASSUME NEW e \in Ends, NEW x, IsSendable(e, x), NEW d \in Ends, ~Unreadable(d, x),
         NEW t \in Seq(Byte), NEW r,
         r \in Get(d, IF x.form \in TypeNames THEN "data" ELSE x.form,
                   Put(e, x) \o t)
  PROVE  r = Got(x.form, x.hi, x.lo, Len(Put(e, x) \o t) - Len(t))
<1> DEFINE p == PutBody(e, x)
<1>1. /\ p \in Seq(Byte)
      /\ GetBody(d, x.form, p \o t) = Got(x.form, x.hi, x.lo, Len(p))
  BY BodyDecodes DEF Decodes
<1>2. Len(p) \in Nat /\ Len(t) \in Nat /\ Len(p \o t) - Len(t) = Len(p)
  BY <1>1, SMT
<1>3. CASE x.form \in TypeNames
  <2> DEFINE tag == Tag(x.form)
             s == (<<tag>> \o p) \o t
  <2>1. tag \in 0..13 /\ DataTypes[tag + 1] = x.form
    BY <1>3, TagNames
  <2>2. Put(e, x) = <<tag>> \o p
    BY <1>3 DEF Put
  <2> HIDE DEF tag
  <2>3. tag \in Byte
    BY <2>1, SMT DEF Byte
  <2>4. s[1] = tag /\ s # <<>> /\ Tail(s) = p \o t /\ Len(s) = 1 + Len(p) + Len(t)
    BY <1>1, <2>3, Middle
  <2>5. r = GetData(d, s)
    BY <1>3, <2>2 DEF Get
  <2> HIDE DEF p, s
  <2>6. ~(s[1] >= 14)
    BY <2>1, <2>4, SMT
  <2>7. GetBody(d, DataTypes[s[1] + 1], Tail(s)) = Got(x.form, x.hi, x.lo, Len(p))
    BY <1>1, <2>1, <2>4
  <2>8. GetData(d, s) = LET r0 == Got(x.form, x.hi, x.lo, Len(p))
                        IN  IF r0.ok THEN Got(r0.form, r0.hi, r0.lo, r0.used + 1)
                                     ELSE Refused
    BY <2>4, <2>6, <2>7 DEF GetData
  <2>9. GetData(d, s) = Got(x.form, x.hi, x.lo, Len(p) + 1)
    BY <2>8, GotFields
  <2>10. Len(s) - Len(t) = Len(p) + 1
    BY <1>2, <2>4, SMT
  <2> QED
    BY <2>2, <2>5, <2>9, <2>10 DEF s
<1>4. CASE x.form \notin TypeNames
  <2>1. x.form \in {"uint", "int"}
    BY <1>4 DEF IsSendable, Forms
  <2>2. Put(e, x) = p
    BY <1>4 DEF Put
  <2>3. x.form = "int" => First(p \o t) # 128
    BY UntaggedFirst
  <2> HIDE DEF p
  <2>4. r \in Get(d, x.form, p \o t)
    BY <1>4, <2>2
  <2>5. x.form # "data"
    BY <2>1
  <2>6. r = GetVarint(d, x.form, p \o t)
    BY <2>1, <2>3, <2>4, <2>5 DEF Get, First
  <2>7. GetBody(d, x.form, p \o t) = GetVarint(d, x.form, p \o t)
    BY <2>1, SMT DEF GetBody, Strings, Doubles
  <2> QED
    BY <1>1, <1>2, <2>2, <2>6, <2>7
<1> QED
  BY <1>3, <1>4

-----------------------------------------------------------------------------
(* Two readers. *)

\* The bytes of a negative int of several: the server decodes them.
IsLongNegative(form, s) ==
    form = "int" /\ Len(s) >= 2 /\ s[1] > 128 /\ s[2] >= 128

\* The two ends read the same integer, but for a length of zero and the bytes of
\* a long negative one.
LEMMA VarintsAgree ==
  ASSUME NEW s \in Seq(Byte), NEW form \in {"uint", "int"}
  PROVE  \/ GetVarint("c", form, s) = GetVarint("ruby", form, s)
         \/ /\ s # <<>> /\ s[1] = 128
            /\ GetVarint("ruby", form, s) = Refused
            /\ GetVarint("c", form, s) = Got(form, 0, 0, 1)
         \/ /\ IsLongNegative(form, s)
            /\ ~GetVarint("ruby", form, s).ok
            /\ GetVarint("c", form, s).ok
<1>1. CASE s = <<>>
  <2>1. \A d : GetVarint(d, form, s) = Refused
    BY <1>1, SMT DEF GetVarint
  <2> QED
    BY <2>1
<1>2. CASE s # <<>> /\ s[1] = 128
  <2>1. s[1] - 128 = 0
    BY <1>2, SMT
  <2>2. \A d : GetVarint(d, form, s) = IF d = "c" THEN Got(form, 0, 0, 1)
                                                  ELSE Refused
    BY <1>2, <2>1, SMT DEF GetVarint
  <2> QED
    BY <1>2, <2>2
<1>3. CASE s # <<>> /\ s[1] # 128
  <2> DEFINE n == s[1] - 128
             body == SubSeq(s, 2, 1 + n)
             value == IF form = "int" THEN SNumber(body) ELSE Number(body)
  <2>1. s[1] \in Byte /\ Len(s) \in Nat
    BY <1>3, SMT
  <2>2. \A b \in Byte : b \in Int /\ b >= 0
    BY SMT DEF Byte
  <2>3. n # 0 /\ n \in Int
    BY <1>3, <2>1, <2>2, SMT
  <2>4. CASE n < 0
    <3>1. \A d : GetVarint(d, form, s) =
                   Got(form, 0, IF form = "int" /\ s[1] >= 64 THEN s[1] - 128
                                                              ELSE s[1], 1)
      BY <1>3, <2>4, SMT DEF GetVarint
    <3> QED
      BY <3>1
  <2>5. CASE n \in 1..4 /\ Len(s) > n
    <3>1. body[1] = s[2] /\ Len(s) >= 2 /\ s[1] > 128
      BY <2>1, <2>5, SMT DEF Byte
    <3> HIDE DEF body
    <3>2. ASSUME NEW d, ~Unjoined(d, form, body)
          PROVE  GetVarint(d, form, s) = Got(form, 0, value, 1 + n)
      BY <1>3, <2>3, <2>5, <3>2, SMT DEF GetVarint, body, n
    <3>3. ~Unjoined("c", form, body)
      BY DEF Unjoined
    <3>4. CASE ~Unjoined("ruby", form, body)
      BY <3>2, <3>3, <3>4
    <3>5. CASE Unjoined("ruby", form, body)
      <4>1. IsLongNegative(form, s)
        BY <3>1, <3>5 DEF Unjoined, IsLongNegative
      <4>2. GetVarint("ruby", form, s) = Refused
        BY <1>3, <2>3, <2>5, <3>5, SMT DEF GetVarint, body, n
      <4>3. GetVarint("c", form, s).ok /\ ~Refused.ok
        BY <3>2, <3>3, GotFields DEF Refused
      <4> QED
        BY <4>1, <4>2, <4>3
    <3> QED
      BY <3>4, <3>5
  <2>6. CASE ~(n < 0) /\ ~(n \in 1..4 /\ Len(s) > n)
    <3>1. \A d : GetVarint(d, form, s) = Refused
      BY <1>3, <2>3, <2>6, SMT DEF GetVarint
    <3> QED
      BY <3>1
  <2> QED
    BY <2>4, <2>5, <2>6
<1> QED
  BY <1>1, <1>2, <1>3

\* The client decodes no int of the server's below -64.
LEMMA IntRefused ==
  ASSUME NEW v \in I32, v < -64, NEW t \in Seq(Byte), NEW size, size = SizeofInt(v)
  PROVE  GetVarint("ruby", "int", Varint(v, size) \o t) = Refused
<1> DEFINE b == Digits(v, size - 1)
           s == Varint(v, size) \o t
           n == s[1] - 128
<1>1. v \in Int
  BY SMT DEF I32
<1>2. size # 1
  BY <1>1, SMT DEF SizeofInt
<1>3. /\ size - 1 \in 1..4 /\ size \in 2..5
      /\ b \in Seq(Byte) /\ Len(b) = size - 1
      /\ b[1] >= 128
  <2>1. /\ size - 1 \in 1..4
        /\ b \in Seq(Byte) /\ Len(b) = size - 1
        /\ (b[1] >= 128 <=> v < 0)
    BY <1>2, IntBytes
  <2>2. size \in 1..5
    BY SizeofIntFits
  <2> HIDE DEF b
  <2>3. v < 0
    BY <1>1, SMT
  <2>4. size \in 2..5
    BY <1>2, <2>2, SMT
  <2> QED
    BY <2>1, <2>3, <2>4
<1>4. s = (<<127 + size>> \o b) \o t
  BY <1>2 DEF Varint
<1> HIDE DEF b
<1>5. \A k \in 2..5 : 127 + k \in Byte
  BY SMT DEF Byte
<1>6. 127 + size \in Byte
  BY <1>3, <1>5
<1>7. Len(t) \in Nat
  BY SMT
<1>8. /\ SubSeq((<<127 + size>> \o b) \o t, 2, 1 + (size - 1)) = b
       /\ ((<<127 + size>> \o b) \o t)[1] = 127 + size
       /\ Len((<<127 + size>> \o b) \o t) = 1 + (size - 1) + Len(t)
       /\ (<<127 + size>> \o b) \o t # <<>>
  BY <1>3, <1>6, <1>7, Middle
<1> HIDE DEF s
<1>9. /\ SubSeq(s, 2, 1 + (size - 1)) = b
      /\ s[1] = 127 + size /\ Len(s) = 1 + (size - 1) + Len(t) /\ s # <<>>
  BY <1>4, <1>8
<1>10. n = size - 1 /\ n \in 1..4
  BY <1>3, <1>9, SMT
<1>11. Unjoined("ruby", "int", SubSeq(s, 2, 1 + n))
  BY <1>3, <1>9, <1>10 DEF Unjoined
<1>12. GetVarint("ruby", "int", s) = Refused
  BY <1>9, <1>10, <1>11, SMT DEF GetVarint
<1> QED
  BY <1>12 DEF s

\* A value an end cannot read, it refuses.
LEMMA PutRefused ==
  ASSUME NEW e \in Ends, NEW x, IsSendable(e, x), NEW d \in Ends, Unreadable(d, x),
         NEW t \in Seq(Byte), NEW r,
         r \in Get(d, IF x.form \in TypeNames THEN "data" ELSE x.form,
                   Put(e, x) \o t)
  PROVE  r = Refused
<1> DEFINE size == SizeofInt(x.lo)
<1>1. d = "ruby" /\ x.form = "int" /\ x.lo < -64
  BY DEF Unreadable
<1>2. x.form \notin TypeNames /\ x.form # "data"
  BY <1>1, SMT DEF TypeNames, DataTypes
<1>3. e = "c" /\ x.lo \in I32
  BY <1>1, SMT DEF IsSendable, IsValue, LoRange, Misencoded, Ends
<1>4. Put(e, x) = Varint(x.lo, size)
  <2>1. Put(e, x) = PutBody(e, x)
    BY <1>2 DEF Put
  <2>2. PutBody(e, x) = Varint(x.lo, SizeofInt(x.lo))
    BY <1>1, <1>3, SMT DEF PutBody, Strings, Doubles
  <2> QED
    BY <2>1, <2>2
<1>5. r = GetVarint("ruby", "int", Varint(x.lo, size) \o t)
  BY <1>1, <1>2, <1>4 DEF Get
<1> QED
  BY <1>1, <1>3, <1>5, IntRefused

\* The same of the body of a tagged value, ...
LEMMA BodiesAgree ==
  ASSUME NEW s \in Seq(Byte), NEW form \in TypeNames
  PROVE  \/ GetBody("c", form, s) = GetBody("ruby", form, s)
         \/ /\ s # <<>> /\ s[1] = 128
            /\ ~GetBody("ruby", form, s).ok
            /\ GetBody("c", form, s).ok
<1>1. form \notin {"uint", "int"}
  BY SMT DEF TypeNames, DataTypes
<1>2. CASE form \in Strings
  <2>1. \A d : GetBody(d, form, s) = StringBody(d, form, s)
    BY <1>2, SMT DEF GetBody, Strings, Doubles
  <2>2. CASE GetVarint("c", "uint", s) = GetVarint("ruby", "uint", s)
    BY <2>1, <2>2 DEF StringBody
  <2>3. CASE /\ s # <<>> /\ s[1] = 128
             /\ GetVarint("ruby", "uint", s) = Refused
             /\ GetVarint("c", "uint", s) = Got("uint", 0, 0, 1)
    <3>1. ~Refused.ok
      BY DEF Refused
    <3>2. StringBody("ruby", form, s) = Refused
      BY <2>3, <3>1 DEF StringBody
    <3>3. Len(s) - 1 >= 0
      BY <2>3, SMT
    <3>4. StringBody("c", form, s) = Got(form, 0, 0, 1 + 0)
      BY <2>3, <3>3, GotFields DEF StringBody
    <3> QED
      BY <2>1, <2>3, <3>1, <3>2, <3>4, GotFields
  <2>4. ~IsLongNegative("uint", s)
    BY DEF IsLongNegative
  <2> QED
    BY <2>2, <2>3, <2>4, VarintsAgree
<1>3. CASE form \notin Strings
  <2>1. CASE form = "nil"
    <3>1. \A d : GetBody(d, form, s) = Got("nil", 0, 0, 0)
      BY <2>1, SMT DEF GetBody, Strings, Doubles
    <3> QED
      BY <3>1
  <2>2. CASE form \in Doubles
    <3>1. \A d : GetBody(d, form, s) = DoubleBody(form, s)
      BY <2>2, SMT DEF GetBody, Strings, Doubles
    <3> QED
      BY <3>1
  <2>3. CASE form = "bool"
    <3>1. \A d : GetBody(d, form, s) = BoolBody(s)
      BY <2>3, SMT DEF GetBody, Strings, Doubles
    <3> QED
      BY <3>1
  <2>4. CASE form \notin {"nil", "bool"} \cup Doubles
    <3>1. \A d : GetBody(d, form, s) = Fixed(form, s, Width(form))
      BY <1>1, <1>3, <2>4, SMT DEF GetBody
    <3> QED
      BY <3>1
  <2> QED
    BY <2>1, <2>2, <2>3, <2>4
<1> QED
  BY <1>2, <1>3

\* ... of a tagged value, ...
LEMMA DataAgrees ==
  ASSUME NEW s \in Seq(Byte)
  PROVE  \/ GetData("c", s) = GetData("ruby", s)
         \/ /\ 2 <= Len(s) /\ s[2] = 128
            /\ ~GetData("ruby", s).ok /\ GetData("c", s).ok
<1>1. CASE s = <<>> \/ s[1] >= 14
  BY <1>1 DEF GetData
<1>2. CASE ~(s = <<>> \/ s[1] >= 14)
  <2> DEFINE form == DataTypes[s[1] + 1]
  <2>0. s # <<>> /\ s[1] \in Byte
    BY <1>2, SMT
  <2>7. Tail(s) \in Seq(Byte)
    BY <2>0, SMT
  <2>1. s[1] + 1 \in 1..14
    <3>1. \A b \in Byte : ~(b >= 14) => b + 1 \in 1..14
      BY SMT DEF Byte
    <3> QED
      BY <1>2, <2>0, <3>1
  <2>2. form \in TypeNames
    BY <2>1 DEF TypeNames
  <2>3. \A d : GetData(d, s) = LET r == GetBody(d, form, Tail(s))
                               IN  IF r.ok THEN Got(r.form, r.hi, r.lo, r.used + 1)
                                           ELSE Refused
    BY <1>2 DEF GetData
  <2> HIDE DEF form
  <2>4. CASE GetBody("c", form, Tail(s)) = GetBody("ruby", form, Tail(s))
    BY <2>3, <2>4
  <2>5. CASE /\ Tail(s) # <<>> /\ Tail(s)[1] = 128
             /\ ~GetBody("ruby", form, Tail(s)).ok
             /\ GetBody("c", form, Tail(s)).ok
    <3>1. 2 <= Len(s) /\ s[2] = 128
      BY <2>0, <2>7, <2>5, SMT
    <3>2. ~Refused.ok
      BY DEF Refused
    <3> QED
      BY <2>3, <2>5, <3>1, <3>2, GotFields
  <2>6. \/ GetBody("c", form, Tail(s)) = GetBody("ruby", form, Tail(s))
        \/ /\ Tail(s) # <<>> /\ Tail(s)[1] = 128
           /\ ~GetBody("ruby", form, Tail(s)).ok
           /\ GetBody("c", form, Tail(s)).ok
    BY <2>7, <2>2, BodiesAgree
  <2> QED
    BY <2>4, <2>5, <2>6
<1> QED
  BY <1>1, <1>2

\* ... and of whatever the readers ask for.
LEMMA GetsAgree ==
  ASSUME NEW s \in Seq(Byte), NEW a \in Asked,
         NEW c \in Get("c", a, s), NEW r \in Get("ruby", a, s)
  PROVE  \/ c = r
         \/ /\ c.ok /\ ~r.ok
            /\ \/ \E i \in 1..2 : i <= Len(s) /\ s[i] = 128
               \/ IsLongNegative(a, s)
<1>1. CASE a = "data"
  <2>1. c = GetData("c", s) /\ r = GetData("ruby", s)
    BY <1>1 DEF Get
  <2>2. 2 \in 1..2
    BY SMT
  <2> QED
    BY <2>1, <2>2, DataAgrees
<1>2. CASE a \in {"uint", "int"}
  <2>1. r = GetVarint("ruby", a, s)
    BY <1>2, SMT DEF Get
  <2>2. CASE a = "int" /\ s # <<>> /\ s[1] = 128
    <3>1. c = Got("int", 0, 0, 1) \/ c = Got("int", 0, -1, 1)
      BY <2>2, SMT DEF Get
    <3>2. s[1] - 128 = 0 /\ 1 <= Len(s) /\ 1 \in 1..2
      BY <2>2, SMT
    <3>3. r = Refused
      BY <2>1, <2>2, <3>2, SMT DEF GetVarint
    <3>4. ~Refused.ok
      BY DEF Refused
    <3> QED
      BY <2>2, <3>1, <3>2, <3>3, <3>4, GotFields
  <2>3. CASE ~(a = "int" /\ s # <<>> /\ s[1] = 128)
    <3>1. c = GetVarint("c", a, s)
      BY <1>2, <2>3, SMT DEF Get
    <3>2. ~Refused.ok
      BY DEF Refused
    <3>3. s # <<>> => 1 <= Len(s) /\ 1 \in 1..2
      BY SMT
    <3> QED
      BY <1>2, <2>1, <3>1, <3>2, <3>3, VarintsAgree, GotFields
  <2> QED
    BY <2>2, <2>3
<1> QED
  BY <1>1, <1>2 DEF Asked
=============================================================================
