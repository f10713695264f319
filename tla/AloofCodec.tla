----------------------------- MODULE AloofCodec -----------------------------
(***************************************************************************)
(* The codecs: the server's aloof_oer.c and aloof_data.c and the client's  *)
(* codec.rb, as operators on sequences of bytes.                           *)
(*                                                                         *)
(* A value has two 32 bit words: lo, and hi for the 64 bit types.  A float *)
(* is the word its bits make, a string its length: the bytes of a string   *)
(* are not interpreted by either end.                                      *)
(***************************************************************************)
EXTENDS Integers, Sequences

Byte == 0..255
U16  == {n \in Int : n \div 256 \in 0..255}
I16  == {n \in Int : n \div 256 \in -128..127}
U32  == {n \in Int : n \div 16777216 \in 0..255}
I32  == {n \in Int : n \div 16777216 \in -128..127}

Ends == {"c", "ruby"}

\* enum aloof_data_type; the index is the tag.
DataTypes == <<"nil", "u8", "u16", "u32", "u64", "i8", "i16", "i32", "i64",
               "bool", "float", "double", "string", "blob">>
TypeNames == {DataTypes[i] : i \in 1..14}
Tag(ty)   == (CHOOSE i \in 1..14 : DataTypes[i] = ty) - 1
Strings   == {"string", "blob"}
Doubles   == {"u64", "i64", "double"}
Width(ty) == CASE ty \in {"u8", "i8", "bool"}   -> 1
               [] ty \in {"u16", "i16"}         -> 2
               [] ty \in {"u32", "i32", "float"} -> 4

\* A value without a tag is a uint or an int: a variable length integer.
Forms == TypeNames \cup {"uint", "int"}

HiRange(form) == CASE form \in {"u64", "double"} -> U32
                   [] form = "i64"               -> I32
                   [] OTHER                      -> {0}
LoRange(form) == CASE form = "nil"           -> {0}
                   [] form = "bool"          -> {0, 1}
                   [] form = "u8"            -> 0..255
                   [] form = "i8"            -> -128..127
                   [] form = "u16"           -> U16
                   [] form = "i16"           -> I16
                   [] form \in {"int", "i32"} -> I32
                   [] OTHER                  -> U32

IsValue(x) == x.hi \in HiRange(x.form) /\ x.lo \in LoRange(x.form)

-----------------------------------------------------------------------------
(* Digits and numbers. *)

Weight == <<1, 256, 65536, 16777216>>

\* The n low bytes of v, the most significant first.
Digits(v, n) == [i \in 1..n |-> (v \div Weight[n - i + 1]) % 256]

\* What shifting the bytes of s in leaves, when the first of them stands for b:
\* for itself, from a word of zeros, ...
Shifted(b, s) ==
    CASE Len(s) = 1 -> b
      [] Len(s) = 2 -> s[2] + 256 * b
      [] Len(s) = 3 -> s[3] + 256 * s[2] + 65536 * b
      [] Len(s) = 4 -> s[4] + 256 * s[3] + 65536 * s[2] + 16777216 * b

Number(s) == Shifted(s[1], s)

\* ... or for a negative number, from a word of ones, when its high bit is set.
SignedByte(b) == IF b >= 128 THEN b - 256 ELSE b
SNumber(s)    == Shifted(SignedByte(s[1]), s)

-----------------------------------------------------------------------------
(* Encoding. *)

\* aloof_oer_sizeofUint has <= where sizeof_uint has <.
SizeofUint(e, v) ==
    LET below(w) == v < w \/ (e = "c" /\ v = w)
    IN  CASE v < 128                              -> 1
          [] 128 <= v /\ v < 256                  -> 2
          [] 256 <= v /\ below(65536)             -> 3
          [] ~below(65536) /\ below(16777216)     -> 4
          [] OTHER                                -> 5

SizeofInt(v) ==
    LET fits(w) == -w <= v /\ v < w
    IN  CASE fits(64)                            -> 1
          [] ~fits(64) /\ fits(128)              -> 2
          [] ~fits(128) /\ fits(32768)           -> 3
          [] ~fits(32768) /\ fits(8388608)       -> 4
          [] OTHER                               -> 5

\* Mutant: the first byte of a long integer counts itself.
VarintCounted(v, size) ==
    IF size = 1 THEN <<v % 128>> ELSE <<128 + size>> \o Digits(v, size - 1)

Varint(v, size) ==
    IF size = 1 THEN <<v % 128>> ELSE <<127 + size>> \o Digits(v, size - 1)

\* put_int takes the leading bytes of the four, not the trailing ones.
RubyInt(v) ==
    LET fits(w) == -w <= v /\ v < w
        size == CASE fits(64)                            -> 1
                  [] ~fits(64) /\ fits(8192)             -> 2
                  [] ~fits(8192) /\ fits(32768)          -> 3
                  [] ~fits(32768) /\ fits(8388608)       -> 4
                  [] OTHER                               -> 5
        word == Digits(v, 4)
    IN  IF size = 1 THEN <<v % 256>>
        ELSE <<127 + size>> \o [i \in 1..size-1 |-> word[size - i]]

PutBody(e, x) ==
    CASE x.form = "uint"     -> Varint(x.lo, SizeofUint(e, x.lo))
      [] x.form = "int"      -> IF e = "c" THEN Varint(x.lo, SizeofInt(x.lo))
                                           ELSE RubyInt(x.lo)
      [] x.form = "nil"      -> <<>>
      [] x.form \in Strings  -> Varint(x.lo, SizeofUint(e, x.lo))
                                  \o [i \in 1..x.lo |-> 0]
      [] x.form \in Doubles  -> Digits(x.hi, 4) \o Digits(x.lo, 4)
      [] OTHER               -> Digits(x.lo, Width(x.form))

Put(e, x) ==
    IF x.form \in TypeNames THEN <<Tag(x.form)>> \o PutBody(e, x)
                            ELSE PutBody(e, x)

-----------------------------------------------------------------------------
(* Decoding: the value, and how many bytes it took. *)

Refused == [ok |-> FALSE, form |-> "nil", hi |-> 0, lo |-> 0, used |-> 0]
Got(form, hi, lo, used) ==
    [ok |-> TRUE, form |-> form, hi |-> hi, lo |-> lo, used |-> used]

\* get_int pads the bytes of a negative number, which are binary, with a string
\* of UTF-8 that is not ASCII either, and `<<` raises.  input_codec_test.rb:40 has
\* a literal in place of received bytes, where it does not.
Unjoined(d, form, body) == d = "ruby" /\ form = "int" /\ body[1] >= 128

\* get_uint and get_int raise on 0x80, a length of no bytes; decodeVarint
\* returns zero.
GetVarint(d, form, s) ==
    LET n    == s[1] - 128
        body == SubSeq(s, 2, 1 + n)
    IN  CASE s = <<>> -> Refused
          [] s # <<>> /\ n < 0 ->
               Got(form, 0, IF form = "int" /\ s[1] >= 64 THEN s[1] - 128
                                                          ELSE s[1], 1)
          [] s # <<>> /\ n = 0 ->
               IF d = "c" THEN Got(form, 0, 0, 1) ELSE Refused
          [] s # <<>> /\ n \in 1..4 /\ Len(s) > n /\ ~Unjoined(d, form, body) ->
               Got(form, 0, IF form = "int" THEN SNumber(body)
                                            ELSE Number(body), 1 + n)
          [] OTHER -> Refused

Fixed(form, s, n) ==
    IF Len(s) < n THEN Refused
    ELSE Got(form, 0, IF form \in {"i8", "i16", "i32"}
                        THEN SNumber(SubSeq(s, 1, n))
                        ELSE Number(SubSeq(s, 1, n)), n)

DoubleBody(form, s) ==
    IF Len(s) < 8 THEN Refused
    ELSE Got(form, IF form = "i64" THEN SNumber(SubSeq(s, 1, 4))
                                   ELSE Number(SubSeq(s, 1, 4)),
             Number(SubSeq(s, 5, 8)), 8)

\* Mutant: the server does not look whether the bytes are there.
StringUnchecked(d, form, s) ==
    LET n == GetVarint(d, "uint", s)
    IN  IF n.ok /\ (d = "c" \/ Len(s) - n.used >= n.lo)
          THEN Got(form, 0, n.lo, n.used + n.lo) ELSE Refused

\* A string whose bytes are not all there: get_string raises, and
\* aloof_data_get_string reads nothing.
StringBody(d, form, s) ==
    LET n == GetVarint(d, "uint", s)
    IN  IF n.ok /\ Len(s) - n.used >= n.lo
          THEN Got(form, 0, n.lo, n.used + n.lo) ELSE Refused

BoolBody(s) ==
    LET r == Fixed("bool", s, 1) IN IF r.ok /\ r.lo <= 1 THEN r ELSE Refused

GetBody(d, form, s) ==
    CASE form \in {"uint", "int"} -> GetVarint(d, form, s)
      [] form = "nil"             -> Got("nil", 0, 0, 0)
      [] form \in Strings         -> StringBody(d, form, s)
      [] form \in Doubles         -> DoubleBody(form, s)
      [] form = "bool"            -> BoolBody(s)
      [] OTHER                    -> Fixed(form, s, Width(form))

\* aloof_data_get and Base.get_value.
GetData(d, s) ==
    IF s = <<>> \/ s[1] >= 14 THEN Refused
    ELSE LET r == GetBody(d, DataTypes[s[1] + 1], Tail(s))
         IN  IF r.ok THEN Got(r.form, r.hi, r.lo, r.used + 1) ELSE Refused

Asked == {"uint", "int", "data"}

\* What a reader that asks for a uint, an int or a tagged value may get.
\* aloof_oer_getInt tests a byte it has not read when the length is zero.
Get(d, asked, s) ==
    IF asked = "data" THEN {GetData(d, s)}
    ELSE IF d = "c" /\ asked = "int" /\ s # <<>> /\ s[1] = 128
      THEN {Got("int", 0, 0, 1), Got("int", 0, -1, 1)}
      ELSE {GetVarint(d, asked, s)}

-----------------------------------------------------------------------------
\* The values an end does not encode as the other end expects: the server's
\* uints at the two values where sizeofUint is one byte short, and whatever
\* put_int, which no message uses, encodes.
CutShort == {65536, 16777216}

Misencoded(e, x) ==
    \/ e = "c" /\ x.form \in {"uint"} \cup Strings /\ x.lo \in CutShort
    \/ e = "ruby" /\ x.form = "int"

\* The values an end does not decode: of the negative ints, get_int has only
\* those of one byte.
Unreadable(d, x) == d = "ruby" /\ x.form = "int" /\ x.lo < -64
=============================================================================
