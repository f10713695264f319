------------------------------ MODULE AloofOer ------------------------------
(***************************************************************************)
(* Values on the wire: one transfer of a value, encoded by either end and  *)
(* decoded by both, or of bytes that nobody encoded.                       *)
(***************************************************************************)
EXTENDS AloofCodec

CONSTANTS
    Words,      \* words, as the unsigned types read them
    SWords,     \* words, as the signed types read them
    Sizes,      \* lengths of strings
    Trails,     \* what may follow a value in its message
    Noise       \* bytes that nobody encoded

ASSUME WordsAssumption == Words \subseteq U32 /\ SWords \subseteq I32
ASSUME SizesAssumption == Sizes \subseteq U32
ASSUME BytesAssumption == Trails \subseteq Seq(Byte) /\ Noise \subseteq Seq(Byte)

-----------------------------------------------------------------------------
(* A transfer: one end encodes a value, or noise arrives, and each end      *)
(* decodes what is there.                                                  *)

VARIABLES
    phase,      \* "empty", "filled" with an encoded value, or "noise"
    sender,     \* the end that encoded it
    sent,       \* the value it encoded
    trail,      \* what follows it
    asked,      \* what the readers ask for
    wire,       \* the bytes
    got         \* what each end decoded

vars == <<phase, sender, sent, trail, asked, wire, got>>

Unread == [Refused EXCEPT !.form = "unread"]
Nothing == [form |-> "nil", hi |-> 0, lo |-> 0]

Values == {x \in [form: Forms, hi: Words \cup SWords \cup {0},
                  lo: Words \cup SWords \cup Sizes \cup {0}] :
             IsValue(x) /\ (x.form \in Strings => x.lo \in Sizes)}

Init ==
    /\ phase = "empty"
    /\ sender = "c"
    /\ sent = Nothing
    /\ trail = <<>>
    /\ asked = "data"
    /\ wire = <<>>
    /\ got = [d \in Ends |-> Unread]

PutValue(e, x, t) ==
    /\ phase = "empty"
    /\ phase' = "filled"
    /\ sender' = e
    /\ sent' = x
    /\ trail' = t
    /\ asked' = IF x.form \in TypeNames THEN "data" ELSE x.form
    /\ wire' = Put(e, x) \o t
    /\ UNCHANGED got

Arrive(s, a) ==
    /\ phase = "empty"
    /\ phase' = "noise"
    /\ wire' = s
    /\ asked' = a
    /\ UNCHANGED <<sender, sent, trail, got>>

GetValue(d) ==
    /\ phase # "empty"
    /\ got[d] = Unread
    /\ \E r \in Get(d, asked, wire) : got' = [got EXCEPT ![d] = r]
    /\ UNCHANGED <<phase, sender, sent, trail, asked, wire>>

Next ==
    \/ /\ phase = "empty"
       /\ \E e \in Ends, x \in Values, t \in Trails : PutValue(e, x, t)
    \/ \E s \in Noise, a \in Asked : Arrive(s, a)
    \/ \E d \in Ends : GetValue(d)

Spec == Init /\ [][Next]_vars

-----------------------------------------------------------------------------
(* Properties. *)

\* Each end decodes what either end encoded, takes the bytes of that value and
\* leaves what follows; a value it cannot read, it refuses and never mistakes.
RoundTrip ==
    phase = "filled" /\ ~Misencoded(sender, sent) =>
        \A d \in Ends : got[d] # Unread =>
            IF Unreadable(d, sent) THEN got[d] = Refused
            ELSE got[d] = Got(sent.form, sent.hi, sent.lo, Len(wire) - Len(trail))

\* Of bytes nobody encoded, the two ends make the same value or none, but for
\* the length byte 0x80 and the negative ints of more than one byte: those only
\* the server accepts.
DecodersAgree ==
    phase = "noise" /\ got["c"] # Unread /\ got["ruby"] # Unread =>
        \/ got["c"] = got["ruby"]
        \/ /\ got["c"].ok /\ ~got["ruby"].ok
           /\ \/ \E i \in 1..2 : i <= Len(wire) /\ wire[i] = 128
              \/ asked = "int" /\ Len(wire) >= 2 /\ wire[1] > 128 /\ wire[2] >= 128

\* output_codec_test.rb:24: 0x10000 is encoded as 83 01 00 00, at either end.
UintsRoundTrip ==
    phase = "filled" /\ sent.form = "uint" =>
        \A d \in Ends : got[d] # Unread => got[d].lo = sent.lo
=============================================================================
