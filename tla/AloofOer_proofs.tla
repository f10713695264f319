--------------------------- MODULE AloofOer_proofs ---------------------------
(***************************************************************************)
(* What TLAPS proves of a transfer, for every value of the words, lengths  *)
(* and noise: the facts of AloofCodec_proofs about each value, put         *)
(* together with what a transfer keeps.                                    *)
(***************************************************************************)
EXTENDS AloofOer, AloofCodec_proofs

\* What was put is on the wire, and what an end got is what Get makes of it.
IInv ==
    /\ phase = "empty" => got = [d \in Ends |-> Unread]
    /\ phase = "filled" =>
         /\ sender \in Ends /\ sent \in Values /\ trail \in Trails
         /\ asked = IF sent.form \in TypeNames THEN "data" ELSE sent.form
         /\ wire = Put(sender, sent) \o trail
    /\ phase = "noise" => wire \in Noise /\ asked \in Asked
    /\ phase # "empty" =>
         \A d \in Ends : got[d] = Unread \/ got[d] \in Get(d, asked, wire)
    /\ phase \in {"empty", "filled", "noise"} /\ DOMAIN got = Ends

\* The invariant holds at first.
LEMMA IInvInit == Init => IInv
  BY DEF Init, IInv

\* Every step keeps it.
LEMMA IInvNext ==
  ASSUME IInv, [Next]_vars
  PROVE  IInv'
<1>1. ASSUME NEW e \in Ends, NEW x \in Values, NEW t \in Trails, PutValue(e, x, t)
      PROVE  IInv'
  BY <1>1 DEF PutValue, IInv
<1>2. ASSUME NEW s \in Noise, NEW a \in Asked, Arrive(s, a)
      PROVE  IInv'
  BY <1>2 DEF Arrive, IInv
<1>3. ASSUME NEW d \in Ends, GetValue(d)
      PROVE  IInv'
  BY <1>3 DEF GetValue, IInv
<1>4. CASE UNCHANGED vars
  BY <1>4 DEF vars, IInv
<1> QED
  BY <1>1, <1>2, <1>3, <1>4 DEF Next

\* It implies RoundTrip, by PutGet and IntRefused.
LEMMA IInvRoundTrip == IInv => RoundTrip
<1> SUFFICES ASSUME IInv, phase = "filled", ~Misencoded(sender, sent),
                    NEW d \in Ends, got[d] # Unread
             PROVE  IF Unreadable(d, sent) THEN got[d] = Refused
                    ELSE got[d] = Got(sent.form, sent.hi, sent.lo,
                                      Len(wire) - Len(trail))
  BY DEF RoundTrip
<1>1. /\ sender \in Ends /\ sent \in Values /\ trail \in Trails
      /\ asked = IF sent.form \in TypeNames THEN "data" ELSE sent.form
      /\ wire = Put(sender, sent) \o trail
      /\ got[d] \in Get(d, asked, wire)
  BY DEF IInv
<1>2. IsSendable(sender, sent)
  BY <1>1 DEF Values, IsSendable
<1>3. trail \in Seq(Byte)
  BY <1>1, BytesAssumption
<1>4. CASE ~Unreadable(d, sent)
  BY <1>1, <1>2, <1>3, <1>4, PutGet
<1>5. CASE Unreadable(d, sent)
  <2>1. got[d] = Refused
    BY <1>1, <1>2, <1>3, <1>5, PutRefused
  <2> QED
    BY <1>5, <2>1
<1> QED
  BY <1>4, <1>5

\* It implies DecodersAgree, by GetsAgree.
LEMMA IInvDecodersAgree == IInv => DecodersAgree
<1> SUFFICES ASSUME IInv, phase = "noise", got["c"] # Unread, got["ruby"] # Unread
             PROVE  \/ got["c"] = got["ruby"]
                    \/ /\ got["c"].ok /\ ~got["ruby"].ok
                       /\ \/ \E i \in 1..2 : i <= Len(wire) /\ wire[i] = 128
                          \/ IsLongNegative(asked, wire)
  BY DEF DecodersAgree, IsLongNegative
<1>1. wire \in Noise /\ asked \in Asked
  BY DEF IInv
<1>2. got["c"] \in Get("c", asked, wire) /\ got["ruby"] \in Get("ruby", asked, wire)
  BY DEF IInv, Ends
<1>3. wire \in Seq(Byte)
  BY <1>1, BytesAssumption
<1> QED
  BY <1>1, <1>2, <1>3, GetsAgree

\* It always holds.
LEMMA SpecIInv == Spec => []IInv
  BY IInvInit, IInvNext, PTL DEF Spec

\* Each end decodes what the other put on the wire and takes no byte that
\* follows, and the client refuses the server's ints below -64
\* (aloof_data.c:11-206, aloof_oer.c, codec.rb).
THEOREM RoundTripCorrect == Spec => []RoundTrip
  BY SpecIInv, IInvRoundTrip, PTL

\* The server and the client make the same of any bytes, but for the length
\* 0x80 and the negative ints of several bytes, which only the server accepts
\* (aloof_oer.c:406-445, codec.rb:254-287).
THEOREM DecodersAgreeCorrect == Spec => []DecodersAgree
  BY SpecIInv, IInvDecodersAgree, PTL
=============================================================================
