-------------------------- MODULE AloofSlip_proofs --------------------------
(***************************************************************************)
(* What TLAPS proves of SLIP framing for any payloads, threads, buffer,    *)
(* noise and number of faults, and for any checksum that is zero over a    *)
(* message and its checksum.                                               *)
(*                                                                         *)
(* The argument.  Since a frame's first byte, if no fault came since, the  *)
(* receiver is in its escape state exactly when the sender is between the  *)
(* two bytes of a special one (EscapeInv), because END leaves that state   *)
(* in either receiver.  If the buffer was empty after that first byte, it  *)
(* holds what the sender has put so far (BufferInv): the C receiver empties *)
(* it at every END, the Ruby one unless END comes in its escape state,     *)
(* which a frame that was unharmed does not leave behind (IdleInv).        *)
(*                                                                         *)
(* Of the checksum of AloofCrc, it proves what AloofSlip assumes of one.   *)
(* A round can be undone: its lowest bit tells whether the generator was   *)
(* added.  So two words that differ still differ after any bytes.  A word  *)
(* whose high byte is clear is only shifted by eight rounds.               *)
(***************************************************************************)
EXTENDS AloofSlip, AloofCrc, TLAPS

Busy(t) == job[t].phase # "idle"

\* The mutex, and what a thread in tx is doing.
JobInv ==
    /\ \A t, u \in Threads : Busy(t) /\ Busy(u) => t = u
    /\ \A t \in Threads :
         /\ Busy(t) => job[t].payload \in Payloads /\ job[t].bytes = Bytes(job[t].payload)
         /\ job[t].phase # "data" => job[t].n = 0 /\ ~job[t].half
         /\ job[t].half => job[t].n < Len(job[t].bytes)
                           /\ job[t].bytes[job[t].n + 1] \in Special

Sending(t) == job[t].phase = "data"

EscapeInv == clean => \A t \in Threads : Sending(t) => rx.esc = job[t].half

\* What the receiver holds of the first n bytes of s.
Held(s, n) == IF kind = "c" /\ n > Max THEN SubSeq(s, 1, Max) ELSE SubSeq(s, 1, n)

InStep == clean /\ (kind = "c" \/ lastClean)

BufferInv == InStep => \A t \in Threads : Sending(t) => rx.buf = Held(job[t].bytes, job[t].n)

IdleInv == clean /\ (\A t \in Threads : ~Sending(t)) => rx.buf = <<>> /\ ~rx.esc

FaultlessInv ==
    faults = 0 => /\ clean /\ lastClean
                  /\ delivered = [i \in 1..Len(sent) |-> Clipped(sent[i])]

IInv == TypeOK /\ JobInv /\ EscapeInv /\ BufferInv /\ IdleInv /\ FaultlessInv

State(r) == r.buf \in Seq(Byte) /\ r.esc \in BOOLEAN /\ (kind = "c" => Len(r.buf) <= Max)

-----------------------------------------------------------------------------
(* Sequences and bytes. *)

LEMMA SpecialBytes ==
  /\ Special \subseteq Byte /\ ESC \in Byte /\ END \in Byte /\ ESC # END
  /\ \A c \in Byte : Code(c) \in Byte \ Special
  BY DEF Special, Code, Byte, END, ESC, ESC_END, ESC_ESC

LEMMA AppendType ==
  ASSUME NEW S, NEW s \in Seq(S), NEW e \in S
  PROVE  Append(s, e) \in Seq(S) /\ Len(Append(s, e)) = Len(s) + 1
  OBVIOUS

\* What Slip#tx sends is a sequence of bytes: the payload and its checksum.
LEMMA BytesType ==
  ASSUME NEW p \in Payloads
  PROVE  Bytes(p) \in Seq(Byte)
<1>1. p \in Seq(Byte)
  BY PayloadsAssumption
<1>2. Pack(Checksum(p)) \in Seq(Byte)
  BY ChecksumAssumption
<1>3. \A s, u \in Seq(Byte) : s \o u \in Seq(Byte)
  OBVIOUS
<1>4. p \o Pack(Checksum(p)) \in Seq(Byte)
  BY <1>1, <1>2, <1>3
<1>5. Bytes(p) = p \/ Bytes(p) = p \o Pack(Checksum(p))
  BY DEF Bytes
<1> QED
  BY <1>1, <1>4, <1>5

\* A frame handed out is a sequence of bytes.
LEMMA FrameType ==
  ASSUME NEW s \in Seq(Byte)
  PROVE  Frame(s) \in Seq(Seq(Byte))
<1>1. CASE kind = "slip_crc16" /\ Checksum(s) = 0 /\ Len(s) > 2
  <2>1. SubSeq(s, 1, Len(s) - 2) \in Seq(Byte)
    BY <1>1
  <2> QED
    BY <1>1, <2>1 DEF Frame
<1>2. CASE ~(kind = "slip_crc16" /\ Checksum(s) = 0 /\ Len(s) > 2)
  BY <1>2 DEF Frame
<1> QED
  BY <1>1, <1>2

LEMMA ReceiveType ==
  ASSUME NEW r, State(r), NEW c \in Byte
  PROVE  State(Receive(r, c)) /\ Receive(r, c).out \in Seq(Seq(Byte))
<1>1. Frame(r.buf) \in Seq(Seq(Byte)) /\ <<>> \in Seq(Seq(Byte)) /\ <<>> \in Seq(Byte)
  BY FrameType DEF State
<1>2. \A e \in Byte : Append(r.buf, e) \in Seq(Byte) /\ Len(Append(r.buf, e)) = Len(r.buf) + 1
  BY AppendType DEF State
<1>3. ESC \in Byte /\ END \in Byte
  BY SpecialBytes
<1>4. CASE kind = "c"
  <2>1. Receive(r, c) = CReceive(r, c)
    BY <1>4 DEF Receive
  <2>2. CASE c = ESC
    <3>1. CReceive(r, c) = Received(r.buf, TRUE, <<>>)
      BY <2>2, SpecialBytes DEF CReceive
    <3> QED
      BY <1>1, <2>1, <3>1 DEF Received, State
  <2>3. CASE c = END
    <3>1. CReceive(r, c) = Received(<<>>, FALSE, Frame(r.buf))
      BY <2>3, SpecialBytes DEF CReceive
    <3>2. Len(<<>>) <= Max
      BY BoundsAssumption
    <3> QED
      BY <1>1, <2>1, <3>1, <3>2 DEF Received, State
  <2>4. CASE c \notin {ESC, END}
    <3> DEFINE data == IF r.esc THEN (IF c = ESC_ESC THEN ESC ELSE END) ELSE c
               buf == IF Len(r.buf) < Max THEN Append(r.buf, data) ELSE r.buf
    <3>1. data \in Byte
      BY <1>3
    <3>2. buf \in Seq(Byte) /\ Len(buf) <= Max
      BY <1>2, <1>4, <3>1, BoundsAssumption DEF State
    <3>3. CReceive(r, c) = Received(buf, FALSE, <<>>)
      BY <2>4 DEF CReceive
    <3> HIDE DEF buf
    <3> QED
      BY <1>1, <2>1, <3>2, <3>3 DEF Received, State
  <2> QED
    BY <2>2, <2>3, <2>4
<1>5. CASE kind # "c"
  <2>1. Receive(r, c) = RubyReceive(r, c)
    BY <1>5 DEF Receive
  <2>2. CASE c = ESC
    <3>1. RubyReceive(r, c) = Received(r.buf, TRUE, <<>>)
      BY <2>2, SpecialBytes DEF RubyReceive
    <3> QED
      BY <1>1, <1>5, <2>1, <3>1 DEF Received, State
  <2>3. CASE c # ESC /\ r.esc
    <3> DEFINE data == CASE c = ESC_ESC -> ESC [] c = ESC_END -> END [] OTHER -> c
    <3>1. data \in Byte
      BY <1>3
    <3>2. RubyReceive(r, c) = Received(Append(r.buf, data), FALSE, <<>>)
      BY <2>3, SpecialBytes DEF RubyReceive
    <3> QED
      BY <1>1, <1>2, <1>5, <2>1, <3>1, <3>2 DEF Received, State
  <2>4. CASE c = END /\ ~r.esc
    <3>1. RubyReceive(r, c) = Received(<<>>, FALSE, Frame(r.buf))
      BY <2>4, SpecialBytes DEF RubyReceive
    <3> QED
      BY <1>1, <1>5, <2>1, <3>1 DEF Received, State
  <2>5. CASE c \notin {ESC, END} /\ ~r.esc
    <3>1. RubyReceive(r, c) = Received(Append(r.buf, c), FALSE, <<>>)
      BY <2>5 DEF RubyReceive
    <3> QED
      BY <1>1, <1>2, <1>5, <2>1, <3>1 DEF Received, State
  <2> QED
    BY <2>2, <2>3, <2>4, <2>5
<1> QED
  BY <1>4, <1>5

-----------------------------------------------------------------------------
(* What a byte does to the receiver. *)

\* The buffer after one more byte.
Stored(b, c) == IF kind = "c" /\ Len(b) >= Max THEN b ELSE Append(b, c)

LEMMA ReceiveEscape ==
  ASSUME NEW r
  PROVE  Receive(r, ESC) = Received(r.buf, TRUE, <<>>)
<1>1. CReceive(r, ESC) = Received(r.buf, TRUE, <<>>)
  BY SpecialBytes DEF CReceive
<1>2. RubyReceive(r, ESC) = Received(r.buf, TRUE, <<>>)
  BY SpecialBytes DEF RubyReceive
<1> QED
  BY <1>1, <1>2 DEF Receive

\* END leaves the escape state, and empties the buffer but in that state of the
\* Ruby receiver.
LEMMA ReceiveEnd ==
  ASSUME NEW r, State(r)
  PROVE  /\ Receive(r, END).esc = FALSE
         /\ kind = "c" \/ ~r.esc => Receive(r, END) = Received(<<>>, FALSE, Frame(r.buf))
<1>1. CReceive(r, END) = Received(<<>>, FALSE, Frame(r.buf))
  BY SpecialBytes DEF CReceive
<1>2. ~r.esc => RubyReceive(r, END) = Received(<<>>, FALSE, Frame(r.buf))
  BY SpecialBytes DEF RubyReceive
<1>3. r.esc => RubyReceive(r, END)
                 = Received(Append(r.buf, CASE END = ESC_ESC -> ESC [] END = ESC_END -> END
                                            [] OTHER -> END), FALSE, <<>>)
  BY SpecialBytes DEF RubyReceive
<1>4. \A b, o : Received(b, FALSE, o).esc = FALSE
  BY DEF Received
<1> QED
  BY <1>1, <1>2, <1>3, <1>4 DEF Receive, State

\* A byte that is not special, out of the escape state.
LEMMA ReceivePlain ==
  ASSUME NEW r, State(r), ~r.esc, NEW c \in Byte \ Special
  PROVE  Receive(r, c) = Received(Stored(r.buf, c), FALSE, <<>>)
<1>1. c \notin {ESC, END}
  BY DEF Special
<1>2. RubyReceive(r, c) = Received(Append(r.buf, c), FALSE, <<>>)
  BY <1>1 DEF RubyReceive
<1>3. CReceive(r, c) = Received(IF Len(r.buf) < Max THEN Append(r.buf, c) ELSE r.buf,
                                FALSE, <<>>)
  BY <1>1 DEF CReceive
<1>4. Len(r.buf) < Max <=> ~(Len(r.buf) >= Max)
  BY BoundsAssumption DEF State
<1> QED
  BY <1>2, <1>3, <1>4 DEF Receive, Stored

\* The second byte of a special one.
LEMMA ReceiveCode ==
  ASSUME NEW r, State(r), r.esc, NEW c \in Special
  PROVE  Receive(r, Code(c)) = Received(Stored(r.buf, c), FALSE, <<>>)
<1>1. /\ Code(c) \notin {ESC, END}
      /\ Code(c) = ESC_ESC => c = ESC
      /\ Code(c) # ESC_ESC => Code(c) = ESC_END /\ c = END
  BY DEF Code, Special, ESC, END, ESC_ESC, ESC_END
<1>2. RubyReceive(r, Code(c)) = Received(Append(r.buf, c), FALSE, <<>>)
  <2> DEFINE data == CASE Code(c) = ESC_ESC -> ESC [] Code(c) = ESC_END -> END
                       [] OTHER -> Code(c)
  <2>1. RubyReceive(r, Code(c)) = Received(Append(r.buf, data), FALSE, <<>>)
    BY <1>1 DEF RubyReceive
  <2>2. data = c
    BY <1>1 DEF ESC_ESC, ESC_END
  <2> QED
    BY <2>1, <2>2
<1>3. CReceive(r, Code(c)) = Received(IF Len(r.buf) < Max THEN Append(r.buf, c) ELSE r.buf,
                                      FALSE, <<>>)
  <2> DEFINE data == IF r.esc THEN (IF Code(c) = ESC_ESC THEN ESC ELSE END) ELSE Code(c)
  <2>1. CReceive(r, Code(c))
          = Received(IF Len(r.buf) < Max THEN Append(r.buf, data) ELSE r.buf, FALSE, <<>>)
    BY <1>1 DEF CReceive
  <2>2. data = c
    BY <1>1
  <2> QED
    BY <2>1, <2>2
<1>4. Len(r.buf) < Max <=> ~(Len(r.buf) >= Max)
  BY BoundsAssumption DEF State
<1> QED
  BY <1>2, <1>3, <1>4 DEF Receive, Stored

\* What is held grows by the next byte, while there is room for it.
LEMMA HeldNext ==
  ASSUME NEW s \in Seq(Byte), NEW n \in Nat, n < Len(s)
  PROVE  Stored(Held(s, n), s[n + 1]) = Held(s, n + 1)
<1>1. Append(SubSeq(s, 1, n), s[n + 1]) = SubSeq(s, 1, n + 1)
  OBVIOUS
<1>2. Len(SubSeq(s, 1, n)) = n
  OBVIOUS
<1>3. CASE kind = "c" /\ n > Max
  <2>1. Held(s, n) = SubSeq(s, 1, Max) /\ Held(s, n + 1) = SubSeq(s, 1, Max)
    BY <1>3, BoundsAssumption DEF Held
  <2>2. Len(SubSeq(s, 1, Max)) = Max
    BY <1>3, BoundsAssumption
  <2>3. Len(Held(s, n)) >= Max
    BY <2>1, <2>2, BoundsAssumption
  <2> QED
    BY <1>3, <2>1, <2>3 DEF Stored
<1>4. CASE kind = "c" /\ n = Max
  <2>1. Held(s, n) = SubSeq(s, 1, Max) /\ Held(s, n + 1) = SubSeq(s, 1, Max)
    BY <1>4, BoundsAssumption DEF Held
  <2>2. Len(Held(s, n)) >= Max
    BY <1>2, <1>4, <2>1, BoundsAssumption
  <2> QED
    BY <1>4, <2>1, <2>2 DEF Stored
<1>5. CASE kind # "c" \/ n < Max
  <2>1. Held(s, n) = SubSeq(s, 1, n) /\ Held(s, n + 1) = SubSeq(s, 1, n + 1)
    BY <1>5, BoundsAssumption DEF Held
  <2>2. ~(kind = "c" /\ n >= Max)
    BY <1>5, BoundsAssumption
  <2> QED
    BY <1>1, <1>2, <2>1, <2>2 DEF Stored
<1> QED
  BY <1>3, <1>4, <1>5, BoundsAssumption

LEMMA FrameEmpty == Frame(<<>>) = <<>>
  BY DEF Frame

\* A frame that was put from its first byte to its last is handed out.
LEMMA FrameHeld ==
  ASSUME NEW p \in Payloads
  PROVE  Frame(Held(Bytes(p), Len(Bytes(p)))) = <<Clipped(p)>>
<1>1. p \in Seq(Byte) /\ p # <<>> /\ Len(p) > 0
  BY PayloadsAssumption
<1>2. CASE kind = "slip_crc16"
  <2> DEFINE s == p \o Pack(Checksum(p))
  <2>1. s \in Seq(Byte) /\ Bytes(p) = s
    BY <1>2, BytesType DEF Bytes
  <2>2. Len(s) = Len(p) + 2
    BY <1>1 DEF Pack
  <2>3. SubSeq(s, 1, Len(p)) = p
    BY <1>1 DEF Pack
  <2>4. Checksum(s) = 0
    BY ChecksumAssumption
  <2> HIDE DEF s
  <2>5. Held(s, Len(s)) = s
    BY <1>2, <2>1 DEF Held
  <2>6. Frame(s) = <<SubSeq(s, 1, Len(s) - 2)>>
    BY <1>1, <1>2, <2>2, <2>4 DEF Frame
  <2>7. Clipped(p) = p /\ Len(s) - 2 = Len(p)
    BY <1>1, <1>2, <2>2 DEF Clipped
  <2> QED
    BY <2>1, <2>3, <2>5, <2>6, <2>7
<1>3. CASE kind # "slip_crc16"
  <2>1. Bytes(p) = p
    BY <1>3 DEF Bytes
  <2>2. Held(p, Len(p)) = Clipped(p)
    <3>1. SubSeq(p, 1, Len(p)) = p
      BY <1>1
    <3> QED
      BY <3>1 DEF Held, Clipped
  <2>3. Clipped(p) # <<>>
    <3>1. CASE kind = "c" /\ Len(p) > Max
      <4>1. Len(SubSeq(p, 1, Max)) = Max
        BY <1>1, <3>1, BoundsAssumption
      <4> QED
        BY <3>1, <4>1, BoundsAssumption DEF Clipped
    <3>2. CASE ~(kind = "c" /\ Len(p) > Max)
      BY <1>1, <3>2 DEF Clipped
    <3> QED
      BY <3>1, <3>2
  <2>4. Frame(Clipped(p)) = <<Clipped(p)>>
    BY <1>3, <2>3 DEF Frame
  <2> QED
    BY <2>1, <2>2, <2>4
<1> QED
  BY <1>2, <1>3

-----------------------------------------------------------------------------
(* What the line does with a byte. *)

LEMMA ArriveType ==
  ASSUME State(rx), NEW s \in Seq(Byte), Len(s) <= 2
  PROVE  State(Arrive(s)) /\ Arrive(s).out \in Seq(Seq(Byte))
<1> DEFINE one == Receive(rx, s[1])
           mid == [buf |-> one.buf, esc |-> one.esc]
           two == Receive(mid, s[2])
<1>1. Len(s) \in Nat /\ \A i \in 1..Len(s) : s[i] \in Byte
  OBVIOUS
<1>2. CASE Len(s) = 0
  <2>1. Arrive(s) = Received(rx.buf, rx.esc, <<>>)
    BY <1>2 DEF Arrive
  <2>2. <<>> \in Seq(Seq(Byte))
    OBVIOUS
  <2> QED
    BY <2>1, <2>2 DEF Received, State
<1>3. CASE Len(s) = 1
  <2>1. Arrive(s) = one
    BY <1>3 DEF Arrive
  <2>2. s[1] \in Byte
    BY <1>1, <1>3
  <2> QED
    BY <2>1, <2>2, ReceiveType
<1>4. CASE Len(s) = 2
  <2>1. s[1] \in Byte /\ s[2] \in Byte
    BY <1>1, <1>4
  <2>2. State(one) /\ one.out \in Seq(Seq(Byte))
    BY <2>1, ReceiveType
  <2> HIDE DEF one
  <2>3. State(mid)
    BY <2>2 DEF State
  <2>4. State(two) /\ two.out \in Seq(Seq(Byte))
    <3> HIDE DEF mid
    <3> QED BY <2>1, <2>3, ReceiveType
  <2>5. Arrive(s) = Received(two.buf, two.esc, one.out \o two.out)
    BY <1>4 DEF Arrive, one
  <2> HIDE DEF two, mid
  <2>6. one.out \o two.out \in Seq(Seq(Byte))
    BY <2>2, <2>4
  <2> QED
    BY <2>4, <2>5, <2>6 DEF Received, State
<1>5. Len(s) = 0 \/ Len(s) = 1 \/ Len(s) = 2
  <2>1. \A n \in Nat : n <= 2 => n = 0 \/ n = 1 \/ n = 2
    OBVIOUS
  <2> QED
    BY <1>1, <2>1
<1> QED
  BY <1>2, <1>3, <1>4, <1>5

LEMMA LandedType ==
  ASSUME NEW s \in Seq(Payloads), NEW out
  PROVE  Landed(s, out) \subseteq Seq(Payloads)
<1>1. \A i \in 1..Len(s) : SubSeq(s, i + 1, Len(s)) \in Seq(Payloads)
  OBVIOUS
<1> DEFINE first == {i \in 1..Len(s) : /\ out # <<>> /\ s[i] = out[1]
                                       /\ \A j \in 1..i-1 : s[j] # out[1]}
<1>2. first \subseteq 1..Len(s)
  OBVIOUS
<1>3. Landed(s, out) = IF first = {} THEN {s}
                       ELSE {SubSeq(s, i + 1, Len(s)) : i \in first}
  BY DEF Landed
<1> HIDE DEF first
<1> QED
  BY <1>1, <1>2, <1>3

RxType == rx \in [buf: Seq(Byte), esc: BOOLEAN] /\ (kind = "c" => Len(rx.buf) <= Max)

LineType == RxType /\ delivered \in Seq(Seq(Byte)) /\ flight \in Seq(Payloads)

\* What is taken off the line keeps the types of the receiving end.
LEMMA TakeType ==
  ASSUME LineType, NEW s \in Seq(Byte), Len(s) <= 2, Take(s), kind' = kind
  PROVE  LineType'
<1>1. State(rx)
  BY DEF LineType, RxType, State
<1>2. State(Arrive(s)) /\ Arrive(s).out \in Seq(Seq(Byte))
  BY <1>1, ArriveType
<1>3. rx' = [buf |-> Arrive(s).buf, esc |-> Arrive(s).esc]
  BY DEF Take
<1>4. RxType'
  BY <1>2, <1>3 DEF State, RxType
<1>5. delivered' \in Seq(Seq(Byte))
  BY <1>2 DEF Take, LineType
<1>6. flight' \in Seq(Payloads)
  BY LandedType DEF Take, LineType
<1> QED
  BY <1>4, <1>5, <1>6 DEF LineType

LEMMA HarmedType ==
  ASSUME NEW c \in Byte, NEW s \in Harmed(c)
  PROVE  s \in Seq(Byte) /\ Len(s) <= 2
<1>1. Noise \subseteq Byte
  BY NoiseAssumption
<1>2. CASE s = <<>>
  BY <1>2
<1>3. CASE \E d \in Noise : s = <<d>>
  BY <1>1, <1>3
<1>4. CASE \E d \in Noise : s = <<d, c>>
  BY <1>1, <1>4
<1> QED
  BY <1>2, <1>3, <1>4 DEF Harmed

LEMMA PutType ==
  ASSUME LineType, faults \in 0..MaxFaults, NEW c \in Byte, Put(c), kind' = kind
  PROVE  LineType' /\ faults' \in 0..MaxFaults
<1>1. CASE Take(<<c>>) /\ UNCHANGED faults
  <2>1. <<c>> \in Seq(Byte) /\ Len(<<c>>) <= 2
    OBVIOUS
  <2> QED
    BY <1>1, <2>1, TakeType
<1>2. CASE faults < MaxFaults /\ faults' = faults + 1 /\ \E s \in Harmed(c) : Take(s)
  BY <1>2, HarmedType, TakeType, BoundsAssumption
<1> QED
  BY <1>1, <1>2 DEF Put

\* A byte put without a fault arrives as it is.
LEMMA PutClean ==
  ASSUME faults \in Nat, NEW c, Put(c), Unharmed
  PROVE  /\ rx' = [buf |-> Receive(rx, c).buf, esc |-> Receive(rx, c).esc]
         /\ delivered' = delivered \o Receive(rx, c).out
<1>1. faults' # faults + 1
  BY DEF Unharmed
<1>2. Take(<<c>>)
  BY <1>1 DEF Put
<1>3. Len(<<c>>) = 1 /\ <<c>>[1] = c
  OBVIOUS
<1>4. Arrive(<<c>>) = Receive(rx, c)
  BY <1>3 DEF Arrive
<1> QED
  BY <1>2, <1>4 DEF Take

-----------------------------------------------------------------------------
(* The types. *)

Jobs == [phase: {"idle", "start", "data"}, payload: Seq(Byte), bytes: Seq(Byte),
         n: Nat, half: BOOLEAN]

JobType == job \in [Threads -> Jobs] /\ \A t \in Threads : job[t].n <= Len(job[t].bytes)

RestType == /\ kind \in Kinds /\ frames \in 0..MaxFrames /\ sent \in Seq(Payloads)
            /\ clean \in BOOLEAN /\ lastClean \in BOOLEAN

LEMMA TypeParts ==
  /\ TypeOK <=> JobType /\ LineType /\ RestType /\ faults \in 0..MaxFaults
  /\ TypeOK' <=> JobType' /\ LineType' /\ RestType' /\ faults' \in 0..MaxFaults
BY DEF TypeOK, JobType, Jobs, LineType, RxType, RestType

LEMMA NoJobType == NoJob \in Jobs /\ NoJob.n <= Len(NoJob.bytes)
<1>1. <<>> \in Seq(Byte) /\ Len(<<>>) = 0
  OBVIOUS
<1> QED
  BY <1>1 DEF NoJob, Jobs

\* One thread's job changes.
LEMMA JobChange ==
  ASSUME JobType, NEW t \in Threads, NEW j \in Jobs, j.n <= Len(j.bytes),
         job' = [job EXCEPT ![t] = j]
  PROVE  JobType' /\ job'[t] = j /\ \A u \in Threads \ {t} : job'[u] = job[u]
BY DEF JobType

\* What PutData makes of the sender.
DataJob(j) == IF j.bytes[j.n + 1] \in Special /\ ~j.half
                THEN [j EXCEPT !.half = TRUE]
                ELSE [j EXCEPT !.half = FALSE, !.n = j.n + 1]

LEMMA DataJobType ==
  ASSUME NEW j \in Jobs, j.n < Len(j.bytes)
  PROVE  /\ DataJob(j) \in Jobs
         /\ DataJob(j).phase = j.phase /\ DataJob(j).payload = j.payload
         /\ DataJob(j).bytes = j.bytes
         /\ DataJob(j).n <= Len(j.bytes)
<1> DEFINE escaped == [j EXCEPT !.half = TRUE]
           put     == [j EXCEPT !.half = FALSE, !.n = j.n + 1]
<1>1. /\ escaped \in Jobs
      /\ escaped.phase = j.phase /\ escaped.payload = j.payload
      /\ escaped.bytes = j.bytes /\ escaped.n = j.n
  BY DEF Jobs
<1>2. j.n \in Nat /\ Len(j.bytes) \in Nat
  BY DEF Jobs
<1>3. /\ put \in Jobs
      /\ put.phase = j.phase /\ put.payload = j.payload
      /\ put.bytes = j.bytes /\ put.n = j.n + 1
  <2> DEFINE stored == [j EXCEPT !.half = FALSE]
             n == j.n + 1
  <2>1. stored \in Jobs /\ put = [stored EXCEPT !.n = n]
    BY DEF Jobs
  <2>2. stored.phase = j.phase /\ stored.payload = j.payload /\ stored.bytes = j.bytes
    BY DEF Jobs
  <2>3. n \in Nat
    BY <1>2
  <2> HIDE DEF stored, n, put
  <2>4. /\ put \in Jobs
        /\ put.phase = stored.phase /\ put.payload = stored.payload
        /\ put.bytes = stored.bytes /\ put.n = n
    BY <2>1, <2>3 DEF Jobs
  <2> QED
    BY <2>2, <2>4 DEF n
<1>4. DataJob(j) = escaped \/ DataJob(j) = put
  BY DEF DataJob
<1> HIDE DEF escaped, put
<1> QED
  BY <1>1, <1>2, <1>3, <1>4

\* The byte PutData puts, and what it makes of the sender.
LEMMA DataCase ==
  ASSUME JobType, NEW t \in Threads, PutData(t)
  PROVE  LET j == job[t]
             c == j.bytes[j.n + 1]
         IN  /\ j \in Jobs /\ j.phase = "data" /\ j.n < Len(j.bytes)
             /\ c \in Byte
             /\ job' = [job EXCEPT ![t] = DataJob(j)]
             /\ \/ c \in Special /\ ~j.half /\ Put(ESC)
                \/ c \in Special /\ j.half /\ Put(Code(c))
                \/ c \notin Special /\ Put(c)
<1> DEFINE j == job[t]
           c == j.bytes[j.n + 1]
<1>1. j \in Jobs /\ j.phase = "data" /\ j.n < Len(j.bytes)
  BY DEF JobType, PutData
<1>2. c \in Byte
  BY <1>1 DEF Jobs
<1>3. job' = [job EXCEPT ![t] = DataJob(j)]
  <2>1. CASE c \in Special /\ ~j.half
    <3>1. job' = [job EXCEPT ![t].half = TRUE]
      BY <2>1 DEF PutData
    <3> QED
      BY <2>1, <3>1 DEF DataJob
  <2>2. CASE ~(c \in Special /\ ~j.half)
    <3>1. job' = [job EXCEPT ![t].half = FALSE, ![t].n = @ + 1]
      BY <2>2 DEF PutData
    <3>2. DataJob(j) = [j EXCEPT !.half = FALSE, !.n = j.n + 1]
      BY <2>2 DEF DataJob
    <3> QED
      BY <1>1, <3>1, <3>2 DEF JobType, Jobs
  <2> QED
    BY <2>1, <2>2
<1>4. \/ c \in Special /\ ~j.half /\ Put(ESC)
      \/ c \in Special /\ j.half /\ Put(Code(c))
      \/ c \notin Special /\ Put(c)
  BY DEF PutData
<1> QED
  BY <1>1, <1>2, <1>3, <1>4

LEMMA TypeNext ==
  ASSUME TypeOK, JobInv, [Next]_vars
  PROVE  TypeOK'
<1> USE TypeParts
<1>1. JobType /\ LineType /\ RestType /\ faults \in 0..MaxFaults
  OBVIOUS
<1>2. ASSUME NEW t \in Threads, NEW p \in Payloads, Tx(t, p) PROVE TypeOK'
  <2> DEFINE j == [phase |-> "start", payload |-> p, bytes |-> Bytes(p), n |-> 0,
                   half |-> FALSE]
  <2>1. p \in Seq(Byte) /\ Bytes(p) \in Seq(Byte)
    BY BytesType, PayloadsAssumption
  <2>2. j \in Jobs /\ j.n <= Len(j.bytes)
    BY <2>1 DEF Jobs
  <2>3. JobType'
    <3>1. job' = [job EXCEPT ![t] = j]
      BY <1>2 DEF Tx
    <3> HIDE DEF j
    <3> QED
      BY <1>1, <2>2, <3>1, JobChange
  <2>4. flight' \in Seq(Payloads) /\ frames' \in 0..MaxFrames
    BY <1>1, <1>2, BoundsAssumption DEF Tx, LineType, RestType
  <2> QED
    BY <1>1, <1>2, <2>3, <2>4 DEF Tx, LineType, RxType, RestType
<1>3. ASSUME NEW t \in Threads, PutStart(t) PROVE TypeOK'
  <2>1. LineType' /\ faults' \in 0..MaxFaults
    BY <1>1, <1>3, PutType, SpecialBytes DEF PutStart
  <2>2. JobType'
    BY <1>1, <1>3 DEF PutStart, JobType, Jobs
  <2>3. RestType'
    BY <1>1, <1>3 DEF PutStart, RestType, Unharmed
  <2> QED
    BY <2>1, <2>2, <2>3
<1>4. ASSUME NEW t \in Threads, PutData(t) PROVE TypeOK'
  <2> DEFINE j == job[t]
             c == j.bytes[j.n + 1]
  <2>1. /\ j \in Jobs /\ j.phase = "data" /\ j.n < Len(j.bytes)
        /\ c \in Byte
        /\ job' = [job EXCEPT ![t] = DataJob(j)]
        /\ Put(ESC) \/ (c \in Special /\ Put(Code(c))) \/ Put(c)
    BY <1>1, <1>4, DataCase
  <2>2. DataJob(j) \in Jobs /\ DataJob(j).n <= Len(DataJob(j).bytes)
    <3> HIDE DEF j
    <3> QED BY <2>1, DataJobType
  <2>3. JobType'
    BY <1>1, <2>1, <2>2, JobChange
  <2>4. kind' = kind
    BY <1>4 DEF PutData
  <2>5. LineType' /\ faults' \in 0..MaxFaults
    BY <1>1, <2>1, <2>4, PutType, SpecialBytes
  <2>6. RestType'
    BY <1>1, <1>4 DEF PutData, RestType, Unharmed
  <2> QED
    BY <2>3, <2>5, <2>6
<1>5. ASSUME NEW t \in Threads, PutEnd(t) PROVE TypeOK'
  <2>1. LineType' /\ faults' \in 0..MaxFaults
    BY <1>1, <1>5, PutType, SpecialBytes DEF PutEnd
  <2>2. JobType'
    BY <1>1, <1>5, NoJobType, JobChange DEF PutEnd
  <2>3. job[t].payload \in Payloads
    BY <1>5 DEF PutEnd, JobInv, Busy
  <2>4. RestType'
    BY <1>1, <1>5, <2>3 DEF PutEnd, RestType, Unharmed
  <2> QED
    BY <2>1, <2>2, <2>4
<1>6. ASSUME NEW t \in Threads, Break(t) PROVE TypeOK'
  <2>1. JobType'
    BY <1>1, <1>6, NoJobType, JobChange DEF Break
  <2>2. LineType' /\ RestType'
    BY <1>1, <1>6 DEF Break, LineType, RxType, RestType
  <2>3. faults' \in 0..MaxFaults
    BY <1>1, <1>6, BoundsAssumption DEF Break
  <2> QED
    BY <2>1, <2>2, <2>3
<1>7. ASSUME NEW d \in Noise, Glitch(d) PROVE TypeOK'
  <2>1. <<d>> \in Seq(Byte) /\ Len(<<d>>) <= 2
    BY NoiseAssumption
  <2>2. LineType'
    BY <1>1, <1>7, <2>1, TakeType DEF Glitch
  <2>3. JobType' /\ RestType'
    BY <1>1, <1>7 DEF Glitch, JobType, RestType
  <2>4. faults' \in 0..MaxFaults
    BY <1>1, <1>7, BoundsAssumption DEF Glitch
  <2> QED
    BY <2>2, <2>3, <2>4
<1>8. CASE UNCHANGED vars
  BY <1>1, <1>8 DEF vars, JobType, LineType, RxType, RestType
<1> QED
  BY <1>2, <1>3, <1>4, <1>5, <1>6, <1>7, <1>8 DEF Next

-----------------------------------------------------------------------------
(* The inductive invariant. *)

LEMMA JobNext ==
  ASSUME TypeOK, JobInv, [Next]_vars
  PROVE  JobInv'
<1>1. JobType /\ (kind' = kind => \A p : Bytes(p)' = Bytes(p))
  BY TypeParts DEF Bytes
<1>2. ASSUME NEW t \in Threads, NEW p \in Payloads, Tx(t, p) PROVE JobInv'
  <2> DEFINE j == [phase |-> "start", payload |-> p, bytes |-> Bytes(p), n |-> 0,
                   half |-> FALSE]
  <2>1. job' = [job EXCEPT ![t] = j] /\ Free /\ kind' = kind
    BY <1>2 DEF Tx
  <2>2. job'[t] = j /\ \A u \in Threads \ {t} : job'[u] = job[u]
    BY <1>1, <2>1 DEF JobType
  <2> QED
    BY <1>1, <2>1, <2>2 DEF JobInv, Busy, Free
<1>3. ASSUME NEW t \in Threads, PutStart(t) PROVE JobInv'
  BY <1>1, <1>3 DEF PutStart, JobInv, Busy, JobType, Jobs
<1>4. ASSUME NEW t \in Threads, PutData(t) PROVE JobInv'
  <2> DEFINE j == job[t]
             c == j.bytes[j.n + 1]
  <2>1. /\ j \in Jobs /\ j.phase = "data" /\ j.n < Len(j.bytes)
        /\ job' = [job EXCEPT ![t] = DataJob(j)]
    BY <1>1, <1>4, DataCase
  <2>2. /\ DataJob(j).phase = j.phase /\ DataJob(j).payload = j.payload
        /\ DataJob(j).bytes = j.bytes
    <3> HIDE DEF j
    <3> QED BY <2>1, DataJobType
  <2>3. DataJob(j).half => DataJob(j).n < Len(j.bytes) /\ j.bytes[DataJob(j).n + 1] \in Special
    <3>1. CASE c \in Special /\ ~j.half
      <4>1. DataJob(j) = [j EXCEPT !.half = TRUE]
        BY <3>1 DEF DataJob
      <4>2. DataJob(j).n = j.n
        BY <2>1, <4>1 DEF Jobs
      <4> QED
        BY <2>1, <3>1, <4>2
    <3>2. CASE ~(c \in Special /\ ~j.half)
      <4>1. DataJob(j) = [j EXCEPT !.half = FALSE, !.n = j.n + 1]
        BY <3>2 DEF DataJob
      <4>2. ~DataJob(j).half
        BY <2>1, <4>1 DEF Jobs
      <4> QED
        BY <4>2
    <3> QED
      BY <3>1, <3>2
  <2>4. job'[t] = DataJob(j) /\ \A u \in Threads \ {t} : job'[u] = job[u]
    BY <1>1, <2>1 DEF JobType
  <2>5. kind' = kind
    BY <1>4 DEF PutData
  <2> QED
    BY <1>1, <2>1, <2>2, <2>3, <2>4, <2>5 DEF JobInv, Busy
<1>5. ASSUME NEW t \in Threads, PutEnd(t) PROVE JobInv'
  BY <1>1, <1>5 DEF PutEnd, JobInv, Busy, JobType, NoJob
<1>6. ASSUME NEW t \in Threads, Break(t) PROVE JobInv'
  BY <1>1, <1>6 DEF Break, JobInv, Busy, JobType, NoJob
<1>7. ASSUME NEW d \in Noise, Glitch(d) PROVE JobInv'
  BY <1>1, <1>7 DEF Glitch, JobInv, Busy
<1>8. CASE UNCHANGED vars
  BY <1>1, <1>8 DEF vars, JobInv, Busy
<1> QED
  BY <1>2, <1>3, <1>4, <1>5, <1>6, <1>7, <1>8 DEF Next

\* The receiving end follows the sender.
FollowInv == EscapeInv /\ BufferInv /\ IdleInv /\ FaultlessInv

\* A byte without a fault, and what the receiver makes of it.
LEMMA CleanByte ==
  ASSUME TypeOK, NEW c \in Byte, Put(c), Unharmed, NEW b, NEW e, NEW out,
         Receive(rx, c) = Received(b, e, out)
  PROVE  rx'.buf = b /\ rx'.esc = e /\ delivered' = delivered \o out
<1>1. faults \in Nat
  BY BoundsAssumption DEF TypeOK
<1> QED
  BY <1>1, PutClean DEF Received

LEMMA StateOK ==
  ASSUME TypeOK
  PROVE  State(rx)
BY DEF TypeOK, State

LEMMA NothingOut ==
  ASSUME TypeOK
  PROVE  delivered \o <<>> = delivered /\ faults \in Nat
<1>1. \A s \in Seq(Seq(Byte)) : s \o <<>> = s
  OBVIOUS
<1> QED
  BY <1>1, BoundsAssumption DEF TypeOK

\* Only one thread sends.
LEMMA Alone ==
  ASSUME JobInv, NEW t \in Threads, Busy(t), NEW u \in Threads \ {t}
  PROVE  ~Busy(u) /\ ~Sending(u)
BY DEF JobInv, Busy, Sending

LEMMA FollowStart ==
  ASSUME TypeOK, JobInv, FollowInv, NEW t \in Threads, PutStart(t)
  PROVE  FollowInv'
<1>1. Put(END) /\ kind' = kind /\ sent' = sent /\ clean' = Unharmed /\ lastClean' = clean
  BY DEF PutStart
<1>2. job' = [job EXCEPT ![t].phase = "data"]
  BY DEF PutStart
<1>3. /\ job[t].phase = "start" /\ job[t].n = 0 /\ ~job[t].half
      /\ job[t].bytes \in Seq(Byte) /\ Busy(t)
  BY DEF PutStart, JobInv, TypeOK, Busy
<1>4. \A u \in Threads : ~Sending(u)
  BY <1>3, Alone DEF Sending
<1>5. /\ Sending(t)' /\ job'[t].n = 0 /\ job'[t].half = job[t].half
      /\ job'[t].bytes = job[t].bytes
      /\ \A u \in Threads \ {t} : ~Sending(u)'
  BY <1>2, <1>4 DEF TypeOK, Sending, JobInv
<1>6. State(rx)
  BY StateOK
<1>7. Unharmed => rx'.esc = FALSE
  <2>1. Receive(rx, END).esc = FALSE
    BY <1>6, ReceiveEnd
  <2>2. Unharmed => rx' = [buf |-> Receive(rx, END).buf, esc |-> Receive(rx, END).esc]
    BY <1>1, NothingOut, PutClean
  <2> QED
    BY <2>1, <2>2
<1>8. ASSUME Unharmed, kind = "c" \/ clean
      PROVE  rx'.buf = <<>> /\ delivered' = delivered \o Frame(rx.buf)
  <2>1. kind = "c" \/ ~rx.esc
    BY <1>4, <1>8 DEF FollowInv, IdleInv
  <2>2. Receive(rx, END) = Received(<<>>, FALSE, Frame(rx.buf))
    BY <1>6, <2>1, ReceiveEnd
  <2> QED
    BY <1>1, <1>8, <2>2, CleanByte, SpecialBytes
<1>9. Held(job[t].bytes, 0) = <<>>
  BY <1>3, BoundsAssumption DEF Held
<1>10. EscapeInv'
  <2> SUFFICES ASSUME clean', NEW u \in Threads, Sending(u)' PROVE rx'.esc = job'[u].half
    BY DEF EscapeInv
  <2>1. u = t
    BY <1>5
  <2>2. rx'.esc = FALSE /\ job[t].half = FALSE
    BY <1>1, <1>3, <1>7 DEF TypeOK
  <2> QED
    BY <1>5, <2>1, <2>2
<1>11. BufferInv'
  <2> SUFFICES ASSUME InStep', NEW u \in Threads, Sending(u)'
               PROVE  rx'.buf = Held(job[u].bytes, job[u].n)'
    BY DEF BufferInv
  <2>1. u = t
    BY <1>5
  <2>2. Unharmed /\ (kind = "c" \/ clean)
    BY <1>1 DEF InStep
  <2>3. Held(job[t].bytes, job[t].n)' = Held(job[t].bytes, 0)
    BY <1>1, <1>5 DEF Held
  <2> QED
    BY <1>8, <1>9, <2>1, <2>2, <2>3
<1>12. IdleInv'
  BY <1>5 DEF IdleInv
<1>13. FaultlessInv'
  <2> SUFFICES ASSUME faults' = 0
               PROVE  /\ Unharmed /\ clean
                      /\ delivered' = [i \in 1..Len(sent) |-> Clipped(sent[i])]
    BY <1>1 DEF FaultlessInv, Clipped
  <2>1. faults = 0 /\ Unharmed
    BY <1>1, BoundsAssumption DEF Put, Unharmed, TypeOK
  <2>2. clean /\ delivered = [i \in 1..Len(sent) |-> Clipped(sent[i])]
    BY <2>1 DEF FollowInv, FaultlessInv
  <2>3. rx.buf = <<>>
    BY <1>4, <2>2 DEF FollowInv, IdleInv
  <2>4. delivered' = delivered
    <3>1. delivered' = delivered \o <<>>
      BY <1>8, <2>1, <2>2, <2>3, FrameEmpty
    <3> QED
      BY <3>1, NothingOut
  <2> QED
    BY <2>1, <2>2, <2>4
<1> QED
  BY <1>10, <1>11, <1>12, <1>13 DEF FollowInv

LEMMA FollowData ==
  ASSUME TypeOK, JobInv, FollowInv, NEW t \in Threads, PutData(t)
  PROVE  FollowInv'
<1> DEFINE j == job[t]
           c == j.bytes[j.n + 1]
<1>1. /\ j \in Jobs /\ j.phase = "data" /\ j.n < Len(j.bytes) /\ j.n \in Nat
      /\ j.bytes \in Seq(Byte) /\ c \in Byte
      /\ job' = [job EXCEPT ![t] = DataJob(j)]
  BY TypeParts, DataCase DEF Jobs
<1>2. \/ c \in Special /\ ~j.half /\ Put(ESC)
      \/ c \in Special /\ j.half /\ Put(Code(c))
      \/ c \notin Special /\ Put(c)
  BY TypeParts, DataCase
<1>3. /\ kind' = kind /\ sent' = sent /\ lastClean' = lastClean
      /\ clean' = (clean /\ Unharmed)
  BY DEF PutData
<1>4. DataJob(j).phase = "data" /\ DataJob(j).bytes = j.bytes
  <2> HIDE DEF j
  <2> QED BY <1>1, DataJobType
<1>5. /\ Busy(t) /\ Sending(t) /\ Sending(t)' /\ job'[t] = DataJob(j)
      /\ \A u \in Threads \ {t} : ~Sending(u)'
  <2>1. Busy(t) /\ Sending(t)
    BY <1>1 DEF Busy, Sending
  <2>2. job'[t] = DataJob(j) /\ \A u \in Threads \ {t} : job'[u] = job[u]
    BY <1>1 DEF TypeOK
  <2> QED
    BY <1>4, <2>1, <2>2, Alone DEF Sending
<1>6. State(rx)
  BY StateOK
<1>7. c \notin Special => ~j.half
  BY DEF JobInv
<1>8. ASSUME clean, Unharmed
      PROVE  /\ delivered' = delivered
             /\ rx'.esc = DataJob(j).half
             /\ rx.buf = Held(j.bytes, j.n) => rx'.buf = Held(j.bytes, DataJob(j).n)
  <2>1. rx.esc = j.half
    BY <1>5, <1>8 DEF FollowInv, EscapeInv
  <2>2. rx.buf = Held(j.bytes, j.n) => Stored(rx.buf, c) = Held(j.bytes, j.n + 1)
    BY <1>1, HeldNext
  <2>3. CASE c \in Special /\ ~j.half
    <3>1. DataJob(j) = [j EXCEPT !.half = TRUE]
      BY <2>3 DEF DataJob
    <3>2. DataJob(j).half = TRUE /\ DataJob(j).n = j.n
      BY <1>1, <3>1 DEF Jobs
    <3>3. Receive(rx, ESC) = Received(rx.buf, TRUE, <<>>)
      BY ReceiveEscape
    <3>4. Put(ESC)
      BY <1>2, <2>3
    <3>5. rx'.buf = rx.buf /\ rx'.esc = TRUE /\ delivered' = delivered \o <<>>
      BY <1>8, <3>3, <3>4, CleanByte, SpecialBytes
    <3> QED
      BY <3>2, <3>5, NothingOut
  <2>4. CASE ~(c \in Special /\ ~j.half)
    <3>1. DataJob(j) = [j EXCEPT !.half = FALSE, !.n = j.n + 1]
      BY <2>4 DEF DataJob
    <3>2. DataJob(j).half = FALSE /\ DataJob(j).n = j.n + 1
      BY <1>1, <3>1 DEF Jobs
    <3>3. rx'.buf = Stored(rx.buf, c) /\ rx'.esc = FALSE /\ delivered' = delivered \o <<>>
      <4>1. CASE c \in Special
        <5>1. Put(Code(c)) /\ Code(c) \in Byte /\ rx.esc
          BY <1>2, <2>1, <2>4, <4>1, <1>1, SpecialBytes
        <5>2. Receive(rx, Code(c)) = Received(Stored(rx.buf, c), FALSE, <<>>)
          BY <1>6, <4>1, <5>1, ReceiveCode
        <5> QED
          BY <1>8, <5>1, <5>2, CleanByte
      <4>2. CASE c \notin Special
        <5>1. Put(c) /\ ~rx.esc
          BY <1>2, <1>7, <2>1, <4>2
        <5>2. Receive(rx, c) = Received(Stored(rx.buf, c), FALSE, <<>>)
          BY <1>1, <1>6, <4>2, <5>1, ReceivePlain
        <5>3. Put(c) /\ c \in Byte /\ Unharmed
          BY <1>1, <1>8, <5>1
        <5> HIDE DEF c
        <5> QED
          BY <5>2, <5>3, CleanByte
      <4> QED
        BY <4>1, <4>2
    <3> QED
      BY <2>2, <3>2, <3>3, NothingOut
  <2> QED
    BY <2>3, <2>4
<1>9. EscapeInv'
  <2> SUFFICES ASSUME clean', NEW u \in Threads, Sending(u)' PROVE rx'.esc = job'[u].half
    BY DEF EscapeInv
  <2>1. u = t
    BY <1>5
  <2> QED
    BY <1>3, <1>5, <1>8, <2>1
<1>10. BufferInv'
  <2> SUFFICES ASSUME InStep', NEW u \in Threads, Sending(u)'
               PROVE  rx'.buf = Held(job[u].bytes, job[u].n)'
    BY DEF BufferInv
  <2>1. u = t
    BY <1>5
  <2>2. clean /\ Unharmed /\ InStep
    BY <1>3 DEF InStep
  <2>3. rx.buf = Held(j.bytes, j.n)
    BY <1>5, <2>2 DEF FollowInv, BufferInv
  <2>4. Held(job[t].bytes, job[t].n)' = Held(j.bytes, DataJob(j).n)
    BY <1>3, <1>4, <1>5 DEF Held
  <2> QED
    BY <1>8, <2>1, <2>2, <2>3, <2>4
<1>11. IdleInv'
  BY <1>5 DEF IdleInv
<1>12. FaultlessInv'
  <2> SUFFICES ASSUME faults' = 0
               PROVE  /\ clean /\ Unharmed /\ lastClean
                      /\ delivered' = [i \in 1..Len(sent) |-> Clipped(sent[i])]
    BY <1>3 DEF FaultlessInv, Clipped
  <2>1. faults = 0 /\ Unharmed
    BY <1>2, NothingOut DEF Put, Unharmed
  <2>2. clean /\ lastClean /\ delivered = [i \in 1..Len(sent) |-> Clipped(sent[i])]
    BY <2>1 DEF FollowInv, FaultlessInv
  <2> QED
    BY <1>8, <2>1, <2>2
<1> QED
  BY <1>9, <1>10, <1>11, <1>12 DEF FollowInv

\* The last byte of a frame hands it out, if nothing went wrong since the first,
\* and for the Ruby receiver in the frame before it.
LEMMA EndDelivers ==
  ASSUME TypeOK, JobInv, FollowInv, NEW t \in Threads, PutEnd(t), InStep, Unharmed
  PROVE  delivered' = delivered \o <<Clipped(job[t].payload)>>
<1>1. /\ Put(END) /\ Busy(t) /\ Sending(t) /\ job[t].n = Len(job[t].bytes)
  BY DEF PutEnd, Busy, Sending
<1>2. job[t].payload \in Payloads /\ job[t].bytes = Bytes(job[t].payload) /\ ~job[t].half
  BY <1>1 DEF JobInv, TypeOK
<1>3. rx.buf = Held(job[t].bytes, job[t].n) /\ ~rx.esc
  BY <1>1, <1>2 DEF FollowInv, BufferInv, EscapeInv, InStep
<1>4. Receive(rx, END) = Received(<<>>, FALSE, Frame(rx.buf))
  BY <1>3, StateOK, ReceiveEnd
<1>5. Frame(rx.buf) = <<Clipped(job[t].payload)>>
  BY <1>1, <1>2, <1>3, FrameHeld
<1> QED
  BY <1>1, <1>4, <1>5, CleanByte, SpecialBytes

LEMMA FollowEnd ==
  ASSUME TypeOK, JobInv, FollowInv, NEW t \in Threads, PutEnd(t)
  PROVE  FollowInv'
<1>1. /\ Put(END) /\ kind' = kind /\ lastClean' = lastClean
      /\ job' = [job EXCEPT ![t] = NoJob] /\ sent' = Append(sent, job[t].payload)
      /\ clean' = (clean /\ Unharmed)
  BY DEF PutEnd
<1>2. Busy(t) /\ Sending(t) /\ job[t].n = Len(job[t].bytes) /\ ~job[t].half
  BY DEF PutEnd, Busy, Sending, JobInv, TypeOK
<1>3. \A u \in Threads : ~Sending(u)'
  BY <1>1, <1>2, Alone DEF TypeOK, Sending, NoJob
<1>4. EscapeInv' /\ BufferInv'
  BY <1>3 DEF EscapeInv, BufferInv
<1>5. IdleInv'
  <2> SUFFICES ASSUME clean, Unharmed PROVE rx'.buf = <<>> /\ ~rx'.esc
    BY <1>1 DEF IdleInv
  <2>1. ~rx.esc
    BY <1>2 DEF FollowInv, EscapeInv
  <2>2. Receive(rx, END) = Received(<<>>, FALSE, Frame(rx.buf))
    BY <2>1, StateOK, ReceiveEnd
  <2> QED
    BY <1>1, <2>2, CleanByte, SpecialBytes
<1>6. FaultlessInv'
  <2> SUFFICES ASSUME faults' = 0
               PROVE  /\ clean /\ Unharmed /\ lastClean
                      /\ delivered' = [i \in 1..Len(sent') |-> Clipped(sent'[i])]
    BY <1>1 DEF FaultlessInv, Clipped
  <2>1. faults = 0 /\ Unharmed
    BY <1>1, NothingOut DEF Put, Unharmed
  <2>2. clean /\ lastClean /\ delivered = [i \in 1..Len(sent) |-> Clipped(sent[i])]
    BY <2>1 DEF FollowInv, FaultlessInv
  <2>3. delivered' = delivered \o <<Clipped(job[t].payload)>>
    BY <2>1, <2>2, EndDelivers DEF InStep
  <2>4. sent \in Seq(Payloads) /\ job[t].payload \in Payloads
    BY <1>2 DEF TypeOK, JobInv
  <2>5. [i \in 1..Len(sent) |-> Clipped(sent[i])] \o <<Clipped(job[t].payload)>>
          = [i \in 1..Len(sent') |-> Clipped(sent'[i])]
    <3> DEFINE p == job[t].payload
               n == Len(sent)
               old == [i \in 1..n |-> Clipped(sent[i])]
               new == [i \in 1..n+1 |-> Clipped(Append(sent, p)[i])]
    <3>1. n \in Nat /\ Len(Append(sent, p)) = n + 1
      BY <2>4
    <3>2. \A i \in 1..n : Append(sent, p)[i] = sent[i]
      BY <2>4
    <3>3. Append(sent, p)[n + 1] = p
      BY <2>4
    <3>4. \A i \in 1..n : new[i] = old[i]
      BY <3>1, <3>2
    <3>5. new[n + 1] = Clipped(p)
      BY <3>1, <3>3
    <3>6. old \o <<Clipped(p)>> = new
      <4> DEFINE S == {Clipped(sent[i]) : i \in 1..n} \cup {Clipped(p)}
      <4>1. old \in Seq(S) /\ Len(old) = n
        BY <3>1
      <4>2. new = [i \in 1..n+1 |-> new[i]]
        OBVIOUS
      <4>3. \A s \in Seq(S), e \in S :
               s \o <<e>> = [i \in 1..Len(s)+1 |-> IF i <= Len(s) THEN s[i] ELSE e]
        OBVIOUS
      <4>4. Clipped(p) \in S
        OBVIOUS
      <4> HIDE DEF S, old, new
      <4>5. old \o <<Clipped(p)>> = [i \in 1..n+1 |-> IF i <= n THEN old[i] ELSE Clipped(p)]
        BY <4>1, <4>3, <4>4
      <4>6. \A i \in 1..n+1 : new[i] = IF i <= n THEN old[i] ELSE Clipped(p)
        BY <3>1, <3>4, <3>5
      <4> HIDE DEF n, p
      <4> QED
        BY <4>2, <4>5, <4>6
    <3> QED
      BY <1>1, <3>1, <3>6
  <2> QED
    BY <2>1, <2>2, <2>3, <2>5
<1> QED
  BY <1>4, <1>5, <1>6 DEF FollowInv

LEMMA FollowNext ==
  ASSUME TypeOK, JobInv, FollowInv, [Next]_vars
  PROVE  FollowInv'
<1>1. ASSUME NEW t \in Threads, NEW p \in Payloads, Tx(t, p) PROVE FollowInv'
  <2> DEFINE j == [phase |-> "start", payload |-> p, bytes |-> Bytes(p), n |-> 0,
                   half |-> FALSE]
  <2>1. /\ job' = [job EXCEPT ![t] = j] /\ Free
        /\ UNCHANGED <<kind, rx, delivered, sent, clean, lastClean, faults>>
    BY <1>1 DEF Tx
  <2>2. job'[t] = j /\ \A u \in Threads \ {t} : job'[u] = job[u]
    BY <2>1 DEF TypeOK
  <2>3. \A u \in Threads : ~Sending(u) /\ ~Sending(u)'
    BY <2>1, <2>2 DEF Free, Sending
  <2>4. EscapeInv' /\ BufferInv' /\ IdleInv'
    BY <2>1, <2>3 DEF EscapeInv, BufferInv, FollowInv, IdleInv
  <2>5. FaultlessInv'
    BY <2>1 DEF FollowInv, FaultlessInv, Clipped
  <2> QED
    BY <2>4, <2>5 DEF FollowInv
<1>2. ASSUME NEW t \in Threads, Break(t) PROVE FollowInv'
  <2>1. ~clean' /\ faults' # 0
    BY <1>2, NothingOut DEF Break
  <2> QED
    BY <2>1 DEF FollowInv, EscapeInv, BufferInv, InStep, IdleInv, FaultlessInv
<1>3. ASSUME NEW d \in Noise, Glitch(d) PROVE FollowInv'
  <2>1. ~clean' /\ faults' # 0
    BY <1>3, NothingOut DEF Glitch
  <2> QED
    BY <2>1 DEF FollowInv, EscapeInv, BufferInv, InStep, IdleInv, FaultlessInv
<1>4. CASE UNCHANGED vars
  <2>1. EscapeInv' /\ IdleInv' /\ FaultlessInv'
    BY <1>4 DEF vars, FollowInv, EscapeInv, IdleInv, FaultlessInv, Sending, Clipped
  <2>2. BufferInv'
    BY <1>4 DEF vars, FollowInv, BufferInv, InStep, Sending, Held
  <2> QED
    BY <2>1, <2>2 DEF FollowInv
<1> QED
  BY <1>1, <1>2, <1>3, <1>4, FollowStart, FollowData, FollowEnd DEF Next

-----------------------------------------------------------------------------
LEMMA InitInv == Init => IInv
<1> SUFFICES ASSUME Init PROVE IInv
  OBVIOUS
<1>1. NoJob \in Jobs /\ NoJob.n <= Len(NoJob.bytes)
  BY NoJobType
<1>2. JobType
  BY <1>1 DEF Init, JobType
<1>3. LineType /\ RestType /\ faults \in 0..MaxFaults
  BY BoundsAssumption DEF Init, LineType, RxType, RestType
<1>4. JobInv
  BY DEF Init, JobInv, Busy, NoJob
<1>5. EscapeInv /\ BufferInv /\ IdleInv
  BY DEF Init, EscapeInv, BufferInv, IdleInv, Sending, NoJob
<1>6. FaultlessInv
  BY DEF Init, FaultlessInv
<1> QED
  BY <1>2, <1>3, <1>4, <1>5, <1>6, TypeParts DEF IInv

LEMMA NextInv == IInv /\ [Next]_vars => IInv'
BY TypeNext, JobNext, FollowNext DEF IInv, FollowInv

LEMMA Invariant == Spec => []IInv
BY InitInv, NextInv, PTL DEF Spec

\* Every variable holds what the code may store in it, and the C receiver's buffer
\* (aloof_slip_decode) is never overrun, whatever arrives.
THEOREM TypeCorrect == Spec => []TypeOK
<1>1. IInv => TypeOK
  BY DEF IInv
<1> QED
  BY <1>1, Invariant, PTL

\* On a line without faults every payload is delivered, byte for byte, once and in
\* order, whichever threads call Slip#tx and whatever bytes the payload has.
THEOREM FaithfulCorrect == Spec => []Faithful
<1>1. IInv => Faithful
  BY DEF IInv, FaultlessInv, Faithful
<1> QED
  BY <1>1, Invariant, PTL

\* Whatever the line did before, a frame that arrives unharmed is delivered: at once
\* by aloof_slip_decode, and by the reader of Slip#open after another one.
THEOREM ResyncCorrect == Spec => Resync
<1> DEFINE R == \A t \in Threads :
                  PutEnd(t) /\ clean' /\ (kind = "c" \/ lastClean) =>
                      /\ delivered' # <<>>
                      /\ delivered'[Len(delivered')] = Clipped(job[t].payload)
<1>1. IInv /\ [Next]_vars => [R]_vars
  <2> SUFFICES ASSUME IInv, NEW t \in Threads, PutEnd(t), clean', kind = "c" \/ lastClean
               PROVE  /\ delivered' # <<>>
                      /\ delivered'[Len(delivered')] = Clipped(job[t].payload)
    OBVIOUS
  <2>1. clean /\ Unharmed
    BY DEF PutEnd
  <2>2. delivered' = delivered \o <<Clipped(job[t].payload)>>
    BY <2>1, EndDelivers DEF IInv, FollowInv, InStep
  <2>3. delivered \in Seq(Seq(Byte))
    BY DEF IInv, TypeOK
  <2>4. \A s \in Seq(Seq(Byte)) : \A e :
          /\ s \o <<e>> # <<>> /\ Len(s \o <<e>>) = Len(s) + 1
          /\ (s \o <<e>>)[Len(s) + 1] = e
    OBVIOUS
  <2> QED
    BY <2>2, <2>3, <2>4
<1> QED
  BY <1>1, Invariant, PTL DEF Spec, Resync

-----------------------------------------------------------------------------
(* The checksum. *)

Byte8 == [0..7 -> BOOLEAN]

LEMMA RoundType ==
  ASSUME NEW w \in Word16
  PROVE  Round(w) \in Word16
<1>1. ShiftLeft(w) \in Word16
  BY DEF ShiftLeft, Word16, Places
<1>2. Xor(ShiftLeft(w), Generator) \in Word16
  BY DEF Xor, Word16
<1> QED
  BY <1>1, <1>2 DEF Round

\* The bits of a round.
LEMMA RoundBits ==
  ASSUME NEW w \in Word16, NEW i \in Places
  PROVE  Round(w)[i] = ((i > 0 /\ w[i - 1]) # (w[15] /\ i \in {0, 5, 12}))
<1>1. CASE w[15]
  <2>1. Round(w)[i] = (ShiftLeft(w)[i] # Generator[i])
    BY <1>1 DEF Round, Xor
  <2>2. ShiftLeft(w)[i] = (i > 0 /\ w[i - 1]) /\ Generator[i] = (i \in {0, 5, 12})
    BY DEF ShiftLeft, Generator
  <2> QED
    BY <1>1, <2>1, <2>2
<1>2. CASE ~w[15]
  <2>1. Round(w)[i] = (i > 0 /\ w[i - 1])
    BY <1>2 DEF Round, ShiftLeft
  <2> QED
    BY <1>2, <2>1
<1> QED
  BY <1>1, <1>2

LEMMA RoundInjective ==
  ASSUME NEW v \in Word16, NEW w \in Word16, Round(v) = Round(w)
  PROVE  v = w
<1>1. v[15] = w[15]
  <2>1. 0 \in Places /\ 15 \in Places
    BY DEF Places
  <2>2. Round(v)[0] = v[15] /\ Round(w)[0] = w[15]
    BY <2>1, RoundBits DEF Word16
  <2> QED
    BY <2>2
<1>2. ASSUME NEW i \in Places, i # 15 PROVE v[i] = w[i]
  <2> DEFINE k == i + 1
  <2>1. k \in Places /\ k > 0 /\ k - 1 = i
    BY <1>2 DEF Places
  <2>2. v[i] \in BOOLEAN /\ w[i] \in BOOLEAN /\ v[15] \in BOOLEAN
    BY DEF Word16, Places
  <2> HIDE DEF k
  <2>3. Round(v)[k] = (v[i] # (v[15] /\ k \in {0, 5, 12}))
    BY <2>1, <2>2, RoundBits
  <2>4. Round(w)[k] = (w[i] # (v[15] /\ k \in {0, 5, 12}))
    BY <1>1, <2>1, <2>2, RoundBits
  <2> QED
    BY <2>2, <2>3, <2>4
<1>3. \A i \in Places : v[i] = w[i]
  BY <1>1, <1>2
<1> QED
  BY <1>3 DEF Word16

LEMMA RoundsInjective ==
  ASSUME NEW v \in Word16, NEW w \in Word16, Rounds(v) = Rounds(w)
  PROVE  v = w
BY RoundType, RoundInjective DEF Rounds

LEMMA XorHigh ==
  ASSUME NEW w \in Word16, NEW b \in Byte8
  PROVE  /\ Xor(w, InHigh(b)) \in Word16
         /\ \A i \in 0..7 : Xor(w, InHigh(b))[i] = w[i]
         /\ \A i \in 0..7 : Xor(w, InHigh(b))[i + 8] = (w[i + 8] # b[i])
<1>1. \A i \in 0..7 : i \in Places /\ ~(i >= 8) /\ i + 8 \in Places /\ i + 8 >= 8
                      /\ (i + 8) - 8 = i
  BY DEF Places
<1>2. \A i \in 0..7 : w[i] \in BOOLEAN /\ w[i + 8] \in BOOLEAN /\ b[i] \in BOOLEAN
  BY <1>1 DEF Word16, Byte8
<1>3. \A i \in 0..7 : InHigh(b)[i] = FALSE /\ InHigh(b)[i + 8] = b[i]
  BY <1>1, <1>2 DEF InHigh
<1>4. Xor(w, InHigh(b)) \in Word16
  BY DEF Xor, Word16
<1>5. \A i \in 0..7 : Xor(w, InHigh(b))[i] = w[i]
  BY <1>1, <1>2, <1>3 DEF Xor
<1>6. \A i \in 0..7 : Xor(w, InHigh(b))[i + 8] = (w[i + 8] # b[i])
  BY <1>1, <1>3 DEF Xor
<1> QED
  BY <1>4, <1>5, <1>6

\* A checksum that differs from another's still differs after the same byte: what
\* a changed byte did to aloof_crc_ccitt16_block is not undone by the bytes after it.
THEOREM DifferenceStays ==
  ASSUME NEW v \in Word16, NEW w \in Word16, v # w, NEW b \in Byte8
  PROVE  Update(v, b) # Update(w, b)
<1> SUFFICES ASSUME Update(v, b) = Update(w, b) PROVE FALSE
  OBVIOUS
<1>1. Xor(v, InHigh(b)) = Xor(w, InHigh(b))
  BY XorHigh, RoundsInjective DEF Update
<1>2. ASSUME NEW i \in 0..7 PROVE v[i] = w[i] /\ v[i + 8] = w[i + 8]
  <2>1. v[i] = w[i]
    BY <1>1, XorHigh
  <2>2. v[i + 8] \in BOOLEAN /\ w[i + 8] \in BOOLEAN /\ b[i] \in BOOLEAN
    BY DEF Word16, Places, Byte8
  <2>3. (v[i + 8] # b[i]) = (w[i + 8] # b[i])
    <3>1. Xor(v, InHigh(b))[i + 8] = (v[i + 8] # b[i])
      BY XorHigh
    <3>2. Xor(w, InHigh(b))[i + 8] = (w[i + 8] # b[i])
      BY XorHigh
    <3> QED
      BY <1>1, <3>1, <3>2
  <2> QED
    BY <2>1, <2>2, <2>3
<1>3. \A i \in Places : v[i] = w[i]
  <2> SUFFICES ASSUME NEW i \in Places PROVE v[i] = w[i]
    OBVIOUS
  <2>1. i \in 0..7 \/ (i - 8 \in 0..7 /\ (i - 8) + 8 = i)
    BY DEF Places
  <2> QED
    BY <1>2, <2>1
<1> QED
  BY <1>3 DEF Word16

\* A byte that arrives changed changes the checksum.
THEOREM ByteCounts ==
  ASSUME NEW w \in Word16, NEW b \in Byte8, NEW c \in Byte8, b # c
  PROVE  Update(w, b) # Update(w, c)
<1> SUFFICES ASSUME Update(w, b) = Update(w, c) PROVE FALSE
  OBVIOUS
<1>1. Xor(w, InHigh(b)) = Xor(w, InHigh(c))
  BY XorHigh, RoundsInjective DEF Update
<1>2. ASSUME NEW i \in 0..7 PROVE b[i] = c[i]
  <2>1. w[i + 8] \in BOOLEAN /\ b[i] \in BOOLEAN /\ c[i] \in BOOLEAN
    BY DEF Word16, Places, Byte8
  <2>2. (w[i + 8] # b[i]) = (w[i + 8] # c[i])
    <3>1. Xor(w, InHigh(b))[i + 8] = (w[i + 8] # b[i])
      BY XorHigh
    <3>2. Xor(w, InHigh(c))[i + 8] = (w[i + 8] # c[i])
      BY XorHigh
    <3> QED
      BY <1>1, <3>1, <3>2
  <2> QED
    BY <2>1, <2>2
<1> QED
  BY <1>2 DEF Byte8

-----------------------------------------------------------------------------
\* A round of a word whose highest bit is clear.
LEMMA RoundShifts ==
  ASSUME NEW w \in Word16, ~w[15]
  PROVE  /\ Round(w) \in Word16
         /\ \A i \in Places : Round(w)[i] = (i > 0 /\ w[i - 1])
BY RoundType DEF Round, ShiftLeft

\* After n rounds a word whose high byte is clear is n places higher.
LEMMA ShiftStep ==
  ASSUME NEW w \in Word16, \A i \in 8..15 : ~w[i], NEW n \in 0..7, NEW m, m = n + 1,
         NEW a \in Word16, \A i \in Places : a[i] = (i >= n /\ w[i - n])
  PROVE  /\ Round(a) \in Word16
         /\ \A i \in Places : Round(a)[i] = (i >= m /\ w[i - m])
<1>1. ~a[15]
  <2>1. 15 \in Places /\ 15 - n \in 8..15
    BY DEF Places
  <2>2. a[15] = (15 >= n /\ w[15 - n])
    BY <2>1
  <2> QED
    BY <2>1, <2>2
<1>2. Round(a) \in Word16 /\ \A i \in Places : Round(a)[i] = (i > 0 /\ a[i - 1])
  BY <1>1, RoundShifts
<1>3. ASSUME NEW i \in Places, i > 0 PROVE a[i - 1] = (i >= m /\ w[i - m])
  <2>1. i - 1 \in Places /\ (i - 1 >= n <=> i >= m) /\ (i - 1) - n = i - m
    BY <1>3 DEF Places
  <2>2. a[i - 1] = (i - 1 >= n /\ w[(i - 1) - n])
    BY <2>1
  <2> QED
    BY <2>1, <2>2
<1>4. \A i \in Places : i >= m => i > 0
  BY DEF Places
<1> QED
  BY <1>2, <1>3, <1>4

\* Eight rounds of a word whose high byte is clear move its low byte there.
LEMMA RoundsShift ==
  ASSUME NEW w \in Word16, \A i \in 8..15 : ~w[i]
  PROVE  \A i \in Places : Rounds(w)[i] = (i > 7 /\ w[i - 8])
<1> DEFINE a1 == Round(w)  a2 == Round(a1) a3 == Round(a2) a4 == Round(a3)
           a5 == Round(a4) a6 == Round(a5) a7 == Round(a6) a8 == Round(a7)
<1>0. \A i \in Places : w[i] = (i >= 0 /\ w[i - 0])
  <2>1. \A i \in Places : i >= 0 /\ i - 0 = i /\ w[i] \in BOOLEAN
    BY DEF Places, Word16
  <2> QED
    BY <2>1
<1>1. a1 \in Word16 /\ \A i \in Places : a1[i] = (i >= 1 /\ w[i - 1])
  BY <1>0, ShiftStep
<1>2. a2 \in Word16 /\ \A i \in Places : a2[i] = (i >= 2 /\ w[i - 2])
  <2> HIDE DEF a1
  <2> QED BY <1>1, ShiftStep
<1>3. a3 \in Word16 /\ \A i \in Places : a3[i] = (i >= 3 /\ w[i - 3])
  <2> HIDE DEF a2
  <2> QED BY <1>2, ShiftStep
<1>4. a4 \in Word16 /\ \A i \in Places : a4[i] = (i >= 4 /\ w[i - 4])
  <2> HIDE DEF a3
  <2> QED BY <1>3, ShiftStep
<1>5. a5 \in Word16 /\ \A i \in Places : a5[i] = (i >= 5 /\ w[i - 5])
  <2> HIDE DEF a4
  <2> QED BY <1>4, ShiftStep
<1>6. a6 \in Word16 /\ \A i \in Places : a6[i] = (i >= 6 /\ w[i - 6])
  <2> HIDE DEF a5
  <2> QED BY <1>5, ShiftStep
<1>7. a7 \in Word16 /\ \A i \in Places : a7[i] = (i >= 7 /\ w[i - 7])
  <2> HIDE DEF a6
  <2> QED BY <1>6, ShiftStep
<1>8. a8 \in Word16 /\ \A i \in Places : a8[i] = (i >= 8 /\ w[i - 8])
  <2> HIDE DEF a7
  <2> QED BY <1>7, ShiftStep
<1>9. \A i \in Places : i >= 8 <=> i > 7
  BY DEF Places
<1> HIDE DEF a8
<1>10. \A i \in Places : a8[i] = (i > 7 /\ w[i - 8])
  BY <1>8, <1>9
<1> QED
  BY <1>10 DEF Rounds, a8

LEMMA RoundsType ==
  ASSUME NEW w \in Word16
  PROVE  Rounds(w) \in Word16
BY RoundType DEF Rounds

\* A checksum followed by its own two bytes, the high one first as Slip#tx packs
\* them ("S>"), comes to zero: the reader's test accepts every frame that arrives
\* as it was sent.
THEOREM Residue ==
  ASSUME NEW w \in Word16
  PROVE  Update(Update(w, High(w)), Low(w)) = Zero
<1> DEFINE low  == Xor(w, InHigh(High(w)))
           mid  == Update(w, High(w))
           none == Xor(mid, InHigh(Low(w)))
<1>1. /\ High(w) \in Byte8 /\ Low(w) \in Byte8
      /\ \A i \in 0..7 : High(w)[i] = w[i + 8] /\ Low(w)[i] = w[i]
  BY DEF High, Low, Byte8, Word16, Places
<1>2. low \in Word16 /\ \A i \in 0..7 : low[i] = w[i] /\ ~low[i + 8]
  <2>1. \A i \in 0..7 : low[i + 8] = (w[i + 8] # High(w)[i])
    BY <1>1, XorHigh
  <2> QED
    BY <1>1, <2>1, XorHigh
<1>3. \A i \in 8..15 : ~low[i]
  <2> SUFFICES ASSUME NEW i \in 8..15 PROVE ~low[i]
    OBVIOUS
  <2>1. i - 8 \in 0..7 /\ (i - 8) + 8 = i
    OBVIOUS
  <2> HIDE DEF low
  <2> QED
    BY <1>2, <2>1
<1>4. mid \in Word16 /\ \A i \in Places : mid[i] = (i > 7 /\ low[i - 8])
  <2> HIDE DEF low
  <2>1. Rounds(low) \in Word16 /\ \A i \in Places : Rounds(low)[i] = (i > 7 /\ low[i - 8])
    BY <1>2, <1>3, RoundsShift, RoundsType
  <2> QED
    BY <2>1 DEF Update, low
<1>5. none \in Word16 /\ \A i \in 0..7 : ~none[i] /\ ~none[i + 8]
  <2> HIDE DEF mid, low
  <2>1. /\ none \in Word16
        /\ \A i \in 0..7 : none[i] = mid[i] /\ none[i + 8] = (mid[i + 8] # Low(w)[i])
    BY <1>1, <1>4, XorHigh
  <2>2. \A i \in 0..7 : i \in Places /\ ~(i > 7) /\ i + 8 \in Places /\ i + 8 > 7
                        /\ (i + 8) - 8 = i
    BY DEF Places
  <2>3. \A i \in 0..7 : low[i] \in BOOLEAN
    BY <1>2, <2>2 DEF Word16
  <2>4. \A i \in 0..7 : ~mid[i] /\ mid[i + 8] = low[i]
    BY <1>4, <2>2, <2>3
  <2> HIDE DEF none
  <2> QED
    BY <1>1, <1>2, <2>1, <2>4
<1>6. \A i \in Places : ~none[i]
  <2> SUFFICES ASSUME NEW i \in Places PROVE ~none[i]
    OBVIOUS
  <2>1. i \in 0..7 \/ (i - 8 \in 0..7 /\ (i - 8) + 8 = i)
    BY DEF Places
  <2> HIDE DEF none
  <2> QED
    BY <1>5, <2>1
<1>7. Rounds(none) \in Word16 /\ \A i \in Places : Rounds(none)[i] = FALSE
  <2> HIDE DEF none
  <2>1. \A i \in 8..15 : ~none[i]
    BY <1>6 DEF Places
  <2>2. Rounds(none) \in Word16 /\ \A i \in Places : Rounds(none)[i] = (i > 7 /\ none[i - 8])
    BY <1>5, <2>1, RoundsShift, RoundsType
  <2>3. \A i \in Places : i > 7 => i - 8 \in Places
    BY DEF Places
  <2> QED
    BY <1>6, <2>2, <2>3
<1>8. Rounds(none) = Zero
  <2> HIDE DEF none
  <2> QED BY <1>7 DEF Zero, Word16
<1> QED
  BY <1>8 DEF Update
=============================================================================
