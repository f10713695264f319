------------------------------ MODULE AloofSlip ------------------------------
(***************************************************************************)
(* SLIP framing on a serial line: Aloof::Slip (lib/aloof/slip.rb) at the   *)
(* one end, and at the other its own reader thread, with or without a      *)
(* checksum, or aloof_slip_decode (aloof_slip.c).                          *)
(*                                                                         *)
(* A byte is received in the step that puts it, and the line may lose it,  *)
(* change it, or put another one in front of it.  Nothing on either end    *)
(* looks at the time, so bytes on their way would change nothing.          *)
(*                                                                         *)
(* The C end puts bytes as Slip#tx does (aloof_slip_put); its put_start    *)
(* and put_end leave it to the caller to try again.                        *)
(***************************************************************************)
EXTENDS Naturals, Sequences

CONSTANTS
    Threads,        \* threads that call tx
    Payloads,       \* what they send
    Checksum(_),    \* Digest::CRC16CCITT
    Kinds,          \* receivers: "slip", "slip_crc16", "c"
    Max,            \* size of the C receiver's buffer
    Noise,          \* bytes the line makes of its own
    MaxFrames,      \* bound: calls of tx
    MaxFaults       \* bound: bytes lost, changed or made, and calls broken off

END     == 192
ESC     == 219
ESC_END == 220
ESC_ESC == 221

Byte == 0..255

\* [crc.checksum].pack("S>")
Pack(n) == <<n \div 256, n % 256>>

ASSUME PayloadsAssumption == Payloads \subseteq Seq(Byte) \ {<<>>}
ASSUME KindsAssumption == Kinds \subseteq {"slip", "slip_crc16", "c"}
ASSUME NoiseAssumption == Noise \subseteq Byte
ASSUME BoundsAssumption == Max \in Nat \ {0} /\ MaxFrames \in Nat /\ MaxFaults \in Nat

\* A checksum is two bytes, and that of a message and its checksum is zero.
ASSUME ChecksumAssumption ==
    \A p \in Payloads : /\ Pack(Checksum(p)) \in Seq(Byte)
                        /\ Checksum(p \o Pack(Checksum(p))) = 0

VARIABLES
    kind,       \* the receiver
    job,        \* where each thread is in tx
    rx,         \* the receiver's buffer, and whether an escape was the last byte
    delivered,  \* what the receiver gave its handler
    frames,     \* history: how often tx was called
    sent,       \* history: payloads whose last byte was put
    flight,     \* history: payloads begun after the last that was delivered
    clean,      \* history: since the frame's first byte, no fault
    lastClean,  \* history: nor since the first byte of the one before
    faults      \* history

vars == <<kind, job, rx, delivered, frames, sent, flight, clean, lastClean, faults>>

NoJob == [phase |-> "idle", payload |-> <<>>, bytes |-> <<>>, n |-> 0, half |-> FALSE]

Init ==
    /\ kind \in Kinds
    /\ job = [t \in Threads |-> NoJob]
    /\ rx = [buf |-> <<>>, esc |-> FALSE]
    /\ delivered = <<>>
    /\ frames = 0
    /\ sent = <<>>
    /\ flight = <<>>
    /\ clean = TRUE
    /\ lastClean = TRUE
    /\ faults = 0

-----------------------------------------------------------------------------
(* The receivers: what they make of a byte, and the frames they hand out. *)

Received(buf, esc, out) == [buf |-> buf, esc |-> esc, out |-> out]

\* Mutant: the checksum is not looked at.
FrameUnchecked(buf) ==
    CASE kind = "slip_crc16" /\ Len(buf) > 2 -> <<SubSeq(buf, 1, Len(buf) - 2)>>
      [] kind # "slip_crc16" /\ buf # <<>>   -> <<buf>>
      [] OTHER -> <<>>

\* A frame that ends here, when it is one.
Frame(buf) ==
    CASE kind = "slip_crc16" /\ Checksum(buf) = 0 /\ Len(buf) > 2 ->
           <<SubSeq(buf, 1, Len(buf) - 2)>>
      [] kind # "slip_crc16" /\ buf # <<>> -> <<buf>>
      [] OTHER -> <<>>

\* In the escape state every byte is data but another escape.
RubyReceive(r, c) ==
    CASE c = ESC                      -> Received(r.buf, TRUE, <<>>)
      [] c # ESC /\ r.esc             ->
           Received(Append(r.buf, CASE c = ESC_ESC -> ESC [] c = ESC_END -> END
                                    [] OTHER -> c), FALSE, <<>>)
      [] c = END /\ ~r.esc            -> Received(<<>>, FALSE, Frame(r.buf))
      [] c \notin {ESC, END} /\ ~r.esc -> Received(Append(r.buf, c), FALSE, <<>>)

\* Mutant: END does not end an escape.
CReceiveEscaped(r, c) ==
    LET data == IF r.esc THEN (IF c = ESC_ESC THEN ESC ELSE END) ELSE c
    IN  CASE c = ESC            -> Received(r.buf, TRUE, <<>>)
          [] c = END            -> Received(<<>>, r.esc, Frame(r.buf))
          [] c \notin {ESC, END} ->
               Received(IF Len(r.buf) < Max THEN Append(r.buf, data) ELSE r.buf,
                        FALSE, <<>>)

\* Mutant: the buffer may take one byte more than it has.
CReceiveOver(r, c) ==
    LET data == IF r.esc THEN (IF c = ESC_ESC THEN ESC ELSE END) ELSE c
    IN  CASE c = ESC            -> Received(r.buf, TRUE, <<>>)
          [] c = END            -> Received(<<>>, FALSE, Frame(r.buf))
          [] c \notin {ESC, END} ->
               Received(IF Len(r.buf) <= Max THEN Append(r.buf, data) ELSE r.buf,
                        FALSE, <<>>)

\* END ends the frame, whatever came before it.  What the buffer does not hold is
\* dropped.
CReceive(r, c) ==
    LET data == IF r.esc THEN (IF c = ESC_ESC THEN ESC ELSE END) ELSE c
    IN  CASE c = ESC            -> Received(r.buf, TRUE, <<>>)
          [] c = END            -> Received(<<>>, FALSE, Frame(r.buf))
          [] c \notin {ESC, END} ->
               Received(IF Len(r.buf) < Max THEN Append(r.buf, data) ELSE r.buf,
                        FALSE, <<>>)

Receive(r, c) == IF kind = "c" THEN CReceive(r, c) ELSE RubyReceive(r, c)

\* The bytes of s arrive: at most two.
Arrive(s) ==
    LET one == Receive(rx, s[1])
        two == Receive([buf |-> one.buf, esc |-> one.esc], s[2])
    IN  CASE Len(s) = 0 -> Received(rx.buf, rx.esc, <<>>)
          [] Len(s) = 1 -> one
          [] Len(s) = 2 -> Received(two.buf, two.esc, one.out \o two.out)

\* What is left in flight when the messages of out, of which there is at most one,
\* have arrived.
Landed(s, out) ==
    LET first == {i \in 1..Len(s) : /\ out # <<>> /\ s[i] = out[1]
                                    /\ \A j \in 1..i-1 : s[j] # out[1]}
    IN  IF first = {} THEN {s} ELSE {SubSeq(s, i + 1, Len(s)) : i \in first}

-----------------------------------------------------------------------------
(* The line. *)

\* What may arrive when c is put, and the number of faults.
Harmed(c) == {<<>>} \cup {<<d>> : d \in Noise \ {c}} \cup {<<d, c>> : d \in Noise}

Take(s) ==
    LET r == Arrive(s)
    IN  /\ rx' = [buf |-> r.buf, esc |-> r.esc]
        /\ delivered' = delivered \o r.out
        /\ flight' \in Landed(flight, r.out)

Put(c) ==
    \/ /\ Take(<<c>>)
       /\ UNCHANGED faults
    \/ /\ faults < MaxFaults
       /\ faults' = faults + 1
       /\ \E s \in Harmed(c) : Take(s)

Unharmed == faults' = faults

-----------------------------------------------------------------------------
(* tx. *)

\* Mutant: tx without its mutex.
FreeAlways == TRUE

Free == \A t \in Threads : job[t].phase = "idle"

\* What tx sends of a payload.
Bytes(p) == IF kind = "slip_crc16" THEN p \o Pack(Checksum(p)) ELSE p

Tx(t, p) ==
    /\ frames < MaxFrames
    /\ Free
    /\ job[t].phase = "idle"
    /\ job' = [job EXCEPT ![t] = [phase |-> "start", payload |-> p, bytes |-> Bytes(p),
                                  n |-> 0, half |-> FALSE]]
    /\ frames' = frames + 1
    /\ flight' = Append(flight, p)
    /\ UNCHANGED <<kind, rx, delivered, sent, clean, lastClean, faults>>

PutStart(t) ==
    /\ job[t].phase = "start"
    /\ Put(END)
    /\ job' = [job EXCEPT ![t].phase = "data"]
    /\ clean' = Unharmed
    /\ lastClean' = clean
    /\ UNCHANGED <<kind, frames, sent>>

Special == {END, ESC}
Code(c) == IF c = END THEN ESC_END ELSE ESC_ESC

\* The next byte of the frame; for a special one there are two to put.
PutData(t) ==
    LET j == job[t]
        c == j.bytes[j.n + 1]
    IN  /\ j.phase = "data" /\ j.n < Len(j.bytes)
        /\ IF c \in Special /\ ~j.half
             THEN /\ Put(ESC)
                  /\ job' = [job EXCEPT ![t].half = TRUE]
             ELSE /\ Put(IF c \in Special THEN Code(c) ELSE c)
                  /\ job' = [job EXCEPT ![t].half = FALSE, ![t].n = @ + 1]
        /\ clean' = (clean /\ Unharmed)
        /\ UNCHANGED <<kind, frames, sent, lastClean>>

PutEnd(t) ==
    /\ job[t].phase = "data" /\ job[t].n = Len(job[t].bytes)
    /\ Put(END)
    /\ job' = [job EXCEPT ![t] = NoJob]
    /\ sent' = Append(sent, job[t].payload)
    /\ clean' = (clean /\ Unharmed)
    /\ UNCHANGED <<kind, frames, lastClean>>

\* The port, or another thread, raises in tx, which gives the mutex up.
Break(t) ==
    /\ job[t].phase # "idle"
    /\ faults < MaxFaults
    /\ faults' = faults + 1
    /\ job' = [job EXCEPT ![t] = NoJob]
    /\ clean' = FALSE
    /\ UNCHANGED <<kind, rx, delivered, frames, sent, flight, lastClean>>

\* A byte on an idle line.
Glitch(d) ==
    /\ Free
    /\ faults < MaxFaults
    /\ faults' = faults + 1
    /\ Take(<<d>>)
    /\ clean' = FALSE
    /\ UNCHANGED <<kind, job, frames, sent, lastClean>>

Next ==
    \/ \E t \in Threads, p \in Payloads : Tx(t, p)
    \/ \E t \in Threads : PutStart(t)
    \/ \E t \in Threads : PutData(t)
    \/ \E t \in Threads : PutEnd(t)
    \/ \E t \in Threads : Break(t)
    \/ \E d \in Noise : Glitch(d)

Spec == Init /\ [][Next]_vars

-----------------------------------------------------------------------------
(* Properties. *)

\* Every variable holds what the code may store in it; the C receiver's buffer
\* is never overrun.
TypeOK ==
    /\ kind \in Kinds
    /\ job \in [Threads -> [phase: {"idle", "start", "data"}, payload: Seq(Byte),
                            bytes: Seq(Byte), n: Nat, half: BOOLEAN]]
    /\ \A t \in Threads : job[t].n <= Len(job[t].bytes)
    /\ rx \in [buf: Seq(Byte), esc: BOOLEAN]
    /\ kind = "c" => Len(rx.buf) <= Max
    /\ delivered \in Seq(Seq(Byte))
    /\ frames \in 0..MaxFrames
    /\ sent \in Seq(Payloads)
    /\ flight \in Seq(Payloads)
    /\ clean \in BOOLEAN /\ lastClean \in BOOLEAN
    /\ faults \in 0..MaxFaults

\* What the receiver's handler gets of a payload that arrives unharmed.
Clipped(p) == IF kind = "c" /\ Len(p) > Max THEN SubSeq(p, 1, Max) ELSE p

\* On a line without faults each payload is delivered when its last byte is
\* put, byte for byte, whoever else is sending.
Faithful == faults = 0 => delivered = [i \in 1..Len(sent) |-> Clipped(sent[i])]

Line == INSTANCE AloofLine WITH
    Messages <- Payloads,
    checked <- kind = "slip_crc16",
    harmed <- faults > 0 \/ \E p \in Payloads : Clipped(p) # p

\* With a checksum, whatever the line does, what is delivered was sent, in that
\* order and once; without one, as long as the line does nothing (AloofLine).
LineKept == Line!Spec

\* A frame that arrives unharmed is delivered, whatever was left in the receiver:
\* at once in C; in Ruby, where a lost byte may leave the receiver in its escape
\* state, once the frame before it was unharmed too.
Resync ==
    [][\A t \in Threads :
         PutEnd(t) /\ clean' /\ (kind = "c" \/ lastClean) =>
             /\ delivered' # <<>>
             /\ delivered'[Len(delivered')] = Clipped(job[t].payload)]_vars
=============================================================================
