----------------------------- MODULE AloofServer -----------------------------
(***************************************************************************)
(* The server: aloof_server_process and aloof_server_send_alert (aloof.c)  *)
(* over their two streams, with the objects and handlers of the test       *)
(* server (main.c).  The numbers of the objects are those of their types:  *)
(* object 1 is a u8, object 13 a blob; 14 to 19 refuse, each for a reason  *)
(* of its own.                                                             *)
(*                                                                         *)
(* One call is one step: nothing else runs in a server.  The test server   *)
(* takes one message at a time; a server may as well take several from one *)
(* stream, and put alerts between their responses.                         *)
(***************************************************************************)
EXTENDS AloofMessages, SequencesExt

CONSTANTS
    Batches,        \* sequences of requests that may arrive together
    Alerts,         \* the alerts the application sends, [aid, value]
    AlertLimit,     \* bound: no alert when the output is longer
    AlertsAnytime,  \* bound: or only while confirmed requests wait
    TxSize,         \* size of the output buffer
    Capacity,       \* size of the buffers of the string and the blob
    Stale,          \* the bytes that may lie past the end of the output
    Handlers        \* the sets of handlers it may be built with

ASSUME HandlerAssumption == Handlers \subseteq SUBSET {"read", "write"}
ASSUME SizeAssumption == TxSize \in Nat /\ Capacity \in Nat /\ Stale \subseteq Byte
-----------------------------------------------------------------------------
(* What arrives, and what the application sends. *)

BodySize(oid) == CASE DataTypes[oid + 1] \in {"nil"} \cup Strings -> 0
                   [] DataTypes[oid + 1] \in Doubles -> 8
                   [] OTHER -> Width(DataTypes[oid + 1])

\* A value either end may put: a string may be too long for its object.
Typed(v) ==
    /\ v = [type |-> v.type, body |-> v.body]
    /\ v.type \in 0..13 /\ v.body \in Seq(Byte)
    /\ IF v.type \in StringTags THEN Len(v.body) \in U32
                                ELSE Len(v.body) = BodySize(v.type)
    /\ v.type = Tag("bool") => v.body \in {<<0>>, <<1>>}

\* A hello is what get_hello takes for one, to its last byte.
IsRequest(q) ==
    CASE q.kind = "read"  -> q.field \in Byte /\ q.oid \in U32
      [] q.kind = "write" -> q.field \in Byte /\ q.oid \in U32 /\ Typed(q.value)
      [] q.kind = "hello" ->
           /\ q.bytes \in Seq(Byte) /\ q.bytes # <<>> /\ q.bytes[1] = HELLO
           /\ HelloAt(Tail(q.bytes)) = [ok |-> TRUE, used |-> Len(q.bytes) - 1]
      [] q.kind = "other" -> q.bytes \in Seq(Byte) /\ q.bytes # <<>>
      [] OTHER            -> FALSE

ASSUME RequestAssumption ==
    \A batch \in Batches :
        batch \in Seq(Range(batch)) /\ \A q \in Range(batch) : IsRequest(q)
ASSUME AlertAssumption == \A a \in Alerts : a.aid \in U32 /\ Typed(a.value)

VARIABLES
    handlers,       \* the handlers of the server: "read", "write"
    objects,        \* state: the body of each object's value
    rx,             \* in: its bytes, and pos
    tx,             \* out: its bytes before pos
    requests        \* the messages of rx that were not processed

vars == <<handlers, objects, rx, tx, requests>>

UNKNOWN     == 0
ARGUMENT    == 3
APPLICATION == 5

-----------------------------------------------------------------------------
(* Streams. *)

\* The bytes of s are written, or none of them.
Written(t, s) == IF TxSize - Len(t) >= Len(s) THEN t \o s ELSE t

\* What is left of a sequence of writes when each is tried only if the one
\* before it succeeded.  Single bytes may as well be tried: none fits any more.
WrittenAll(t, pieces) ==
    LET all(k) == FlattenSeq(SubSeq(pieces, 1, k))
        fit    == {k \in 0..Len(pieces) : Len(all(k)) <= TxSize - Len(t)}
    IN  t \o all(Max(fit))

\* Past its end are bytes of earlier messages, and a position there sends them.
SeekSet(t, offset) ==
    CASE offset <= Len(t) -> {SubSeq(t, 1, offset)}
      [] offset > Len(t) /\ offset <= TxSize ->
           {t \o junk : junk \in [1..offset - Len(t) -> Stale]}
      [] OTHER            -> {t}

\* What is read of rx from n bytes after pos.
Ahead(n) == From(rx.bytes, rx.pos + n)

Skip(n) == rx' = [rx EXCEPT !.pos = @ + n]

\* aloof_data_get: the tag and the body, of a string only the length.
DataAt(s) ==
    LET form == DataTypes[s[1] + 1]
        r    == IF form \in Strings THEN UintAt(Tail(s)) ELSE GetBody("c", form, Tail(s))
        bool == form = "bool" /\ Len(s) > 1
    IN  CASE s = <<>>   -> Refused
          [] s # <<>> /\ s[1] >= 14 -> [Refused EXCEPT !.used = 1]
          [] s # <<>> /\ s[1] < 14  ->
               [r EXCEPT !.form = form, !.used = 1 + (IF bool THEN 1 ELSE @)]

-----------------------------------------------------------------------------
(* The handlers of the test server. *)

TypeOf(oid) == IF oid \in 0..13 THEN oid ELSE Tag("nil")

Why(oid) == IF oid \in 14..19 THEN oid - 14 ELSE UNKNOWN

CUint(n) == Varint(n, SizeofUint("c", n))

\* The writes that put a value.  A blob is put as a string.
PutValue(v) ==
    IF v.type \in StringTags
      THEN <<<<Tag("string")>>, CUint(Len(v.body)), v.body>>
      ELSE <<<<v.type>>, v.body>>

\* Mutant: the size of the buffer is not looked at.
RefusalUnbounded(oid, data, taken) ==
    CASE oid \notin 0..19                              -> {UNKNOWN}
      [] oid \in 0..19 /\ TypeOf(oid) # Tag(data.form) -> {ARGUMENT}
      [] oid \in 14..19 /\ data.form = "nil"           -> {Why(oid)}
      [] oid \in 0..13 /\ oid = Tag(data.form) ->
           IF data.form \in Strings /\ taken < data.lo THEN {APPLICATION} ELSE {}

\* app_writer: why the value is refused, when taken of its bytes could be read.
Refusal(oid, data, taken) ==
    CASE oid \notin 0..19                              -> {UNKNOWN}
      [] oid \in 0..19 /\ TypeOf(oid) # Tag(data.form) -> {ARGUMENT}
      [] oid \in 14..19 /\ data.form = "nil"           -> {Why(oid)}
      [] oid \in 0..13 /\ oid = Tag(data.form) ->
           IF data.form \in Strings /\ (data.lo > Capacity \/ taken < data.lo)
             THEN {APPLICATION} ELSE {}

-----------------------------------------------------------------------------
(* aloof_server_process. *)

\* Take away the output of a command that is not confirmed.  The position to
\* return to is that of the input when the call began.
Confirm(field, t) == IF Confirmed(field) THEN {t} ELSE SeekSet(t, rx.pos)

\* One message is processed: s is what is left of the input.
Process(s) ==
    /\ requests # <<>>
    /\ requests' = Tail(requests)
    /\ s # <<>>
    /\ UNCHANGED handlers

ProcessIgnored(s) ==
    /\ Process(s)
    /\ s[1] \notin {HELLO, COMMAND}
    /\ Skip(1)
    /\ UNCHANGED <<objects, tx>>

ProcessHello(s) ==
    /\ Process(s)
    /\ s[1] = HELLO
    /\ LET hello == HelloAt(Tail(s))
       IN  /\ Skip(1 + hello.used)
           /\ tx' = IF hello.ok
                      THEN WrittenAll(tx, <<<<HELLOHELLO>>, <<1>>, <<0>>, <<0, 0, 0, 0>>>>)
                      ELSE tx
    /\ UNCHANGED objects

\* A command that ends too soon or has no known type.  When it ends before its
\* invoke field, what is tested in its place is not initialised.
ProcessUnknown(s) ==
    /\ Process(s)
    /\ s[1] = COMMAND
    /\ Len(s) >= 3 => s[3] \notin {READ, WRITE}
    /\ Skip(IF Len(s) < 3 THEN Len(s) ELSE 3)
    /\ \E field \in IF Len(s) = 1 THEN {0, 128} ELSE {s[2]} :
           tx' \in Confirm(field, tx)
    /\ UNCHANGED objects

\* Mutant: a read that fails does not take back the 0 of its success.
ReadResponseKept(field, oid) ==
    LET said == WrittenAll(tx, <<<<RESPONSE>>, <<field>>, <<READ>>, <<0>>>>)
    IN  IF oid \in 0..13
          THEN WrittenAll(said, PutValue([type |-> oid, body |-> objects[oid]]))
          ELSE WrittenAll(said, <<<<1>>, <<Why(oid)>>>>)

\* Mutant: a read that fails writes its response from the start of the output.
ReadResponseRestart(field, oid) ==
    LET head == <<<<RESPONSE>>, <<field>>, <<READ>>>>
    IN  IF oid \in 0..13
          THEN WrittenAll(tx, head \o <<<<0>>>>
                                \o PutValue([type |-> oid, body |-> objects[oid]]))
          ELSE WrittenAll(<<>>, head \o <<<<1>>, <<Why(oid)>>>>)

ReadResponse(field, oid) ==
    LET head == WrittenAll(tx, <<<<RESPONSE>>, <<field>>, <<READ>>>>)
        said == Written(head, <<0>>)
    IN  CASE "read" \notin handlers -> WrittenAll(said, <<<<1>>, <<UNKNOWN>>>>)
          [] "read" \in handlers /\ oid \in 0..13 ->
               WrittenAll(said, PutValue([type |-> oid, body |-> objects[oid]]))
          [] OTHER ->
               WrittenAll(SubSeq(said, 1, Len(head)), <<<<1>>, <<Why(oid)>>>>)

ProcessRead(s) ==
    /\ Process(s)
    /\ Len(s) >= 3 /\ s[1] = COMMAND /\ s[3] = READ
    /\ LET oid == UintAt(From(s, 3))
       IN  /\ Skip(3 + oid.used)
           /\ tx' \in Confirm(s[2], IF oid.ok THEN ReadResponse(s[2], oid.lo) ELSE tx)
    /\ UNCHANGED objects

\* Mutant: the end is counted from the value's tag.
EndOfTagged(n, data) ==
    IF data.form \in Strings THEN n - data.used + data.lo ELSE n

\* The end of a value that starts n bytes ahead, whether its handler read it or
\* not, unless it ends past the input.
EndOf(n, data) ==
    IF data.form \in Strings /\ rx.pos + n + data.lo <= Len(rx.bytes)
      THEN n + data.lo ELSE n

\* Mutant: a refusal follows a success, as it does when there is no read handler.
WriteResponseAfter(field, refusal) ==
    WrittenAll(tx, <<<<RESPONSE>>, <<field>>, <<WRITE>>, <<0>>>>
                     \o (IF refusal = {} THEN <<>>
                         ELSE <<<<1>>, <<CHOOSE why \in refusal : TRUE>>>>))

WriteResponse(field, refusal) ==
    WrittenAll(tx, <<<<RESPONSE>>, <<field>>, <<WRITE>>>>
                     \o (IF refusal = {} THEN <<<<0>>>>
                         ELSE <<<<1>>, <<CHOOSE why \in refusal : TRUE>>>>))

ProcessWrite(s) ==
    /\ Process(s)
    /\ Len(s) >= 3 /\ s[1] = COMMAND /\ s[3] = WRITE
    /\ LET oid  == UintAt(From(s, 3))
           data == DataAt(From(s, 3 + oid.used))
           n    == 3 + oid.used + data.used
           refusal == IF "write" \in handlers THEN Refusal(oid.lo, data, Len(s) - n)
                      ELSE {UNKNOWN}
           body == IF data.form \in Strings THEN SubSeq(s, n + 1, n + data.lo)
                   ELSE SubSeq(s, 3 + oid.used + 2, n)
       IN  \/ /\ oid.ok /\ data.ok
              /\ Skip(EndOf(n, data))
              /\ tx' \in Confirm(s[2], WriteResponse(s[2], refusal))
              /\ objects' = IF refusal = {} THEN [objects EXCEPT ![oid.lo] = body]
                                            ELSE objects
           \/ /\ ~(oid.ok /\ data.ok)
              /\ Skip(IF oid.ok THEN n ELSE 3 + oid.used)
              /\ tx' \in Confirm(s[2], tx)
              /\ UNCHANGED objects

-----------------------------------------------------------------------------
(* The rest of the program. *)

Init ==
    /\ handlers \in Handlers
    /\ objects = [oid \in 0..13 |-> [i \in 1..BodySize(oid) |-> 0]]
    /\ rx = [bytes |-> <<>>, pos |-> 0]
    /\ tx = <<>>
    /\ requests = <<>>

\* The output is sent, both streams are initialised and the next messages come.
Receive(batch) ==
    /\ requests = <<>>
    /\ requests' = batch
    /\ rx' = [bytes |-> FlattenSeq([i \in 1..Len(batch) |-> Encode(batch[i])]),
              pos |-> 0]
    /\ tx' = <<>>
    /\ UNCHANGED <<handlers, objects>>

\* A command that is not confirmed, or may be taken for one.
Unconfirmed(q) ==
    LET field == CASE q.kind \in {"read", "write"} -> q.field
                   [] q.kind = "other" /\ Len(q.bytes) > 1 -> q.bytes[2]
                   [] OTHER -> 0
    IN  q.kind # "hello" /\ ~Confirmed(field)

\* send_alert.  A double is put as an i8: its conversion may give any byte.
SendAlert(a) ==
    /\ Len(tx) <= AlertLimit
    /\ \/ AlertsAnytime
       \/ \A i \in DOMAIN requests : ~Unconfirmed(requests[i])
    /\ \E v \in IF a.value.type = Tag("double")
                 THEN {[type |-> Tag("i8"), body |-> <<b>>] : b \in Byte}
                 ELSE {a.value} :
           tx' = WrittenAll(tx, <<<<ALERT>>, CUint(a.aid)>> \o PutValue(v))
    /\ UNCHANGED <<handlers, objects, rx, requests>>

Next ==
    \/ \E batch \in Batches : Receive(batch)
    \/ ProcessIgnored(Ahead(0))
    \/ ProcessHello(Ahead(0))
    \/ ProcessUnknown(Ahead(0))
    \/ ProcessRead(Ahead(0))
    \/ ProcessWrite(Ahead(0))
    \/ \E a \in Alerts : SendAlert(a)

Spec == Init /\ [][Next]_vars

-----------------------------------------------------------------------------
(* Properties. *)

\* Both positions stay inside their streams, and every object holds a value of
\* its type: a string no longer than its buffer, a bool of 0 or 1.
TypeOK ==
    /\ rx.bytes \in Seq(Byte) /\ rx.pos \in 0..Len(rx.bytes)
    /\ tx \in Seq(Byte) /\ Len(tx) <= TxSize
    /\ requests \in Seq(UNION {Range(batch) : batch \in Batches})
    /\ DOMAIN objects = 0..13
    /\ \A oid \in 0..13 :
         /\ objects[oid] \in Seq(Byte)
         /\ IF oid \in StringTags THEN Len(objects[oid]) <= Capacity
                                  ELSE Len(objects[oid]) = BodySize(oid)
    /\ objects[Tag("bool")] \in {<<0>>, <<1>>}

Value(oid, body) == [type |-> oid, body |-> body]

\* The longest answer is that to a read of a double or of a full string.
Longest == 4 + Max({9, 1 + Len(CUint(Capacity)) + Capacity})

Service == INSTANCE AloofService WITH
    Objects <- [oid \in 0..13 |-> Value(oid, [i \in 1..BodySize(oid) |-> 0])],
    writable <- "write" \in handlers,
    room <- TxSize - Len(tx) >= Longest,
    objects <- [oid \in 0..13 |-> Value(oid, objects[oid])],
    replies <- Replies(tx)

\* The server keeps what AloofService promises: what a reader makes of the output
\* is the true outcome of each confirmed command and each alert, in order.
ServiceKept == Service!Spec

Processed == requests # <<>> /\ requests' = Tail(requests)

\* What is no request ends with its frame, which the server does not see: nothing
\* follows it in one stream.
OthersLast ==
    \A batch \in Batches : \A i \in 1..Len(batch)-1 : batch[i].kind # "other"

\* The bytes are no hello, read no object and write none.
NoRequest(b) ==
    LET oid  == UintAt(From(b, 3))
        data == DataAt(From(b, 3 + oid.used))
        n    == 3 + oid.used + data.used
        invokes(c) == b[1] = COMMAND /\ Len(b) >= 3 /\ b[3] = c
    IN  /\ b[1] = HELLO => ~HelloAt(Tail(b)).ok
        /\ invokes(READ) => ~oid.ok
        /\ invokes(WRITE) /\ oid.ok /\ data.ok => Refusal(oid.lo, data, Len(b) - n) # {}

\* What ServiceKept needs of the constants.  A server without a read handler says
\* success before it says why not (aloof.c:184).  Taking away the output of an
\* unconfirmed command moves it to the position of the input, so such a command
\* must come first.  A double is put wrong (aloof.c:383), and so is the length 65536
\* (aloof_oer.c:308).  Where a length of three bytes does not fit, or an id of four,
\* a short message may, and is read in its place: the answer to a hello is a string
\* of one.
Proper ==
    /\ Capacity <= 65535
    /\ \A h \in Handlers : "read" \in h
    /\ OthersLast
    /\ \A batch \in Batches : \A i \in 1..Len(batch) :
         /\ Unconfirmed(batch[i]) => i = 1
         /\ batch[i].kind = "other" => NoRequest(batch[i].bytes)
         /\ batch[i].kind = "hello" => Capacity <= 255 \/ (i = 1 /\ Alerts = {})
    /\ \A a \in Alerts :
         /\ a.aid <= 255
         /\ a.value.type # Tag("double")
         /\ a.value.type \in StringTags => Len(a.value.body) <= Capacity

\* A request is taken to its last byte, whether its handler read its value or
\* refused it: the next call finds the next message (aloof.c:154-166).
MessagesConsumed ==
    [][Processed /\ Head(requests).kind # "other" =>
           rx'.pos = rx.pos + Len(Encode(Head(requests)))]_vars

\* protocol_description.md:11-12: servers send responses to commands and
\* unsolicited alerts.  Processing a message takes none of them back.
AnswersKept == [][Processed => IsPrefix(tx, tx')]_vars
=============================================================================
