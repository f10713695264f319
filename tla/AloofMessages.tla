---------------------------- MODULE AloofMessages ----------------------------
(***************************************************************************)
(* The messages, as the client writes and reads them (lib/aloof/message).  *)
(*                                                                         *)
(* A value is its type and the bytes of its body; AloofOer says which      *)
(* values these are to either end.  An object id and a version are one     *)
(* byte or more, as put_uint makes them.                                   *)
(***************************************************************************)
EXTENDS AloofCodec

HELLO      == 0
HELLOHELLO == 1
ERROR      == 2
COMMAND    == 3
RESPONSE   == 4
ALERT      == 5

WRITE == 0
READ  == 1

Reasons == 0..5

From(s, n) == SubSeq(s, n + 1, Len(s))

StringTags == {Tag(ty) : ty \in Strings}

NoValue == [type |-> 0, body |-> <<>>]

-----------------------------------------------------------------------------
(* Requests. *)

Uint(n) == Varint(n, SizeofUint("ruby", n))

EncodeValue(v) ==
    <<v.type>> \o (IF v.type \in StringTags THEN Uint(Len(v.body)) ELSE <<>>)
               \o v.body

RubyHello(version, features, station) ==
    <<HELLO>> \o Uint(version) \o Digits(features, 2) \o Uint(station)

\* The bytes of a request.  A hello and what is no message of the protocol are
\* given as bytes.
Encode(q) ==
    CASE q.kind = "read"  -> <<COMMAND, q.field, READ>> \o Uint(q.oid)
      [] q.kind = "write" -> <<COMMAND, q.field, WRITE>> \o Uint(q.oid)
                               \o EncodeValue(q.value)
      [] OTHER            -> q.bytes

Confirmed(field) == field >= 128

-----------------------------------------------------------------------------
(* Replies: what a reader makes of the first bytes of s, and how many they   *)
(* are; nothing when it makes nothing of them.                              *)

\* result is zero for a success, and one more than the reason of a failure.
Reply(kind, id, result, value) ==
    [kind |-> kind, id |-> id, result |-> result, value |-> value]

Decoded(reply, used) == [reply |-> reply, used |-> used]

DecodeUint(s) == {r \in {GetVarint("ruby", "uint", s)} : r.ok}

DecodeValue(s) ==
    LET body(r) == IF r.form \in Strings THEN r.lo ELSE r.used - 1
    IN  {[value |-> [type |-> s[1], body |-> SubSeq(s, r.used - body(r) + 1, r.used)],
          used |-> r.used] : r \in {d \in {GetData("ruby", s)} : d.ok}}

\* get_access_result and what follows it, under a response's id.
DecodeResult(kind, id, s) ==
    LET failure(n) == {Decoded(Reply(kind, id, 1 + why.lo, NoValue), n + why.used) :
                         why \in {r \in DecodeUint(From(s, n)) : r.lo \in Reasons}}
        success(n) == IF kind = "write" THEN {Decoded(Reply(kind, id, 0, NoValue), n)}
                      ELSE {Decoded(Reply(kind, id, 0, v.value), n + v.used) :
                              v \in DecodeValue(From(s, n))}
    IN  UNION {CASE result.lo = 0 -> success(result.used)
                 [] result.lo = 1 -> failure(result.used)
                 [] OTHER         -> {} : result \in DecodeUint(s)}

After(n, decoded) == {[d EXCEPT !.used = @ + n] : d \in decoded}

DecodeResponse(s) ==
    LET kind(command) == IF command.lo = READ THEN "read" ELSE "write"
    IN  UNION {After(1 + command.used,
                     DecodeResult(kind(command), s[1] % 128, From(s, 1 + command.used))) :
                 command \in {r \in DecodeUint(From(s, 1)) : r.lo \in {WRITE, READ}}}

DecodeAlert(s) ==
    UNION {{Decoded(Reply("alert", aid.lo, 0, v.value), aid.used + v.used) :
              v \in DecodeValue(From(s, aid.used))} : aid \in DecodeUint(s)}

\* aloof_oer_getUint; a long integer that is cut short loses its first byte.
UintAt(s) ==
    LET r == GetVarint("c", "uint", s)
    IN  IF r.ok \/ s = <<>> THEN r ELSE [r EXCEPT !.used = 1]

\* get_hello: whether it succeeds, and how many bytes it takes.
HelloAt(s) ==
    LET version == UintAt(From(s, 1))
        Found(ok, n) == [ok |-> ok, used |-> n]
    IN  CASE s = <<>>              -> Found(FALSE, 0)
          [] s # <<>> /\ s[1] >= 2 -> Found(FALSE, 1)
          [] s # <<>> /\ s[1] < 2  ->
               IF version.ok /\ Len(s) >= 5 + version.used
                 THEN Found(TRUE, 5 + version.used)
                 ELSE Found(FALSE, 1 + version.used)

DecodeHelloHello(s) ==
    {Decoded(Reply("hello", s[1], 0, NoValue), hello.used) :
       hello \in {h \in {HelloAt(s)} : h.ok}}

DecodeMessage(s) ==
    UNION {After(tag.used,
                 CASE tag.lo = RESPONSE   -> DecodeResponse(From(s, tag.used))
                   [] tag.lo = ALERT      -> DecodeAlert(From(s, tag.used))
                   [] tag.lo = HELLOHELLO -> DecodeHelloHello(From(s, tag.used))
                   [] OTHER               -> {}) : tag \in DecodeUint(s)}

\* The messages of s, up to the first that a reader makes nothing of.
Replies(s) ==
    LET rest[n \in 0..Len(s)] ==
            IF DecodeMessage(From(s, n)) = {} THEN <<>>
            ELSE LET m == CHOOSE d \in DecodeMessage(From(s, n)) : TRUE
                 IN  <<m.reply>> \o rest[n + m.used]
    IN  rest[0]
=============================================================================
