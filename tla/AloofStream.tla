----------------------------- MODULE AloofStream -----------------------------
(***************************************************************************)
(* Positions in a stream (aloof_stream.c), which are unsigned words that   *)
(* wrap, and the string that the server hands a write handler as a place   *)
(* in its input (aloof_data_get_string, aloof_server_process).  Bytes are  *)
(* told apart by their place only.                                         *)
(***************************************************************************)
EXTENDS Integers

CONSTANTS
    Half,       \* 2^31: half the number of words
    MaxCalls    \* bound: how often a handler asks for bytes of a string

ASSUME HalfAssumption == Half \in Nat \ {0}
ASSUME CallsAssumption == MaxCalls \in Nat

Word == 0..(2 * Half - 1)
Int32 == (-Half)..(Half - 1)

VARIABLES
    writable,   \* out # NULL
    max,
    pos,
    string,     \* what a write handler was given: where the string begins, its
                \* size, and from where it is read; or nothing
    got         \* history: of each of the handler's calls, how many bytes it got

vars == <<writable, max, pos, string, got>>

None == [begin |-> 0, size |-> 0, start |-> 0, on |-> FALSE]

\* aloof_stream_init, and aloof_stream_init_ro.
Init ==
    /\ writable \in BOOLEAN
    /\ max \in Word
    /\ pos = 0
    /\ string = None
    /\ got = [calls |-> 0, bytes |-> 0]

\* Sums and differences of words.
Add(a, b) == IF a + b \in Word THEN a + b ELSE a + b - 2 * Half
Sub(a, b) == IF a - b \in Word THEN a - b ELSE a - b + 2 * Half

\* (uint32_t)offset
Unsigned(o) == IF o < 0 THEN o + 2 * Half ELSE o

-----------------------------------------------------------------------------
Room(n) == Sub(max, pos) >= n

Stream == UNCHANGED <<writable, max>>

Idle == ~string.on /\ UNCHANGED <<string, got>>

\* One that does not fit changes nothing.
Read(n) ==
    /\ Idle
    /\ pos' = IF Room(n) THEN Add(pos, n) ELSE pos
    /\ Stream

Write(n) ==
    /\ Idle
    /\ pos' = IF writable /\ Room(n) THEN Add(pos, n) ELSE pos
    /\ Stream

\* Mutant: one past the end is let through.
TargetOver(n) == IF Add(max, 1) >= n THEN n ELSE pos

Target(n) == IF max >= n THEN n ELSE pos

SeekSet(n) ==
    /\ Idle
    /\ pos' = Target(n)
    /\ Stream

\* Mutant: a seek backwards has no test of its own.
AdjustedUntested(o) ==
    LET moved == Add(pos, Unsigned(o))
    IN  CASE o > 0 /\ moved > pos /\ moved <= max -> moved
          [] o < 0 -> moved
          [] OTHER -> pos

\* adjustOffset.
Adjusted(o) ==
    LET moved == Add(pos, Unsigned(o))
    IN  CASE o > 0 /\ moved > pos /\ moved <= max -> moved
          [] o < 0 /\ moved < pos -> moved
          [] OTHER -> pos

SeekCur(o) ==
    /\ Idle
    /\ pos' = Adjusted(o)
    /\ Stream

-----------------------------------------------------------------------------
\* aloof_data_get finds a string of n bytes, and the server calls its handler.
HandString(n) ==
    /\ ~string.on
    /\ string' = [begin |-> pos, size |-> n, start |-> pos, on |-> TRUE]
    /\ got' = [calls |-> 0, bytes |-> 0]
    /\ UNCHANGED pos
    /\ Stream

\* Mutant: the handler's limit is not looked at.
ChunkUnlimited(m) ==
    LET end == Add(pos, string.size)
    IN  IF string.start < end THEN Sub(end, string.start) + 1 ELSE 0

\* What a call that may take m bytes asks the stream for.  The end of the string
\* moves along with the position.
Chunk(m) ==
    LET end  == Add(pos, string.size)
        left == Sub(end, string.start)
    IN  IF string.start >= end THEN 0 ELSE IF left > m THEN m ELSE left

GetString(m) ==
    LET n == Chunk(m) IN
    /\ string.on
    /\ got.calls < MaxCalls
    /\ IF Room(n)
         THEN /\ pos' = Add(pos, n)
              /\ string' = [string EXCEPT !.start = Add(@, n)]
              /\ got' = [calls |-> got.calls + 1, bytes |-> got.bytes + n]
         ELSE /\ got' = [got EXCEPT !.calls = @ + 1]
              /\ UNCHANGED <<pos, string>>
    /\ Stream

\* Mutant: the server only moves on past what the handler did not read.
HandledShort ==
    /\ string.on
    /\ LET end == Add(string.begin, string.size)
       IN  pos' = IF pos < end THEN Target(end) ELSE pos
    /\ string' = None
    /\ UNCHANGED got
    /\ Stream

\* The handler returns, and the server goes to the end of the string.
Handled ==
    /\ string.on
    /\ LET end == Add(string.begin, string.size)
       IN  pos' = IF pos # end THEN Target(end) ELSE pos
    /\ string' = None
    /\ UNCHANGED got
    /\ Stream

Next ==
    \/ \E n \in Word : Read(n)
    \/ \E n \in Word : Write(n)
    \/ \E n \in Word : SeekSet(n)
    \/ \E o \in Int32 : SeekCur(o)
    \/ \E n \in Word : HandString(n)
    \/ \E m \in Word : GetString(m)
    \/ Handled

Spec == Init /\ [][Next]_vars

-----------------------------------------------------------------------------
(* Properties. *)

\* Every variable holds what the code may store in it: no sequence of calls takes
\* the position out of the buffer, though each sum may wrap.
TypeOK ==
    /\ writable \in BOOLEAN
    /\ max \in Word
    /\ pos \in 0..max
    /\ string \in [begin: Word, size: Word, start: Word, on: BOOLEAN]
    /\ string.on => string.begin <= string.start /\ string.start = pos
    /\ got \in [calls: Nat, bytes: Nat]

\* A seek goes where it says when that is in the buffer, and nowhere else, however
\* far it asks to go and in which direction.
SeekExact ==
    [][\A o \in Int32 :
         SeekCur(o) => pos' = IF pos + o \in 0..max THEN pos + o ELSE pos]_vars

\* A handler that asks once gets bytes of the string alone, all of them when it has
\* the room and they are there.
OneCallExact ==
    [][\A m \in Word :
         LET first == string.begin
             size  == string.size
         IN  GetString(m) /\ got.calls = 0 =>
               /\ got'.bytes <= size /\ got'.bytes <= m
               /\ m >= size /\ first + size <= max => got'.bytes = size]_vars

\* However the handler read a string that is in the buffer, the next message is
\* looked for where the string ends.
RewindExact ==
    [][Handled /\ string.begin + string.size <= max
         => pos' = string.begin + string.size]_vars
=============================================================================
