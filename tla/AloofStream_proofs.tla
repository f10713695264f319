-------------------------- MODULE AloofStream_proofs --------------------------
(***************************************************************************)
(* What TLAPS proves of positions in a stream, for words of any width.     *)
(* Type correctness is inductive: as long as the position is in the        *)
(* buffer, max - pos does not wrap, and what has room moves it no further  *)
(* than max.  The rest follows from it.                                    *)
(***************************************************************************)
EXTENDS AloofStream, TLAPS

LEMMA WordType ==
  /\ Word = 0..(2 * Half - 1) /\ 0 \in Word /\ 2 * Half \in Nat
  /\ \A n \in Word : n \in Nat /\ n < 2 * Half
BY HalfAssumption DEF Word

LEMMA RoomMeans ==
  ASSUME TypeOK, NEW n \in Word
  PROVE  /\ Room(n) <=> pos + n <= max
         /\ pos + n <= max => Add(pos, n) = pos + n
BY WordType, HalfAssumption DEF Room, Sub, Add, Word, TypeOK

LEMMA AddType ==
  ASSUME NEW a \in Word, NEW b \in Word
  PROVE  Add(a, b) \in Word /\ (Add(a, b) = a + b \/ Add(a, b) = a + b - 2 * Half)
BY HalfAssumption DEF Add, Word

\* What a handler's call asks for: no more than it may take, and for the string's
\* bytes unless the end of the string wraps.
LEMMA ChunkType ==
  ASSUME TypeOK, string.on, NEW m \in Word
  PROVE  /\ Chunk(m) \in Word /\ Chunk(m) <= m /\ Chunk(m) <= string.size
         /\ pos + string.size <= max =>
              Chunk(m) = IF string.size <= m THEN string.size ELSE m
<1> DEFINE size == string.size
           end  == Add(pos, size)
           left == Sub(end, pos)
<1>1. pos \in Word /\ size \in Word /\ string.start = pos /\ max \in Word
  BY WordType DEF TypeOK, Word
<1>2. Chunk(m) = IF pos >= end THEN 0 ELSE IF left > m THEN m ELSE left
  BY <1>1 DEF Chunk
<1>3. CASE pos + size \in Word
  <2>1. end = pos + size
    BY <1>3 DEF Add
  <2>2. left = size
    BY <1>1, <2>1, WordType DEF Sub
  <2> HIDE DEF end, left, size
  <2> QED
    BY <1>1, <1>2, <2>1, <2>2, WordType DEF size
<1>4. CASE pos + size \notin Word
  <2>1. end = pos + size - 2 * Half
    BY <1>4 DEF Add
  <2>2. pos >= end
    BY <1>1, <2>1, WordType
  <2>3. ~(pos + size <= max)
    BY <1>1, <1>4, WordType, HalfAssumption DEF Word
  <2> HIDE DEF end, left
  <2> QED
    BY <1>1, <1>2, <2>2, <2>3, WordType
<1> QED
  BY <1>3, <1>4

LEMMA TypeNext == TypeOK /\ [Next]_vars => TypeOK'
<1> SUFFICES ASSUME TypeOK, [Next]_vars PROVE TypeOK'
  OBVIOUS
<1>1. max \in Word /\ pos \in Nat /\ max \in Nat /\ pos <= max /\ pos \in Word
  BY WordType DEF TypeOK, Word
<1>2. ASSUME Idle, Stream, pos' \in 0..max PROVE TypeOK'
  BY <1>2 DEF TypeOK, Idle, Stream
<1>3. ASSUME NEW n \in Word, Read(n) \/ Write(n) PROVE TypeOK'
  <2>1. n \in Nat
    BY WordType
  <2>2. pos' = pos \/ (pos + n <= max /\ pos' = pos + n)
    BY <1>3, RoomMeans DEF Read, Write
  <2>3. pos' \in 0..max
    BY <1>1, <2>1, <2>2
  <2> QED
    BY <1>2, <1>3, <2>3 DEF Read, Write
<1>4. ASSUME NEW n \in Word, SeekSet(n) PROVE TypeOK'
  <2>1. Target(n) \in 0..max
    BY <1>1, WordType DEF Target
  <2> QED
    BY <1>2, <1>4, <2>1 DEF SeekSet
<1>5. ASSUME NEW o \in Int32, SeekCur(o) PROVE TypeOK'
  <2> DEFINE moved == Add(pos, Unsigned(o))
  <2>1. Unsigned(o) \in Word
    BY HalfAssumption DEF Unsigned, Int32, Word
  <2>2. moved \in Word /\ moved \in Nat
    BY <1>1, <2>1, AddType, WordType
  <2> HIDE DEF moved
  <2>3. \/ Adjusted(o) = pos
        \/ Adjusted(o) = moved /\ (moved <= max \/ moved < pos)
    <3>1. CASE o > 0 /\ moved > pos /\ moved <= max
      <4>1. ~(o < 0)
        BY <3>1 DEF Int32
      <4> QED
        BY <3>1, <4>1 DEF Adjusted, moved
    <3>2. CASE ~(o > 0 /\ moved > pos /\ moved <= max) /\ o < 0 /\ moved < pos
      BY <3>2 DEF Adjusted, moved
    <3>3. CASE ~(o > 0 /\ moved > pos /\ moved <= max) /\ ~(o < 0 /\ moved < pos)
      BY <3>3 DEF Adjusted, moved
    <3> QED
      BY <3>1, <3>2, <3>3
  <2>4. Adjusted(o) \in 0..max
    BY <1>1, <2>2, <2>3
  <2> QED
    BY <1>2, <1>5, <2>4 DEF SeekCur
<1>6. ASSUME NEW n \in Word, HandString(n) PROVE TypeOK'
  BY <1>1, <1>6 DEF HandString, Stream, TypeOK
<1>7. ASSUME NEW m \in Word, GetString(m) PROVE TypeOK'
  <2> DEFINE n == Chunk(m)
  <2>1. n \in Word /\ n \in Nat
    BY <1>7, ChunkType, WordType DEF GetString
  <2> HIDE DEF n
  <2>2. CASE Room(n)
    <3>1. pos + n <= max /\ Add(pos, n) = pos + n
      BY <2>1, <2>2, RoomMeans
    <3>2. /\ pos' = pos + n
          /\ string' = [string EXCEPT !.start = Add(@, n)]
          /\ got' = [calls |-> got.calls + 1, bytes |-> got.bytes + n]
      BY <1>7, <2>2, <3>1 DEF GetString, n
    <3>3. string'.start = pos + n /\ pos + n \in Word
      BY <1>1, <1>7, <2>1, <3>1, <3>2, WordType DEF TypeOK, GetString
    <3>4. /\ string' \in [begin: Word, size: Word, start: Word, on: BOOLEAN]
          /\ string'.begin = string.begin /\ string'.on = string.on
      BY <3>2, <3>3 DEF TypeOK
    <3>5. string.begin <= string.start /\ string.begin \in Nat
      BY <1>7, WordType DEF GetString, TypeOK
    <3>6. got' \in [calls: Nat, bytes: Nat]
      BY <2>1, <3>2 DEF TypeOK
    <3> QED
      BY <1>1, <1>7, <2>1, <3>1, <3>2, <3>3, <3>4, <3>5, <3>6
      DEF TypeOK, GetString, Stream
  <2>3. CASE ~Room(n)
    BY <1>7, <2>3 DEF GetString, n, Stream, TypeOK
  <2> QED
    BY <2>2, <2>3
<1>8. ASSUME Handled PROVE TypeOK'
  <2>1. \A n \in Word : Target(n) \in 0..max
    BY <1>1, WordType DEF Target
  <2>2. Add(string.begin, string.size) \in Word
    BY AddType DEF TypeOK
  <2>3. pos' \in 0..max
    <3> DEFINE end == Add(string.begin, string.size)
    <3>1. pos' = pos \/ pos' = Target(end)
      BY <1>8 DEF Handled
    <3> HIDE DEF end
    <3>2. end \in Word => Target(end) \in 0..max
      BY <2>1
    <3> QED
      BY <1>1, <2>2, <3>1, <3>2 DEF end
  <2>4. None \in [begin: Word, size: Word, start: Word, on: BOOLEAN] /\ ~None.on
    BY WordType DEF None
  <2> QED
    BY <1>8, <2>3, <2>4 DEF Handled, Stream, TypeOK
<1>9. CASE UNCHANGED vars
  BY <1>9 DEF vars, TypeOK
<1> QED
  BY <1>3, <1>4, <1>5, <1>6, <1>7, <1>8, <1>9 DEF Next

LEMMA InitType == Init => TypeOK
BY WordType DEF Init, TypeOK, None, Word

\* No sequence of calls takes the position of a stream out of its buffer, whatever
\* the width of its words, and a string is read from the stream's position on.
THEOREM TypeCorrect == Spec => []TypeOK
BY InitType, TypeNext, PTL DEF Spec

\* aloof_stream_seek_cur goes where it says or nowhere: the tests that adjustOffset
\* makes of sums that wrap are those of the sums themselves.
THEOREM SeekCorrect == Spec => SeekExact
<1>1. ASSUME TypeOK, NEW o \in Int32, SeekCur(o)
      PROVE  pos' = IF pos + o \in 0..max THEN pos + o ELSE pos
  <2> DEFINE moved == Add(pos, Unsigned(o))
  <2>1. pos \in Nat /\ max \in Nat /\ pos <= max /\ max < 2 * Half /\ o \in Int
        /\ o < Half /\ -Half <= o /\ Half \in Nat
    BY <1>1, WordType, HalfAssumption DEF TypeOK, Word, Int32
  <2>2. CASE o > 0
    <3>1. Unsigned(o) = o /\ ~(o < 0)
      BY <2>1, <2>2 DEF Unsigned
    <3>2. pos + o <= max => moved = pos + o
      BY <2>1, <2>2, <3>1 DEF Add, Word
    <3>3. ~(pos + o <= max) => ~(moved > pos /\ moved <= max)
      BY <2>1, <2>2, <3>1 DEF Add, Word
    <3> HIDE DEF moved
    <3>4. Adjusted(o) = IF moved > pos /\ moved <= max THEN moved ELSE pos
      BY <2>2, <3>1 DEF Adjusted, moved
    <3>5. moved \in Int \/ ~(pos + o <= max)
      BY <2>1, <3>2
    <3> QED
      BY <1>1, <2>1, <2>2, <3>2, <3>3, <3>4 DEF SeekCur
  <2>3. CASE o < 0
    <3>1. Unsigned(o) = o + 2 * Half /\ ~(o > 0)
      BY <2>1, <2>3 DEF Unsigned
    <3>2. pos + o >= 0 => moved = pos + o
      BY <2>1, <2>3, <3>1 DEF Add, Word
    <3>3. ~(pos + o >= 0) => ~(moved < pos)
      BY <2>1, <2>3, <3>1 DEF Add, Word
    <3> HIDE DEF moved
    <3>4. Adjusted(o) = IF moved < pos THEN moved ELSE pos
      BY <2>3, <3>1 DEF Adjusted, moved
    <3> QED
      BY <1>1, <2>1, <2>3, <3>2, <3>3, <3>4 DEF SeekCur
  <2>4. CASE o = 0
    <3>1. Adjusted(o) = pos
      BY <2>4 DEF Adjusted
    <3> QED
      BY <1>1, <2>1, <2>4, <3>1 DEF SeekCur
  <2> QED
    BY <2>1, <2>2, <2>3, <2>4
<1>2. TypeOK /\ [Next]_vars
        => [\A o \in Int32 :
              SeekCur(o) => pos' = IF pos + o \in 0..max THEN pos + o ELSE pos]_vars
  BY <1>1
<1> QED
  BY <1>2, TypeCorrect, PTL DEF Spec, SeekExact

\* aloof_data_get_string, asked once, gives bytes of the string alone, and all of
\* them if there is room for them and they are there.
THEOREM OneCallCorrect == Spec => OneCallExact
<1>1. ASSUME TypeOK, NEW m \in Word, GetString(m), got.calls = 0,
             got.bytes = 0, string.begin = pos
      PROVE  /\ got'.bytes <= string.size /\ got'.bytes <= m
             /\ m >= string.size /\ string.begin + string.size <= max
                  => got'.bytes = string.size
  <2> DEFINE n == Chunk(m)
  <2>1. /\ n \in Word /\ n <= m /\ n <= string.size
        /\ pos + string.size <= max => n = IF string.size <= m THEN string.size ELSE m
    BY <1>1, ChunkType DEF GetString
  <2>2. string.size \in Nat /\ m \in Nat /\ n \in Nat /\ pos \in Nat /\ max \in Nat
    BY <1>1, <2>1, WordType DEF TypeOK, Word
  <2> HIDE DEF n
  <2>3. CASE Room(n)
    <3>1. got'.bytes = n
      BY <1>1, <2>2, <2>3 DEF GetString, n
    <3> QED
      BY <1>1, <2>1, <2>2, <3>1
  <2>4. CASE ~Room(n)
    <3>1. got'.bytes = 0
      BY <1>1, <2>4 DEF GetString, n, TypeOK
    <3>2. ~(pos + n <= max)
      BY <1>1, <2>1, <2>4, RoomMeans
    <3> QED
      BY <1>1, <2>1, <2>2, <3>1, <3>2
  <2> QED
    BY <2>3, <2>4
<1> DEFINE First == string.on /\ got.calls = 0 => got.bytes = 0 /\ string.begin = pos
<1>2. Init => First
  BY DEF Init, None
<1>3. TypeOK /\ First /\ [Next]_vars => First'
  <2> SUFFICES ASSUME TypeOK, First, [Next]_vars PROVE First'
    OBVIOUS
  <2>1. ASSUME Idle PROVE First'
    BY <2>1 DEF Idle
  <2>2. ASSUME NEW n \in Word, HandString(n) PROVE First'
    BY <2>2 DEF HandString
  <2>3. ASSUME NEW m \in Word, GetString(m) PROVE First'
    <3>1. got'.calls = got.calls + 1 /\ got.calls \in Nat
      BY <2>3 DEF GetString, TypeOK
    <3> QED
      BY <3>1
  <2>4. ASSUME Handled PROVE First'
    BY <2>4 DEF Handled, None
  <2>5. CASE UNCHANGED vars
    BY <2>5 DEF vars
  <2> QED
    BY <2>1, <2>2, <2>3, <2>4, <2>5 DEF Next, Read, Write, SeekSet, SeekCur
<1>4. TypeOK /\ First /\ [Next]_vars
        => [\A m \in Word :
              LET first == string.begin
                  size  == string.size
              IN  GetString(m) /\ got.calls = 0 =>
                    /\ got'.bytes <= size /\ got'.bytes <= m
                    /\ m >= size /\ first + size <= max => got'.bytes = size]_vars
  BY <1>1 DEF GetString
<1> QED
  BY <1>2, <1>3, <1>4, TypeCorrect, PTL DEF Spec, OneCallExact

\* After a write handler has read a string that is in the buffer, in whatever pieces,
\* aloof_server_process goes on where it ends.
THEOREM RewindCorrect == Spec => RewindExact
<1>1. ASSUME TypeOK, Handled, string.begin + string.size <= max
      PROVE  pos' = string.begin + string.size
  <2> DEFINE end == Add(string.begin, string.size)
  <2>1. string.begin \in Nat /\ string.size \in Nat /\ max \in Word
        /\ max \in Nat /\ max < 2 * Half
    BY <1>1, WordType DEF TypeOK
  <2>2. string.begin + string.size \in Word
    BY <1>1, <2>1, HalfAssumption DEF Word
  <2>3. end = string.begin + string.size
    BY <2>2 DEF Add
  <2>4. pos' = IF pos # end THEN Target(end) ELSE pos
    BY <1>1 DEF Handled
  <2> HIDE DEF end
  <2>5. Target(end) = end
    BY <1>1, <2>1, <2>3 DEF Target
  <2> QED
    BY <2>3, <2>4, <2>5
<1>2. TypeOK /\ [Next]_vars
        => [Handled /\ string.begin + string.size <= max
              => pos' = string.begin + string.size]_vars
  BY <1>1
<1> QED
  BY <1>2, TypeCorrect, PTL DEF Spec, RewindExact
=============================================================================
