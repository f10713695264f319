---------------------- MODULE AloofTimeoutQueue_proofs ----------------------
(***************************************************************************)
(* What TLAPS proves of the timeout queue for any number of threads and    *)
(* objects and any limit: every invariant the runs check, and that it      *)
(* implements AloofQueue.                                                  *)
(*                                                                         *)
(* The argument for NoLostWakeup.  A thread that sleeps is on the list of  *)
(* the condition variable.  While that list is not empty, each object put  *)
(* in takes one thread off it, which is then awake and not on the list     *)
(* (Signalled); and a signalled thread that takes the mutex takes an       *)
(* object, if there is one left.  Objects taken by other threads, or       *)
(* deleted, only help.  A thread goes on the list when the queue is empty. *)
(***************************************************************************)
EXTENDS AloofTimeoutQueue, FiniteSetTheorems, TLAPS

\* A thread sleeps on the condition variable's list and is in @waiting; all on
\* that list are in pop.
ListsInv ==
    /\ \A t \in Threads : pc[t] = "asleep" => t \in waitq
    /\ \A t \in waitq : Inside(t)

CountInv == waitq # {} => Len(items) <= Cardinality(Signalled) + lost

\* What a pop knows while it waits.
PopInv ==
    \A t \in Threads :
        /\ result[t] = "none" <=> Inside(t)
        /\ late[t] => mode[t] = "timed" /\ Inside(t)

IInv ==
    /\ TypeOK
    /\ ListsInv
    /\ CountInv
    /\ PopInv
    /\ WaitingExact
    /\ CloseWakesAll

\* What is left of a sequence when one element is taken out of it.
LEMMA SeqWithout ==
  ASSUME NEW S, NEW s \in Seq(S), NEW i \in 1..Len(s)
  PROVE  /\ SubSeq(s, 1, i - 1) \o SubSeq(s, i + 1, Len(s)) \in Seq(S)
         /\ Len(SubSeq(s, 1, i - 1) \o SubSeq(s, i + 1, Len(s))) = Len(s) - 1
<1> DEFINE a == SubSeq(s, 1, i - 1)
           b == SubSeq(s, i + 1, Len(s))
<1>1. a \in Seq(S) /\ Len(a) = i - 1
  OBVIOUS
<1>2. b \in Seq(S) /\ Len(b) = Len(s) - i
  OBVIOUS
<1> HIDE DEF a, b
<1>3. a \o b \in Seq(S) /\ Len(a \o b) = Len(s) - 1
  BY <1>1, <1>2
<1> QED
  BY <1>3 DEF a, b

\* A sequence without its head.
LEMMA SeqTail ==
  ASSUME NEW S, NEW s \in Seq(S), s # <<>>
  PROVE  /\ Head(s) \in S /\ Tail(s) \in Seq(S)
         /\ Len(Tail(s)) = Len(s) - 1 /\ Len(s) \in Nat
  OBVIOUS

\* A sequence with one element more, at either end.
LEMMA SeqWith ==
  ASSUME NEW S, NEW s \in Seq(S), NEW x \in S
  PROVE  /\ Append(s, x) \in Seq(S) /\ Len(Append(s, x)) = Len(s) + 1
         /\ <<x>> \o s \in Seq(S) /\ Len(<<x>> \o s) = Len(s) + 1
  OBVIOUS

\* The signalled threads can be counted, one more or one less.
LEMMA Counting ==
  ASSUME TypeOK
  PROVE  /\ IsFiniteSet(Signalled) /\ Cardinality(Signalled) \in Nat
         /\ \A w : w \notin Signalled =>
              Cardinality(Signalled \cup {w}) = Cardinality(Signalled) + 1
         /\ \A w \in Signalled :
              Cardinality(Signalled \ {w}) = Cardinality(Signalled) - 1
<1>1. IsFiniteSet(Signalled)
  BY ThreadsAssumption, FS_Subset DEF Signalled
<1> QED
  BY <1>1, FS_CardinalityType, FS_AddElement, FS_RemoveElement

-----------------------------------------------------------------------------
LEMMA InitInv == Init => IInv
<1> SUFFICES ASSUME Init PROVE IInv
  OBVIOUS
<1>1. TypeOK
  <2>1. items \in Seq(Items) /\ Len(items) <= Max
    BY LimitAssumption DEF Init
  <2>2. interrupts \in 0..MaxInterrupts /\ lost \in 0..interrupts
    BY LimitAssumption DEF Init
  <2> QED
    BY <2>1, <2>2 DEF Init, TypeOK, Modes
<1>2. ListsInv /\ CountInv /\ WaitingExact /\ CloseWakesAll
  BY DEF Init, ListsInv, CountInv, WaitingExact, CloseWakesAll, Inside
<1>3. PopInv
  BY DEF Init, PopInv, Inside
<1> QED
  BY <1>1, <1>2, <1>3 DEF IInv

\* What a pop does when its loop is over.
LEMMA FinishInv ==
  ASSUME IInv, NEW t \in Threads, pc[t] \in {"out", "awake"}, Finish(t),
         UNCHANGED <<closed, put, history>>
  PROVE  IInv'
<1>1. TypeOK /\ Len(items) \in Nat
  BY DEF IInv, TypeOK
<1>2. /\ items' \in Seq(Items) /\ Len(items') <= Max /\ Len(items') <= Len(items)
      /\ items # <<>> => Len(items') = Len(items) - 1
      /\ items = <<>> => Len(items') = 0
      /\ result' \in [Threads -> Items \cup {"none", "ClosedQueueError", "ThreadError",
                                             "Interrupt"}]
      /\ result'[t] # "none" /\ \A u \in Threads \ {t} : result'[u] = result[u]
      /\ mode' = [mode EXCEPT ![t] = "nonblock"] /\ late' = [late EXCEPT ![t] = FALSE]
  <2>1. CASE items = <<>>
    BY <1>1, <2>1, LimitAssumption DEF Finish, Return, TypeOK
  <2>2. CASE items # <<>>
    <3>1. items' = Tail(items) /\ Return(t, Head(items))
      BY <2>2 DEF Finish
    <3> QED
      BY <1>1, <2>2, <3>1, SeqTail, ItemsAssumption, LimitAssumption DEF Return, TypeOK
  <2> QED
    BY <2>1, <2>2
<1>3. /\ pc' = [pc EXCEPT ![t] = "out"] /\ waiting' = waiting \ {t}
      /\ waitq' = waitq \ {t}
      /\ closed' = closed /\ put' = put /\ interrupts' = interrupts /\ lost' = lost
  BY DEF Finish, history
<1>4. TypeOK'
  BY <1>1, <1>2, <1>3 DEF TypeOK, Modes
<1>5. ListsInv' /\ WaitingExact'
  BY <1>1, <1>3 DEF IInv, ListsInv, WaitingExact, Inside, TypeOK
<1>6. PopInv'
  BY <1>1, <1>2, <1>3 DEF IInv, PopInv, Inside, TypeOK
<1>7. CloseWakesAll'
  BY <1>1, <1>3 DEF IInv, CloseWakesAll, Dead, Asleep, TypeOK
<1>8. CountInv'
  <2>1. Signalled' = Signalled \ {t}
    BY <1>1, <1>3 DEF Signalled, TypeOK
  <2>2. waitq' # {} => Len(items) <= Cardinality(Signalled) + lost
    BY <1>3 DEF IInv, CountInv
  <2>3. CASE t \in Signalled
    <3>1. Cardinality(Signalled') = Cardinality(Signalled) - 1
      BY <1>1, <2>1, <2>3, Counting
    <3>2. Cardinality(Signalled) \in Nat /\ Cardinality(Signalled') \in Nat
      BY <1>1, <1>4, Counting, <2>1, FS_Subset, FS_CardinalityType
    <3>3. lost \in Nat /\ lost' = lost
      BY <1>1, <1>3, LimitAssumption DEF TypeOK
    <3> QED
      BY <1>1, <1>2, <2>2, <3>1, <3>2, <3>3 DEF CountInv
  <2>4. CASE t \notin Signalled
    <3>1. Signalled' = Signalled
      BY <2>1, <2>4
    <3>2. Cardinality(Signalled) \in Nat /\ lost \in Nat /\ lost' = lost
          /\ Len(items') \in Nat
      BY <1>1, <1>2, <1>3, Counting, LimitAssumption DEF TypeOK
    <3> QED
      BY <1>1, <1>2, <2>2, <3>1, <3>2 DEF CountInv
  <2> QED
    BY <2>3, <2>4
<1> QED
  BY <1>4, <1>5, <1>6, <1>7, <1>8 DEF IInv

\* What a pop does when it has to wait: the queue is empty and not closed.
LEMMA SleepInv ==
  ASSUME IInv, NEW t \in Threads, NEW m \in {"forever", "timed"},
         pc[t] \in {"out", "awake"}, items = <<>>, ~closed, Sleep(t, m),
         late[t] => m = "timed", UNCHANGED <<closed, put, history>>
  PROVE  IInv'
<1>1. TypeOK
  BY DEF IInv
<1>2. /\ pc' = [pc EXCEPT ![t] = "asleep"] /\ waiting' = waiting \cup {t}
      /\ waitq' = waitq \cup {t} /\ mode' = [mode EXCEPT ![t] = m]
      /\ result' = [result EXCEPT ![t] = "none"] /\ items' = items /\ late' = late
      /\ closed' = closed /\ put' = put /\ interrupts' = interrupts /\ lost' = lost
  BY DEF Sleep, history
<1>3. TypeOK'
  BY <1>1, <1>2 DEF TypeOK, Modes
<1>4. ListsInv' /\ WaitingExact'
  BY <1>1, <1>2 DEF IInv, ListsInv, WaitingExact, Inside, TypeOK
<1>5. PopInv'
  BY <1>1, <1>2 DEF IInv, PopInv, Inside, TypeOK
<1>6. CloseWakesAll'
  BY <1>2 DEF CloseWakesAll
<1>7. CountInv'
  <2>1. Cardinality(Signalled') \in Nat
    BY <1>3, ThreadsAssumption, FS_Subset, FS_CardinalityType DEF Signalled
  <2>2. Len(items') = 0 /\ lost' \in Nat
    BY <1>2, <1>3, LimitAssumption DEF TypeOK
  <2> QED
    BY <2>1, <2>2 DEF CountInv
<1> QED
  BY <1>3, <1>4, <1>5, <1>6, <1>7 DEF IInv

-----------------------------------------------------------------------------
(* One lemma for each kind of action. *)

LEMMA EnterStep ==
  ASSUME IInv, NEW t \in Threads, NEW x \in Items, NEW s \in Seq(Items),
         Len(s) = Len(items) + 1, Enter(t, x, s)
  PROVE  IInv'
<1>1. TypeOK /\ Len(items) \in Nat
  BY DEF IInv, TypeOK
<1>2. /\ closed' = closed /\ waiting' = waiting /\ mode' = mode /\ late' = late
      /\ result' = result /\ interrupts' = interrupts /\ lost' = lost
      /\ put' = put \cup {x}
  BY DEF Enter, history
<1>3. CASE UNCHANGED <<items, waitq, pc>>
  <2>1. TypeOK'
    BY <1>1, <1>2, <1>3 DEF TypeOK
  <2>2. ListsInv' /\ PopInv' /\ WaitingExact' /\ CloseWakesAll'
    BY <1>2, <1>3 DEF IInv, ListsInv, PopInv, WaitingExact, CloseWakesAll, Inside,
       Dead, Asleep
  <2>3. CountInv'
    BY <1>2, <1>3 DEF IInv, CountInv, Signalled
  <2> QED
    BY <2>1, <2>2, <2>3 DEF IInv
<1>4. CASE items' = s /\ Signal /\ ~closed /\ Len(items) # Max
  <2>1. Len(items') = Len(items) + 1 /\ Len(items') <= Max
    BY <1>1, <1>4, LimitAssumption DEF TypeOK
  <2>2. CASE waitq = {} /\ UNCHANGED <<waitq, pc>>
    <3>1. TypeOK'
      BY <1>1, <1>2, <1>4, <2>1, <2>2 DEF TypeOK
    <3>2. ListsInv' /\ PopInv' /\ WaitingExact' /\ CloseWakesAll' /\ CountInv'
      BY <1>2, <2>2 DEF IInv, ListsInv, PopInv, WaitingExact, CloseWakesAll, Inside,
         Dead, Asleep, CountInv
    <3> QED
      BY <3>1, <3>2 DEF IInv
  <2>3. CASE \E w \in waitq : waitq' = waitq \ {w} /\ pc' = [pc EXCEPT ![w] = "awake"]
    <3>1. PICK w \in waitq : waitq' = waitq \ {w} /\ pc' = [pc EXCEPT ![w] = "awake"]
      BY <2>3
    <3>2. w \in Threads /\ Inside(w)
      BY <1>1, <3>1 DEF TypeOK, IInv, ListsInv
    <3>3. TypeOK'
      BY <1>1, <1>2, <1>4, <2>1, <3>1, <3>2 DEF TypeOK
    <3>4. ListsInv' /\ WaitingExact'
      BY <1>1, <1>2, <3>1, <3>2 DEF IInv, ListsInv, WaitingExact, Inside, TypeOK
    <3>5. PopInv'
      BY <1>1, <1>2, <3>1, <3>2 DEF IInv, PopInv, Inside, TypeOK
    <3>6. CloseWakesAll'
      BY <1>2, <1>4 DEF CloseWakesAll
    <3>7. CountInv'
      <4>1. Signalled' = Signalled \cup {w} /\ w \notin Signalled
        BY <1>1, <3>1, <3>2 DEF Signalled, TypeOK
      <4>2. Cardinality(Signalled') = Cardinality(Signalled) + 1
            /\ Cardinality(Signalled) \in Nat
        BY <1>1, <4>1, Counting
      <4>3. Len(items) <= Cardinality(Signalled) + lost
        BY <3>1 DEF IInv, CountInv
      <4>4. lost \in Nat /\ lost' = lost
        BY <1>1, <1>2, LimitAssumption DEF TypeOK
      <4> QED
        BY <1>1, <2>1, <4>2, <4>3, <4>4 DEF CountInv
    <3> QED
      BY <3>3, <3>4, <3>5, <3>6, <3>7 DEF IInv
  <2> QED
    BY <1>4, <2>2, <2>3 DEF Signal
<1> QED
  BY <1>3, <1>4 DEF Enter

\* delete and clear.
LEMMA RemoveStep ==
  ASSUME IInv, items' \in Seq(Items), Len(items') <= Len(items),
         UNCHANGED <<closed, waits, result, put, history>>
  PROVE  IInv'
<1>1. TypeOK /\ Len(items) \in Nat /\ Len(items') \in Nat
  BY DEF IInv, TypeOK
<1>2. TypeOK'
  BY <1>1, LimitAssumption DEF TypeOK, waits, history
<1>3. ListsInv' /\ PopInv' /\ WaitingExact' /\ CloseWakesAll'
  BY DEF IInv, ListsInv, PopInv, WaitingExact, CloseWakesAll, Inside, Dead, Asleep,
     waits, history
<1>4. CountInv'
  <2>1. Signalled' = Signalled /\ lost' = lost /\ waitq' = waitq
    BY DEF Signalled, waits, history
  <2>2. Cardinality(Signalled) \in Nat /\ lost \in Nat
    BY <1>1, Counting, LimitAssumption DEF TypeOK
  <2> QED
    BY <1>1, <2>1, <2>2 DEF IInv, CountInv
<1> QED
  BY <1>2, <1>3, <1>4 DEF IInv

LEMMA DeleteStep ==
  ASSUME IInv, NEW t \in Threads, NEW x \in Items, Delete(t, x)
  PROVE  IInv'
<1>1. items \in Seq(Items) /\ Len(items) \in Nat
  BY DEF IInv, TypeOK
<1>2. items' \in Seq(Items) /\ Len(items') <= Len(items)
  <2>1. CASE UNCHANGED items
    BY <1>1, <2>1
  <2>2. ASSUME NEW i \in 1..Len(items),
               items' = SubSeq(items, 1, i - 1) \o SubSeq(items, i + 1, Len(items))
        PROVE  items' \in Seq(Items) /\ Len(items') <= Len(items)
    <3>1. items' \in Seq(Items) /\ Len(items') = Len(items) - 1
      BY <1>1, <2>2, SeqWithout
    <3> QED
      BY <1>1, <3>1
  <2> QED
    BY <2>1, <2>2 DEF Delete
<1> QED
  BY <1>2, RemoveStep DEF Delete

LEMMA ClearStep ==
  ASSUME IInv, NEW t \in Threads, Clear(t)
  PROVE  IInv'
<1>1. items' \in Seq(Items) /\ Len(items') <= Len(items)
  BY DEF IInv, TypeOK, Clear
<1> QED
  BY <1>1, RemoveStep DEF Clear

LEMMA PopStep ==
  ASSUME IInv, NEW t \in Threads, NEW m \in Modes, NEW over \in BOOLEAN, Pop(t, m, over)
  PROVE  IInv'
<1>1. CASE Finish(t)
  BY <1>1, FinishInv DEF Pop
<1>2. CASE ~Stops(m, over) /\ Sleep(t, m)
  <2>1. m \in {"forever", "timed"} /\ items = <<>> /\ ~closed
    BY <1>2 DEF Stops, Modes
  <2>2. ~late[t]
    BY DEF IInv, PopInv, Inside, Pop
  <2> QED
    BY <1>2, <2>1, <2>2, SleepInv DEF Pop
<1> QED
  BY <1>1, <1>2 DEF Pop

LEMMA ResumeStep ==
  ASSUME IInv, NEW t \in Threads, Resume(t)
  PROVE  IInv'
<1>1. CASE Finish(t)
  BY <1>1, FinishInv DEF Resume
<1>2. CASE ~Stops(mode[t], late[t]) /\ Sleep(t, mode[t])
  <2>1. mode[t] \in {"forever", "timed"} /\ items = <<>> /\ ~closed /\ ~late[t]
    BY <1>2 DEF IInv, TypeOK, Stops, Modes
  <2> QED
    BY <1>2, <2>1, SleepInv DEF Resume
<1> QED
  BY <1>1, <1>2 DEF Resume

\* A thread in wait wakes by itself, late or not.
LEMMA WakeStep ==
  ASSUME IInv, NEW t \in Threads, TimeUp(t) \/ WakeUp(t)
  PROVE  IInv'
<1>1. TypeOK /\ Inside(t)
  BY DEF IInv, TimeUp, WakeUp, Inside
<1>2. /\ pc' = [pc EXCEPT ![t] = "awake"]
      /\ items' = items /\ closed' = closed /\ waiting' = waiting /\ waitq' = waitq
      /\ mode' = mode /\ result' = result /\ put' = put /\ interrupts' = interrupts
      /\ lost' = lost
      /\ late' = late \/ (late' = [late EXCEPT ![t] = TRUE] /\ mode[t] = "timed")
  BY DEF TimeUp, WakeUp, history
<1>3. TypeOK'
  BY <1>1, <1>2 DEF TypeOK
<1>4. ListsInv' /\ WaitingExact'
  BY <1>1, <1>2 DEF IInv, ListsInv, WaitingExact, Inside, TypeOK
<1>5. PopInv'
  BY <1>1, <1>2 DEF IInv, PopInv, Inside, TypeOK
<1>6. CloseWakesAll'
  BY <1>1, <1>2 DEF IInv, CloseWakesAll, Dead, Asleep, TypeOK, Inside
<1>7. CountInv'
  <2>1. Signalled' = Signalled
    BY <1>1, <1>2 DEF Signalled, TypeOK, IInv, ListsInv, Inside
  <2> QED
    BY <1>2, <2>1 DEF IInv, CountInv
<1> QED
  BY <1>3, <1>4, <1>5, <1>6, <1>7 DEF IInv

LEMMA InterruptStep ==
  ASSUME IInv, NEW t \in Threads, Interrupt(t)
  PROVE  IInv'
<1>1. TypeOK /\ Inside(t)
  BY DEF IInv, Interrupt
<1>2. PICK where \in {"out", "dead"} : pc' = [pc EXCEPT ![t] = where]
  BY DEF Interrupt
<1>3. /\ items' = items /\ closed' = closed /\ waiting' = waiting /\ put' = put
      /\ waitq' = waitq \ {t} /\ interrupts' = interrupts + 1
      /\ result' = [result EXCEPT ![t] = "Interrupt"]
      /\ mode' = [mode EXCEPT ![t] = "nonblock"] /\ late' = [late EXCEPT ![t] = FALSE]
  BY DEF Interrupt, Return
<1>4. lost' = (IF t \in Signalled THEN lost + 1 ELSE lost) /\ lost \in Nat
  BY <1>1, LimitAssumption DEF Interrupt, Signalled, TypeOK
<1>5. TypeOK'
  <2>1. interrupts' \in 0..MaxInterrupts /\ lost' \in 0..interrupts'
    BY <1>1, <1>3, <1>4, LimitAssumption DEF TypeOK, Interrupt
  <2> QED
    BY <1>1, <1>2, <1>3, <2>1 DEF TypeOK, Modes
<1>6. ListsInv' /\ WaitingExact'
  <2>1. interrupts' # 0
    BY <1>1, <1>3, LimitAssumption DEF TypeOK
  <2> QED
    BY <1>1, <1>2, <1>3, <2>1 DEF IInv, ListsInv, WaitingExact, Inside, TypeOK
<1>7. PopInv'
  BY <1>1, <1>2, <1>3 DEF IInv, PopInv, Inside, TypeOK
<1>8. CloseWakesAll'
  BY <1>1, <1>2, <1>3 DEF IInv, CloseWakesAll, Dead, Asleep, TypeOK, Inside
<1>9. CountInv'
  <2>1. Signalled' = Signalled \ {t}
    BY <1>1, <1>2, <1>3 DEF Signalled, TypeOK
  <2>2. waitq' # {} => Len(items) <= Cardinality(Signalled) + lost
    BY <1>3 DEF IInv, CountInv
  <2>3. Cardinality(Signalled) \in Nat /\ Len(items) \in Nat
    BY <1>1, Counting DEF TypeOK
  <2>4. CASE t \in Signalled
    <3>1. Cardinality(Signalled') = Cardinality(Signalled) - 1
      BY <1>1, <2>1, <2>4, Counting
    <3> QED
      BY <1>3, <1>4, <2>2, <2>3, <2>4, <3>1 DEF CountInv
  <2>5. CASE t \notin Signalled
    <3>1. Signalled' = Signalled
      BY <2>1, <2>5
    <3> QED
      BY <1>3, <1>4, <2>2, <2>3, <2>5, <3>1 DEF CountInv
  <2> QED
    BY <2>4, <2>5
<1> QED
  BY <1>5, <1>6, <1>7, <1>8, <1>9 DEF IInv

LEMMA CloseStep ==
  ASSUME IInv, NEW t \in Threads, Close(t)
  PROVE  IInv'
<1>1. TypeOK
  BY DEF IInv
<1>2. PICK woken \in SUBSET waiting :
        /\ waiting \cap Dead = {} => woken = waiting
        /\ pc' = [u \in Threads |->
                    IF u \in woken /\ pc[u] = "asleep" THEN "awake" ELSE pc[u]]
  BY DEF Close
<1>3. /\ items' = items /\ closed' = TRUE /\ waiting' = waiting /\ waitq' = waitq
      /\ mode' = mode /\ late' = late /\ result' = result /\ put' = put
      /\ interrupts' = interrupts /\ lost' = lost
  BY DEF Close, history
<1>4. \A u \in Threads : /\ Inside(u)' <=> Inside(u)
                         /\ pc'[u] = "asleep" => pc[u] = "asleep" /\ u \notin woken
                         /\ pc'[u] = "dead" <=> pc[u] = "dead"
                         /\ pc'[u] = "awake" => pc[u] \in {"asleep", "awake"}
                         /\ pc[u] = "awake" => pc'[u] = "awake"
  BY <1>1, <1>2 DEF Inside, TypeOK
<1>5. TypeOK'
  BY <1>1, <1>2, <1>3 DEF TypeOK
<1>6. ListsInv' /\ WaitingExact' /\ PopInv'
  BY <1>1, <1>3, <1>4 DEF IInv, ListsInv, WaitingExact, PopInv, TypeOK
<1>7. CloseWakesAll'
  <2>1. Dead' = Dead
    BY <1>4 DEF Dead
  <2>2. \A u \in Threads : pc[u] = "asleep" => u \in waiting
    BY DEF IInv, WaitingExact, Inside
  <2> QED
    BY <1>2, <1>3, <1>4, <2>1, <2>2 DEF CloseWakesAll, Asleep
<1>8. CountInv'
  <2>1. Signalled' = Signalled
    BY <1>3, <1>4 DEF Signalled, IInv, ListsInv
  <2> QED
    BY <1>3, <2>1 DEF IInv, CountInv
<1> QED
  BY <1>5, <1>6, <1>7, <1>8 DEF IInv

LEMMA NextInv == IInv /\ [Next]_vars => IInv'
<1> SUFFICES ASSUME IInv, [Next]_vars PROVE IInv'
  OBVIOUS
<1>1. ASSUME NEW t \in Threads, NEW x \in Items, Push(t, x) \/ Unshift(t, x)
      PROVE  IInv'
  <2>1. items \in Seq(Items)
    BY DEF IInv, TypeOK
  <2> QED
    BY <1>1, <2>1, SeqWith, EnterStep DEF Push, Unshift
<1>2. CASE UNCHANGED vars
  <2>1. TypeOK' /\ ListsInv' /\ PopInv' /\ WaitingExact' /\ CloseWakesAll' /\ CountInv'
    BY <1>2 DEF IInv, TypeOK, ListsInv, PopInv, WaitingExact, CloseWakesAll, CountInv,
       Inside, Dead, Asleep, Signalled, vars, history, waits
  <2> QED
    BY <2>1 DEF IInv
<1> QED
  BY <1>1, <1>2, DeleteStep, ClearStep, PopStep, ResumeStep, WakeStep, InterruptStep,
     CloseStep DEF Next

LEMMA Invariance == Spec => []IInv
  BY InitInv, NextInv, PTL DEF Spec

-----------------------------------------------------------------------------
\* Every variable of the queue holds what the code may store in it.
THEOREM TypeCorrect == Spec => []TypeOK
<1>1. IInv => TypeOK
  BY DEF IInv
<1> QED
  BY Invariance, <1>1, PTL

\* No push is lost on a sleeping thread: each object in the queue has a thread
\* that a signal has woken for it.
THEOREM WakeupsCorrect == Spec => []NoLostWakeup
<1>1. IInv => NoLostWakeup
  BY DEF IInv, ListsInv, CountInv, NoLostWakeup, Asleep
<1> QED
  BY Invariance, <1>1, PTL

\* close leaves no thread asleep, unless it met a dead one.
THEOREM CloseCorrect == Spec => []CloseWakesAll
<1>1. IInv => CloseWakesAll
  BY DEF IInv
<1> QED
  BY Invariance, <1>1, PTL

\* num_waiting counts the threads in pop.
THEOREM WaitingCorrect == Spec => []WaitingExact
<1>1. IInv => WaitingExact
  BY DEF IInv
<1> QED
  BY Invariance, <1>1, PTL

-----------------------------------------------------------------------------
(* The refinement. *)

\* A pop that ends, at once or after waits, is one step of AloofQueue.
LEMMA FinishImplements ==
  ASSUME NEW t \in Threads, NEW m, Finish(t), UNCHANGED <<closed, put, history>>,
         items # <<>> \/ closed \/ m # "forever"
  PROVE  Queue!End(t, m)
  BY DEF Finish, Return, Queue!End, Queue!Return

\* The threads cannot tell the monitor from a queue whose operations happen at
\* once: each step is one of AloofQueue's or changes nothing there.
THEOREM Implements == Spec => QueueKept
<1>1. Init => Queue!Init
  BY DEF Init, Queue!Init
<1>2. IInv /\ [Next]_vars => [Queue!Next]_Queue!vars
  <2> SUFFICES ASSUME IInv, [Next]_vars PROVE Queue!Next \/ UNCHANGED Queue!vars
    OBVIOUS
  <2>1. ASSUME NEW t \in Threads, NEW x \in Items, Push(t, x) \/ Unshift(t, x)
        PROVE  Queue!Next
    <3>1. Queue!Put(x)
      BY <2>1 DEF Push, Unshift, Enter, Queue!Put
    <3> QED
      BY <3>1 DEF Queue!Next
  <2>2. ASSUME NEW t \in Threads, NEW x \in Items, Delete(t, x)
        PROVE  Queue!Next \/ UNCHANGED Queue!vars
    BY <2>2 DEF Delete, waits, Queue!Next, Queue!Remove, Queue!vars
  <2>3. ASSUME NEW t \in Threads, Clear(t) PROVE Queue!Next
    BY <2>3 DEF Clear, waits, Queue!Next, Queue!Remove
  <2>4. ASSUME NEW t \in Threads, NEW m \in Modes, NEW over \in BOOLEAN, Pop(t, m, over)
        PROVE  Queue!Next
    <3>1. result[t] # "none"
      BY <2>4 DEF Pop, IInv, PopInv, Inside
    <3>2. CASE Stops(m, over) /\ Finish(t)
      <4>1. items # <<>> \/ closed \/ m # "forever"
        BY <2>4, <3>2 DEF Pop, Stops
      <4>2. Queue!End(t, m)
        BY <2>4, <3>2, <4>1, FinishImplements DEF Pop
      <4> QED
        BY <3>1, <4>2 DEF Queue!Next, Queue!Modes, Modes
    <3>3. CASE ~Stops(m, over) /\ Sleep(t, m)
      <4>1. m \in {"forever", "timed"} /\ Queue!Ask(t, m)
        BY <2>4, <3>3 DEF Pop, Stops, Sleep, Modes, Queue!Ask
      <4> QED
        BY <3>1, <4>1 DEF Queue!Next
    <3> QED
      BY <2>4, <3>2, <3>3 DEF Pop
  <2>5. ASSUME NEW t \in Threads, Resume(t) PROVE Queue!Next \/ UNCHANGED Queue!vars
    <3>2. CASE Stops(mode[t], late[t]) /\ Finish(t)
      <4>1. items # <<>> \/ closed \/ mode[t] # "forever"
        BY <3>2 DEF Stops, IInv, PopInv
      <4>2. Queue!End(t, mode[t])
        BY <2>5, <3>2, <4>1, FinishImplements DEF Resume
      <4>3. result[t] = "none"
        BY <2>5 DEF Resume, IInv, PopInv, Inside
      <4> QED
        BY <4>2, <4>3 DEF Queue!Next
    <3>3. CASE Sleep(t, mode[t])
      <4>1. result[t] = "none"
        BY <2>5 DEF Resume, IInv, PopInv, Inside
      <4> QED
        BY <2>5, <3>3, <4>1 DEF Resume, Sleep, Queue!vars, IInv, TypeOK
    <3> QED
      BY <2>5, <3>2, <3>3 DEF Resume
  <2>6. ASSUME NEW t \in Threads, TimeUp(t) \/ WakeUp(t) PROVE UNCHANGED Queue!vars
    BY <2>6 DEF TimeUp, WakeUp, Queue!vars
  <2>7. ASSUME NEW t \in Threads, Interrupt(t) PROVE Queue!Next
    <3>1. result[t] = "none"
      BY <2>7 DEF Interrupt, IInv, PopInv
    <3> QED
      BY <2>7, <3>1 DEF Interrupt, Return, Queue!Next, Queue!Interrupt, Queue!Return
  <2>8. ASSUME NEW t \in Threads, Close(t) PROVE Queue!Next
    BY <2>8 DEF Close, Queue!Next, Queue!Close
  <2>9. CASE UNCHANGED vars
    BY <2>9 DEF vars, Queue!vars
  <2> QED
    BY <2>1, <2>2, <2>3, <2>4, <2>5, <2>6, <2>7, <2>8, <2>9 DEF Next
<1> QED
  BY <1>1, <1>2, Invariance, PTL DEF Spec, QueueKept, Queue!Spec
=============================================================================
