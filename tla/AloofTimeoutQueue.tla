-------------------------- MODULE AloofTimeoutQueue --------------------------
(***************************************************************************)
(* Aloof::TimeoutQueue (lib/aloof/timeout_queue.rb): a monitor of a mutex, *)
(* a condition variable and the list @waiting, which only close uses.      *)
(*                                                                         *)
(* A step is what a thread does from taking the mutex to giving it up, be  *)
(* it by returning or by waiting; waiting gives it up and sleeps at once.  *)
(* A thread that was woken has to take the mutex again, which is a step of *)
(* its own: any thread may come in between.  What MRI does is external:    *)
(* signal takes one thread off the condition variable's list and wakes it, *)
(* also when it had woken by itself; one that woke by itself stays on the  *)
(* list until it has the mutex.                                            *)
(*                                                                         *)
(* The two lists are sets: which waiter a signal wakes does not matter to  *)
(* any property.  Each object is put in once.                              *)
(***************************************************************************)
EXTENDS Naturals, Sequences, FiniteSets

CONSTANTS
    Threads,
    Items,          \* the objects that may be put in
    Max,            \* @max; one without limit has Max above the number of Items
    MaxInterrupts   \* bound: waits that end by Thread#raise

ASSUME ThreadsAssumption == IsFiniteSet(Threads)
ASSUME ItemsAssumption == "none" \notin Items
ASSUME LimitAssumption == Max \in Nat /\ MaxInterrupts \in Nat

Modes == {"forever", "timed", "nonblock"}

VARIABLES
    items,      \* @queue
    closed,     \* @closed
    waiting,    \* @waiting
    waitq,      \* the threads on the list of @received
    pc,         \* of each thread: "out", "asleep" in wait, "awake", or "dead"
    mode,       \* of the pop each thread is in: non_block, timeout or neither
    late,       \* whether its end_time has passed
    result,     \* what its last pop returned or raised: "none" while in it
    put,        \* history: the objects that were ever put in
    interrupts, \* history: how many waits were interrupted ...
    lost        \* ... and how many signals were lost with them

vars == <<items, closed, waiting, waitq, pc, mode, late, result, put,
          interrupts, lost>>

history == <<interrupts, lost>>
waits   == <<waiting, waitq, pc, mode, late>>

Inside(t) == pc[t] \in {"asleep", "awake"}
Dead      == {t \in Threads : pc[t] = "dead"}

Init ==
    /\ items = <<>>
    /\ closed = FALSE
    /\ waiting = {}
    /\ waitq = {}
    /\ pc = [t \in Threads |-> "out"]
    /\ mode = [t \in Threads |-> "nonblock"]
    /\ late = [t \in Threads |-> FALSE]
    /\ result = [t \in Threads |-> "ThreadError"]
    /\ put = {}
    /\ interrupts = 0
    /\ lost = 0

\* pop returns r, or raises it.
Return(t, r) ==
    /\ result' = [result EXCEPT ![t] = r]
    /\ mode' = [mode EXCEPT ![t] = "nonblock"]
    /\ late' = [late EXCEPT ![t] = FALSE]

-----------------------------------------------------------------------------
(* push, unshift, delete, clear. *)

\* Mutant: one signal for a queue that was empty, none for one that was not.
SignalWhenEmpty ==
    IF items # <<>> THEN UNCHANGED <<waitq, pc>>
    ELSE \/ waitq = {} /\ UNCHANGED <<waitq, pc>>
         \/ \E w \in waitq : /\ waitq' = waitq \ {w}
                             /\ pc' = [pc EXCEPT ![w] = "awake"]

\* @received.signal.
Signal ==
    \/ waitq = {} /\ UNCHANGED <<waitq, pc>>
    \/ \E w \in waitq : /\ waitq' = waitq \ {w}
                        /\ pc' = [pc EXCEPT ![w] = "awake"]

\* Mutant: the size is tested only after the object is in.
EnterOver(t, x, s) ==
    /\ pc[t] = "out"
    /\ x \notin put
    /\ put' = put \cup {x}
    /\ IF closed \/ Len(items) > Max
         THEN UNCHANGED <<items, waitq, pc>>
         ELSE items' = s /\ Signal
    /\ UNCHANGED <<closed, waiting, mode, late, result, history>>

\* __push, which puts x in to make s; a queue that is closed or full stays as
\* it is.
Enter(t, x, s) ==
    /\ pc[t] = "out"
    /\ x \notin put
    /\ put' = put \cup {x}
    /\ IF closed \/ Len(items) = Max
         THEN UNCHANGED <<items, waitq, pc>>
         ELSE items' = s /\ Signal
    /\ UNCHANGED <<closed, waiting, mode, late, result, history>>

Push(t, x)    == Enter(t, x, Append(items, x))
Unshift(t, x) == Enter(t, x, <<x>> \o items)

Delete(t, x) ==
    /\ pc[t] = "out"
    /\ \/ \E i \in 1..Len(items) :
            /\ items[i] = x
            /\ items' = SubSeq(items, 1, i - 1) \o SubSeq(items, i + 1, Len(items))
       \/ /\ \A i \in 1..Len(items) : items[i] # x
          /\ UNCHANGED items
    /\ UNCHANGED <<closed, waits, result, put, history>>

Clear(t) ==
    /\ pc[t] = "out"
    /\ items' = <<>>
    /\ UNCHANGED <<closed, waits, result, put, history>>

-----------------------------------------------------------------------------
(* pop. *)

\* Mutant: pop raises before it has left @waiting.
FinishListed(t) ==
    /\ pc' = [pc EXCEPT ![t] = "out"]
    /\ waiting' = IF items = <<>> THEN waiting \cup {t} ELSE waiting \ {t}
    /\ waitq' = waitq \ {t}
    /\ \/ /\ items = <<>>
          /\ Return(t, IF closed THEN "ClosedQueueError" ELSE "ThreadError")
          /\ UNCHANGED items
       \/ /\ items # <<>>
          /\ Return(t, Head(items))
          /\ items' = Tail(items)

\* What follows the loop.
Finish(t) ==
    /\ pc' = [pc EXCEPT ![t] = "out"]
    /\ waiting' = waiting \ {t}
    /\ waitq' = waitq \ {t}
    /\ \/ /\ items = <<>>
          /\ Return(t, IF closed THEN "ClosedQueueError" ELSE "ThreadError")
          /\ UNCHANGED items
       \/ /\ items # <<>>
          /\ Return(t, Head(items))
          /\ items' = Tail(items)

\* @received.wait(@mutex), in a pop that may wait as m says.
Sleep(t, m) ==
    /\ pc' = [pc EXCEPT ![t] = "asleep"]
    /\ waiting' = waiting \cup {t}
    /\ waitq' = waitq \cup {t}
    /\ mode' = [mode EXCEPT ![t] = m]
    /\ result' = [result EXCEPT ![t] = "none"]
    /\ UNCHANGED <<items, late>>

\* Mutant: the loop does not look at @closed.
StopsUnlessClosed(m, over) == items # <<>> \/ m = "nonblock" \/ over

\* The conditions that end the loop, when it is over for a timed pop.
Stops(m, over) == items # <<>> \/ closed \/ m = "nonblock" \/ over

\* A timed pop may find its time over before it has waited.
Pop(t, m, over) ==
    /\ pc[t] = "out"
    /\ over => m = "timed"
    /\ \/ Stops(m, over) /\ Finish(t)
       \/ ~Stops(m, over) /\ Sleep(t, m)
    /\ UNCHANGED <<closed, put, history>>

\* Mutant: "if" in place of "while".
ResumeOnce(t) ==
    /\ pc[t] = "awake"
    /\ Finish(t)
    /\ UNCHANGED <<closed, put, history>>

\* wait returns with the mutex, and the loop goes on.
Resume(t) ==
    /\ pc[t] = "awake"
    /\ \/ Stops(mode[t], late[t]) /\ Finish(t)
       \/ ~Stops(mode[t], late[t]) /\ Sleep(t, mode[t])
    /\ UNCHANGED <<closed, put, history>>

\* Mutant: wait is not given what is left of the time.
TimeUpUnheard(t) ==
    /\ Inside(t) /\ mode[t] = "timed" /\ ~late[t]
    /\ late' = [late EXCEPT ![t] = TRUE]
    /\ UNCHANGED <<items, closed, waiting, waitq, pc, mode, result, put, history>>

TimeUp(t) ==
    /\ Inside(t) /\ mode[t] = "timed" /\ ~late[t]
    /\ late' = [late EXCEPT ![t] = TRUE]
    /\ pc' = [pc EXCEPT ![t] = "awake"]
    /\ UNCHANGED <<items, closed, waiting, waitq, mode, result, put, history>>

\* A sleep may end for no reason.
WakeUp(t) ==
    /\ pc[t] = "asleep"
    /\ pc' = [pc EXCEPT ![t] = "awake"]
    /\ UNCHANGED <<items, closed, waiting, waitq, mode, late, result, put, history>>

\* Thread#raise, as Tcp#close does to a reader whose callback waits here.  The
\* exception leaves pop from within wait: @waiting keeps the thread, and the
\* signal it may have been given is lost.  It may end the thread.
Interrupt(t) ==
    /\ Inside(t)
    /\ interrupts < MaxInterrupts
    /\ interrupts' = interrupts + 1
    /\ lost' = IF pc[t] = "awake" /\ t \notin waitq THEN lost + 1 ELSE lost
    /\ waitq' = waitq \ {t}
    /\ \E where \in {"out", "dead"} : pc' = [pc EXCEPT ![t] = where]
    /\ Return(t, "Interrupt")
    /\ UNCHANGED <<items, closed, waiting, put>>

-----------------------------------------------------------------------------
(* close. *)

\* wakeup raises ThreadError at the first dead thread of @waiting, and the
\* threads behind it are not woken.
Close(t) ==
    /\ pc[t] = "out"
    /\ ~closed
    /\ closed' = TRUE
    /\ \E woken \in SUBSET waiting :
         /\ IF waiting \cap Dead = {} THEN woken = waiting ELSE woken \cap Dead = {}
         /\ pc' = [u \in Threads |->
                     IF u \in woken /\ pc[u] = "asleep" THEN "awake" ELSE pc[u]]
    /\ UNCHANGED <<items, waiting, waitq, mode, late, result, put, history>>

-----------------------------------------------------------------------------
Next ==
    \/ \E t \in Threads, x \in Items : Push(t, x)
    \/ \E t \in Threads, x \in Items : Unshift(t, x)
    \/ \E t \in Threads, x \in Items : Delete(t, x)
    \/ \E t \in Threads : Clear(t)
    \/ \E t \in Threads, m \in Modes, over \in BOOLEAN : Pop(t, m, over)
    \/ \E t \in Threads : Resume(t)
    \/ \E t \in Threads : TimeUp(t)
    \/ \E t \in Threads : WakeUp(t)
    \/ \E t \in Threads : Interrupt(t)
    \/ \E t \in Threads : Close(t)

Spec == Init /\ [][Next]_vars

\* A thread that was woken gets the mutex, and time passes.  Nothing makes a
\* thread call the queue.
FairSpec ==
    /\ Spec
    /\ \A t \in Threads : WF_vars(Resume(t)) /\ WF_vars(TimeUp(t))

-----------------------------------------------------------------------------
(* Properties. *)

\* Every variable holds what the code may store in it.
TypeOK ==
    /\ items \in Seq(Items) /\ Len(items) <= Max
    /\ closed \in BOOLEAN
    /\ waiting \subseteq Threads
    /\ waitq \subseteq Threads
    /\ pc \in [Threads -> {"out", "asleep", "awake", "dead"}]
    /\ mode \in [Threads -> Modes]
    /\ late \in [Threads -> BOOLEAN]
    /\ result \in [Threads -> Items \cup {"none", "ClosedQueueError", "ThreadError",
                                          "Interrupt"}]
    /\ put \subseteq Items
    /\ interrupts \in 0..MaxInterrupts
    /\ lost \in 0..interrupts

Asleep    == {t \in Threads : pc[t] = "asleep"}
Signalled == {t \in Threads : pc[t] = "awake"} \ waitq

\* While a thread sleeps, every object in the queue has a thread on its way to
\* fetch it, woken by a signal of its own: no push is lost on a sleeper, but for
\* the signals that an exception took away.
NoLostWakeup == Asleep # {} => Len(items) <= Cardinality(Signalled) + lost

\* Nobody sleeps on a closed queue, whenever the threads began to wait, unless
\* close itself broke off at a dead thread.
CloseWakesAll == closed /\ waiting \cap Dead = {} => Asleep = {}

\* num_waiting counts the threads in pop, and no other once each pop has ended,
\* by an object or an exception; only an interrupted one is counted for good.
WaitingExact ==
    /\ \A t \in Threads : Inside(t) => t \in waiting
    /\ interrupts = 0 => \A t \in waiting : Inside(t)

Queue == INSTANCE AloofQueue

\* The threads see a queue whose operations happen at once (AloofQueue).
QueueKept == Queue!Spec

\* A timed pop ends, however often it is woken for nothing.
TimedPopsEnd == \A t \in Threads : Inside(t) /\ mode[t] = "timed" ~> ~Inside(t)

\* Every pop ends when the queue is closed.
CloseEndsPops ==
    \A t \in Threads : closed /\ waiting \cap Dead = {} ~> ~Inside(t)

\* What is put in while threads wait is taken out, or they stop waiting.
WaitersServed ==
    (items # <<>> /\ Asleep # {}) ~> (items = <<>> \/ Asleep = {} \/ lost > 0)
=============================================================================
