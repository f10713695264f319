----------------------------- MODULE AloofQueue -----------------------------
(***************************************************************************)
(* What a TimeoutQueue promises the threads that share it: every operation *)
(* happens at once.  Objects come out in order and each once; pop gives up *)
(* on an empty queue only, with ClosedQueueError when the queue is closed, *)
(* and otherwise with ThreadError, which one that may wait for ever does   *)
(* not raise.                                                              *)
(***************************************************************************)
EXTENDS Naturals, Sequences

CONSTANTS
    Threads,
    Items,      \* the objects that may be put in, each once
    Max         \* objects the queue holds

Modes == {"forever", "timed", "nonblock"}

VARIABLES
    items,      \* what is in the queue
    put,        \* what was ever put in
    closed,
    mode,       \* how long the pop that each thread is in may wait
    result      \* what its last pop returned or raised: "none" while in it

vars == <<items, put, closed, mode, result>>

Init ==
    /\ items = <<>>
    /\ put = {}
    /\ closed = FALSE
    /\ mode = [t \in Threads |-> "nonblock"]
    /\ result = [t \in Threads |-> "ThreadError"]

Return(t, r) ==
    /\ result' = [result EXCEPT ![t] = r]
    /\ mode' = [mode EXCEPT ![t] = "nonblock"]

\* A queue that is closed refuses the object; one that is full drops it.
Put(x) ==
    /\ x \notin put
    /\ put' = put \cup {x}
    /\ IF closed \/ Len(items) = Max
         THEN UNCHANGED items
         ELSE items' \in {Append(items, x), <<x>> \o items}
    /\ UNCHANGED <<closed, mode, result>>

\* A pop that has to wait.
Ask(t, m) ==
    /\ items = <<>> /\ ~closed
    /\ mode' = [mode EXCEPT ![t] = m]
    /\ result' = [result EXCEPT ![t] = "none"]
    /\ UNCHANGED <<items, put, closed>>

\* A pop ends that may wait as m says.
End(t, m) ==
    /\ \/ /\ items # <<>>
          /\ Return(t, Head(items))
          /\ items' = Tail(items)
       \/ /\ items = <<>>
          /\ closed \/ m # "forever"
          /\ Return(t, IF closed THEN "ClosedQueueError" ELSE "ThreadError")
          /\ UNCHANGED items
    /\ UNCHANGED <<put, closed>>

Remove ==
    /\ \/ \E i \in 1..Len(items) :
            items' = SubSeq(items, 1, i - 1) \o SubSeq(items, i + 1, Len(items))
       \/ items' = <<>>
    /\ UNCHANGED <<put, closed, mode, result>>

Close ==
    /\ closed' = TRUE
    /\ UNCHANGED <<items, put, mode, result>>

Interrupt(t) ==
    /\ result[t] = "none"
    /\ Return(t, "Interrupt")
    /\ UNCHANGED <<items, put, closed>>

Next ==
    \/ \E x \in Items : Put(x)
    \/ \E t \in Threads :
         \/ \E m \in {"forever", "timed"} : result[t] # "none" /\ Ask(t, m)
         \/ \E m \in Modes : result[t] # "none" /\ End(t, m)
         \/ result[t] = "none" /\ End(t, mode[t])
         \/ Interrupt(t)
    \/ Remove
    \/ Close

Spec == Init /\ [][Next]_vars
=============================================================================
