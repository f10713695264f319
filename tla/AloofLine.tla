----------------------------- MODULE AloofLine -----------------------------
(***************************************************************************)
(* What a transport promises: messages arrive in the order they were sent  *)
(* and none twice.  While nothing has harmed the line none is left out     *)
(* either; after that some may be, and without a checksum anything may     *)
(* arrive.                                                                 *)
(***************************************************************************)
EXTENDS Naturals, Sequences

CONSTANT Messages

VARIABLES
    checked,    \* whether messages have a checksum
    harmed,     \* whether the line has lost, made or changed a byte
    flight,     \* messages sent that may still arrive
    delivered   \* messages that arrived

vars == <<checked, harmed, flight, delivered>>

Init ==
    /\ checked \in BOOLEAN
    /\ harmed \in BOOLEAN
    /\ flight = <<>>
    /\ delivered = <<>>

Send(m) ==
    /\ flight' = Append(flight, m)
    /\ UNCHANGED delivered

\* The i-th message arrives; those before it are lost.
Deliver(i) ==
    /\ i = 1 \/ harmed'
    /\ delivered' = Append(delivered, flight[i])
    /\ flight' = SubSeq(flight, i + 1, Len(flight))

Garble ==
    /\ harmed' /\ ~checked
    /\ delivered' # <<>>
    /\ delivered' = Append(delivered, delivered'[Len(delivered')])
    /\ UNCHANGED flight

Next ==
    /\ UNCHANGED checked
    /\ harmed => harmed'
    /\ \/ \E m \in Messages : Send(m)
       \/ \E i \in 1..Len(flight) : Deliver(i)
       \/ Garble
       \/ UNCHANGED <<flight, delivered>>

Spec == Init /\ [][Next]_vars
=============================================================================
