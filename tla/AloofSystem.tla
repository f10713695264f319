----------------------------- MODULE AloofSystem -----------------------------
(***************************************************************************)
(* Clients and server together: AloofClient, whose commands are served as  *)
(* AloofService says, one at a time and each at once.  What the threads    *)
(* see of the server's objects: a value is what somebody wrote, and reads  *)
(* and writes that return have happened while they were made, although     *)
(* frames are lost and responses come late.                                *)
(*                                                                         *)
(* A value names its object and the call that wrote it, so that no two are *)
(* alike: <<o, 0>> is what o holds at first.                               *)
(***************************************************************************)
EXTENDS AloofClient

CONSTANT Objects    \* the objects the threads use

ASSUME ObjectAssumption == Objects # {}

VARIABLES
    objects,    \* the server's state: the value of each object
    target,     \* the object each call is about
    answered,   \* history: the value each read was answered with
    seen        \* history: what a thread's object held since its call began

serverVars == <<objects, target, answered, seen>>
systemVars == <<vars, serverVars>>

Values == Objects \X (0..MaxCalls)

ValueOf(n) == <<target[n], n + 1>>

SystemInit ==
    /\ Init
    /\ objects = [o \in Objects |-> <<o, 0>>]
    /\ target = [n \in Calls |-> CHOOSE o \in Objects : TRUE]
    /\ answered = [n \in Calls |-> {}]
    /\ seen = [t \in Threads |-> {}]

\* read or write of an object (client.rb:124-169).
Call(t, c, o) ==
    /\ StartCall(t, c)
    /\ target' = [target EXCEPT ![invokeId] = o]
    /\ seen' = [seen EXCEPT ![t] = {objects[o]}]
    /\ UNCHANGED <<objects, answered>>

\* What is seen when the objects become new.
Watched(new) ==
    [t \in Threads |-> IF pc[t] = "idle" THEN seen[t]
                       ELSE seen[t] \cup {new[target[call[t]]]}]

\* Mutant: a write is answered before it is done, and its value is dropped.
ServeUnwritten(res) ==
    /\ Answer(res)
    /\ LET n == Head(c2s).call
       IN  answered' = [answered EXCEPT ![n] =
                          IF Head(c2s).cmd = "read" THEN {objects[target[n]]} ELSE @]
    /\ UNCHANGED <<objects, seen, target>>

\* Mutant: the value goes to another object.
ServeMisplaced(res) ==
    /\ Answer(res)
    /\ LET n   == Head(c2s).call
           new == IF Head(c2s).cmd = "write" /\ res = "success"
                    THEN [objects EXCEPT ![CHOOSE o \in Objects : o # target[n]] = ValueOf(n)]
                    ELSE objects
       IN  /\ objects' = new
           /\ seen' = Watched(new)
           /\ answered' = [answered EXCEPT ![n] =
                             IF Head(c2s).cmd = "read" THEN {objects[target[n]]} ELSE @]
    /\ UNCHANGED target

\* The server processes the next command: a handler may refuse any.
Serve(res) ==
    /\ Answer(res)
    /\ LET n   == Head(c2s).call
           new == IF Head(c2s).cmd = "write" /\ res = "success"
                    THEN [objects EXCEPT ![target[n]] = ValueOf(n)] ELSE objects
       IN  /\ objects' = new
           /\ seen' = Watched(new)
           /\ answered' = [answered EXCEPT ![n] =
                             IF Head(c2s).cmd = "read" THEN {objects[target[n]]} ELSE @]
    /\ UNCHANGED target

\* The other steps of the clients leave the server alone.
SystemNext ==
    \/ \E t \in Threads, c \in Commands, o \in Objects : Call(t, c, o)
    \/ \E res \in Results : Serve(res)
    \/ /\ \/ \E t \in Threads : ThreadStep(t)
          \/ ReaderStep
          \/ \E frame \in {Alert, Hello} : SendUnsolicited(frame)
          \/ LoseCommand \/ LoseFrame \/ LeaveStale
          \/ CloseStep
       /\ UNCHANGED serverVars

SystemSpec == SystemInit /\ [][SystemNext]_systemVars

FairSystem == SystemSpec /\ Fairness

-----------------------------------------------------------------------------
(* Properties. *)

\* Every object holds its first value or one that was written to it, and no
\* other object's.
SystemTypeOK ==
    /\ objects \in [Objects -> Values]
    /\ \A o \in Objects : objects[o][1] = o
    /\ target \in [Calls -> Objects]
    /\ answered \in [Calls -> SUBSET Values]
    /\ seen \in [Threads -> SUBSET Values]

\* A response that a call of t ends with, unless it is that of a call that was
\* given the same seven bits while this one waited (client_id_wrap).
Ended(t) ==
    /\ pc[t] = "idle"
    /\ popped[t] # Nil
    /\ popped[t].call < call[t] + IdMod

\* sweep_test.rb:42-105: a read returns the object's value.  The value it
\* returns (client.rb:143) is one the object had between the moment read was
\* called and the moment it returned: never that of another object, and never
\* an older one out of a response that came late.
ReadsCurrent ==
    \A t \in Threads :
        Ended(t) /\ outcome[t] = "value" =>
            \E v \in seen[t] : answered[popped[t].call] = {v}

\* A write that the server answers with success has happened, and happened
\* while it was made, though write (client.rb:162-169) does not look at the
\* result of the response it gets.
WritesHappened ==
    \A t \in Threads :
        Ended(t) /\ outcome[t] = "done" /\ popped[t].result = "success"
            => ValueOf(call[t]) \in seen[t]
=============================================================================
