----------------------------- MODULE AloofService -----------------------------
(***************************************************************************)
(* What a server promises: it serves the requests in order, each at once.  *)
(* A read is answered with the object's value, a write happens and is      *)
(* answered with success or does not happen and is answered with failure,  *)
(* an unconfirmed request is not answered, and nothing but a write changes *)
(* an object.  Alerts stand among the answers in the order they were sent. *)
(***************************************************************************)
EXTENDS AloofMessages

CONSTANTS
    Objects,    \* the objects, and their values at first
    Capacity,   \* the longest string an object holds
    Batches,    \* sequences of requests that may arrive together
    Alerts      \* alerts that may be sent

VARIABLES
    writable,   \* whether objects can be written
    room,       \* whether there is room for an answer, whatever it is
    objects,    \* the values of the objects
    requests,   \* the requests that were not served yet
    replies     \* the answers and alerts since the last batch arrived

vars == <<writable, room, objects, requests, replies>>

Init ==
    /\ writable \in BOOLEAN
    /\ room \in BOOLEAN
    /\ objects = Objects
    /\ requests = <<>>
    /\ replies = <<>>

\* Strings and blobs are not told apart.
Alike(ty, uy) == ty = uy \/ {ty, uy} \subseteq StringTags

Accepts(oid, v) ==
    /\ writable
    /\ oid \in DOMAIN objects
    /\ v.type = objects[oid].type
    /\ Len(v.body) <= Capacity \/ v.type \notin StringTags

\* An answer is left out only when there may be no room for it.
Send(r) == \/ replies' = Append(replies, r)
           \/ ~room /\ UNCHANGED replies

Answer(field, r) == IF Confirmed(field) THEN Send(r) ELSE UNCHANGED replies

Refuse(q) ==
    \E why \in Reasons :
        Answer(q.field, Reply(q.kind, q.field % 128, 1 + why, NoValue))

Ask(batch) ==
    /\ requests = <<>>
    /\ requests' = batch
    /\ replies' = <<>>
    /\ UNCHANGED objects

ServeRead(q) ==
    /\ q.kind = "read"
    /\ UNCHANGED objects
    /\ IF q.oid \in DOMAIN objects
         THEN \E ty \in 0..13 :
                /\ Alike(ty, objects[q.oid].type)
                /\ Answer(q.field, Reply("read", q.field % 128, 0,
                                         [objects[q.oid] EXCEPT !.type = ty]))
         ELSE Refuse(q)

ServeWrite(q) ==
    /\ q.kind = "write"
    /\ IF Accepts(q.oid, q.value)
         THEN /\ objects' = [objects EXCEPT ![q.oid] = q.value]
              /\ Answer(q.field, Reply("write", q.field % 128, 0, NoValue))
         ELSE /\ UNCHANGED objects
              /\ Refuse(q)

ServeHello(q) ==
    /\ q.kind = "hello"
    /\ UNCHANGED objects
    /\ Send(Reply("hello", 1, 0, NoValue))

\* What is no request may be refused under its invoke id; nothing else comes of
\* it.
ServeOther(q) ==
    /\ q.kind = "other"
    /\ UNCHANGED objects
    /\ \/ UNCHANGED replies
       \/ \E why \in Reasons :
            /\ Len(q.bytes) > 1
            /\ Send(Reply("write", q.bytes[2] % 128, 1 + why, NoValue))

Serve ==
    /\ requests # <<>>
    /\ requests' = Tail(requests)
    /\ LET q == Head(requests)
       IN  ServeRead(q) \/ ServeWrite(q) \/ ServeHello(q) \/ ServeOther(q)

Inform(a) ==
    /\ \E ty \in 0..13 :
         /\ Alike(ty, a.value.type)
         /\ Send(Reply("alert", a.aid, 0, [a.value EXCEPT !.type = ty]))
    /\ UNCHANGED <<objects, requests>>

Next ==
    /\ room' \in BOOLEAN
    /\ UNCHANGED writable
    /\ \/ \E b \in Batches : Ask(b)
       \/ Serve
       \/ \E a \in Alerts : Inform(a)

Spec == Init /\ [][Next]_vars
=============================================================================
