-------------------------- MODULE AloofSystem_proofs --------------------------
(***************************************************************************)
(* What TLAPS proves of the client, and of clients and server together,    *)
(* for any number of threads, calls, invoke ids and objects, on both       *)
(* transports.                                                             *)
(*                                                                         *)
(* The client.  A frame belongs to a call that was started, has that       *)
(* call's command and carries its id (Owned).  The reader pushes a         *)
(* response on the queue named by its id, because @pending maps every id   *)
(* to the call of that number (PendingTracksCalls).  So whatever a queue   *)
(* holds has the id that is the queue's own number: it answers the call of *)
(* that number, or one that is IdMod calls later (WireIdNext).             *)
(*                                                                         *)
(* The system.  The composition is a behaviour of AloofClient, so that     *)
(* IInv holds in it.  A response that is anywhere on its way (Carried) is  *)
(* true of the call it belongs to, while a thread is in that call          *)
(* (Truthful): it was made when the server served the command, the thread  *)
(* was in its call by then, and saw what the object held (SeenInv).  The   *)
(* server serves a command once (OnceInv), so what is recorded of an       *)
(* answer does not change.  By OwnResponse the response a call ends with   *)
(* is its own, or that of a call past the wrap.                            *)
(***************************************************************************)
EXTENDS AloofSystem, TLAPS

-----------------------------------------------------------------------------
(* The client. *)

InCall(t) == pc[t] # "idle"

\* r, a frame or a response, belongs to a call that was started and, if a
\* thread is still in that call, carries that thread's command.
Owned(r) ==
    /\ r.call < invokeId
    /\ r.id = WireId(r.call)
    /\ \A t \in Threads : InCall(t) /\ call[t] = r.call => r.cmd = cmd[t]

\* Calls in progress have numbers of their own, all handed out.
CallsInv ==
    /\ \A t \in Threads : InCall(t) => call[t] < invokeId
    /\ \A t, u \in Threads :
         InCall(t) /\ InCall(u) /\ call[t] = call[u] => t = u

WireInv ==
    /\ \A i \in 1..Len(c2s) : Owned(c2s[i])
    /\ \A i \in 1..Len(s2c) : s2c[i].kind = "response" => Owned(s2c[i])

\* A queue holds responses that carry its own id; so does the reader's next
\* push.
QueueInv ==
    /\ \A n \in Calls : \A i \in 1..Len(queue[n]) :
         Owned(queue[n][i]) /\ queue[n][i].id = n
    /\ rxAt = "push" => Owned(rxFrame) /\ rxFrame.id = rxJob

\* A call that has not registered has no response on the way to its queue;
\* one that waits has every response that was pushed for it.
DeliveredInv ==
    /\ \A n \in delivered : n < invokeId
    /\ invokeId <= IdMod =>
         \A t \in Threads : pc[t] \in {"tx", "register"} =>
           /\ call[t] \notin delivered
           /\ rxAt = "push" => rxFrame.call # call[t]

\* While the reader thread is in a call of its own, it pushes nothing.
ReaderInv ==
    /\ InCall(Reader) => rxAt = "alert"
    /\ pc[Reader] \in {"tx", "register", "wait"} => queue[call[Reader]] = <<>>

\* PendingTracksCalls, element by element.
PendingInv ==
    /\ \A n : n \in DOMAIN pending
               <=> n \in broken \/ \E t \in Threads : Registered(t) /\ call[t] = n
    /\ \A k \in DOMAIN pending : pending[k] = k

\* A call that close broke off is nobody's any more.
BrokenInv ==
    \A n \in broken :
        n < invokeId /\ \A t \in Threads : InCall(t) => call[t] # n

IInv ==
    /\ TypeOK
    /\ CallsInv
    /\ BrokenInv
    /\ PendingInv
    /\ WireInv
    /\ QueueInv
    /\ OwnResponse
    /\ DeliveredInv
    /\ DeliveredIsQueued
    /\ ReaderInv
    /\ ReaderCannotAnswerItself

\* An id on the wire is a number no larger than the call's, and is the call's
\* own number until the ids wrap (Command#encode).
LEMMA WireIdNat ==
  \A n \in Nat : /\ WireId(n) \in Nat
                 /\ WireId(n) <= n
                 /\ n < IdMod => WireId(n) = n
  BY IdModAssumption DEF WireId

\* The next call with the same id on the wire is IdMod calls later.
LEMMA WireIdNext ==
  ASSUME NEW n \in Nat
  PROVE  WireId(n) = n \/ n >= WireId(n) + IdMod
<1> DEFINE q == n \div IdMod
<1>1. n = IdMod * q + WireId(n) /\ q \in Nat /\ WireId(n) \in Nat
  BY IdModAssumption DEF WireId
<1>2. CASE q = 0
  BY <1>1, <1>2, IdModAssumption
<1>3. CASE q # 0
  <2> HIDE DEF q
  <2>1. PICK k \in Nat : q = k + 1
    BY <1>1, <1>3
  <2>2. IdMod * q = IdMod * k + IdMod /\ IdMod * k \in Nat
    BY <2>1, IdModAssumption
  <2> QED
    BY <1>1, <2>2, IdModAssumption
<1> QED
  BY <1>2, <1>3

\* What is left of a sequence when its head is taken.
LEMMA TailElements ==
  ASSUME NEW S, NEW s \in Seq(S), s # <<>>
  PROVE  /\ Tail(s) \in Seq(S)
         /\ Head(s) = s[1] /\ 1 \in 1..Len(s)
         /\ \A i \in 1..Len(Tail(s)) : i + 1 \in 1..Len(s) /\ Tail(s)[i] = s[i + 1]
  OBVIOUS

\* What is left when the first k elements are taken.
LEMMA Rest ==
  ASSUME NEW S, NEW s \in Seq(S), NEW k \in 0..Len(s)
  PROVE  /\ SubSeq(s, k + 1, Len(s)) \in Seq(S)
         /\ Len(SubSeq(s, k + 1, Len(s))) = Len(s) - k
         /\ \A i \in 1..Len(SubSeq(s, k + 1, Len(s))) :
              i + k \in 1..Len(s) /\ SubSeq(s, k + 1, Len(s))[i] = s[i + k]
  OBVIOUS

\* What is in a sequence when an element is appended.
LEMMA AppendElements ==
  ASSUME NEW S, NEW s \in Seq(S), NEW e \in S
  PROVE  /\ Append(s, e) \in Seq(S)
         /\ Append(s, e) # <<>>
         /\ \A i \in 1..Len(Append(s, e)) :
              \/ i \in 1..Len(s) /\ Append(s, e)[i] = s[i]
              \/ i = Len(s) + 1 /\ Append(s, e)[i] = e
  OBVIOUS

\* The fields of a response and of a command frame.
LEMMA FrameFields ==
  \A r \in Response \cup CommandFrame :
    r.call \in Nat /\ r.id \in Nat /\ r.cmd \in Commands
  BY DEF Response, CommandFrame

\* TypeOK, in the form the steps below need it.
LEMMA Typing ==
  ASSUME TypeOK
  PROVE  /\ Reader \in Threads /\ MaxCalls \in Nat
         /\ invokeId \in Nat /\ invokeId <= MaxCalls
         /\ \A t \in Threads : call[t] \in Nat
         /\ delivered \subseteq Nat
         /\ \A i \in 1..Len(c2s) : c2s[i] \in CommandFrame
         /\ \A i \in 1..Len(s2c) :
              s2c[i].kind = "response" => s2c[i] \in Response
         /\ \A n \in Calls : /\ queue[n] \in Seq(Response)
                             /\ \A i \in 1..Len(queue[n]) : queue[n][i] \in Response
         /\ rxAt = "push" => rxFrame \in Response /\ rxJob \in Calls
<1>1. \A i \in 1..Len(s2c) : s2c[i] \in Frame
  BY DEF TypeOK
<1>2. \A f \in Frame : f.kind = "response" => f \in Response
  BY DEF Frame, Alert, Hello
<1>3. \A n \in Calls : /\ queue[n] \in Seq(Response)
                      /\ \A i \in 1..Len(queue[n]) : queue[n][i] \in Response
  BY DEF TypeOK
<1>4. /\ \A t \in Threads : call[t] \in Nat
      /\ \A i \in 1..Len(c2s) : c2s[i] \in CommandFrame
      /\ rxAt = "push" => rxFrame \in Response /\ rxJob \in Calls
  BY DEF TypeOK
<1>5. Reader \in Threads /\ MaxCalls \in Nat /\ invokeId \in Nat
      /\ invokeId <= MaxCalls /\ delivered \subseteq Nat
  BY BoundAssumption DEF TypeOK, Threads, Calls
<1> QED
  BY <1>1, <1>2, <1>3, <1>4, <1>5

\* A call that has not been started has nothing in its queue.
LEMMA FreshQueue ==
  ASSUME IInv, invokeId < MaxCalls
  PROVE  queue[invokeId] = <<>>
<1>1. TypeOK /\ QueueInv
  BY DEF IInv
<1>2. invokeId \in Calls
  BY <1>1, Typing DEF Calls
<1> SUFFICES ASSUME queue[invokeId] # <<>> PROVE FALSE
  OBVIOUS
<1> DEFINE r == queue[invokeId][1]
<1>3. 1 \in 1..Len(queue[invokeId])
  BY <1>1, <1>2, Typing, TailElements
<1>4. r \in Response /\ Owned(r) /\ r.id = invokeId
  BY <1>1, <1>2, <1>3, Typing DEF QueueInv
<1>5. r.call \in Nat /\ r.call < invokeId /\ WireId(r.call) = invokeId
  BY <1>4, FrameFields DEF Owned
<1> QED
  BY <1>1, <1>5, Typing, WireIdNat

\* Who owns a frame does not change while no call starts (next_invoke_id).
LEMMA OwnedKept ==
  ASSUME UNCHANGED <<invokeId, call, cmd>>,
         \A t \in Threads : InCall(t)' => InCall(t),
         NEW r, Owned(r)
  PROVE  Owned(r)'
  BY DEF Owned

\* The client as Client#initialize leaves it.
LEMMA InitIInv == Init => IInv
<1> SUFFICES ASSUME Init PROVE IInv
  OBVIOUS
<1>1. TypeOK
  BY BoundAssumption, TransportAssumption
     DEF Init, TypeOK, Calls, Threads, Nil, Commands
<1>2. /\ CallsInv /\ PendingInv /\ BrokenInv /\ WireInv /\ QueueInv
      /\ DeliveredInv /\ ReaderInv
  BY ThreadAssumption DEF Init, CallsInv, PendingInv, BrokenInv, Registered, WireInv,
     QueueInv, DeliveredInv, ReaderInv, InCall, Calls, Threads
<1>3. OwnResponse /\ DeliveredIsQueued /\ ReaderCannotAnswerItself
  BY DEF Init, OwnResponse, DeliveredIsQueued,
         ReaderCannotAnswerItself, Threads, Nil
<1> QED
  BY <1>1, <1>2, <1>3 DEF IInv

\* next_invoke_id hands out a number no call, frame or queue has yet.
LEMMA StartCallStep ==
  ASSUME IInv, NEW t \in Threads, NEW c \in Commands, StartCall(t, c)
  PROVE  IInv'
<1>1. /\ invokeId' = invokeId + 1 /\ invokeId < MaxCalls
      /\ pc[t] = "idle" /\ pc'[t] = "tx"
      /\ call'[t] = invokeId /\ cmd'[t] = c
      /\ t = Reader => rxAt = "alert"
      /\ \A u \in Threads \ {t} : pc'[u] = pc[u] /\ call'[u] = call[u] /\ cmd'[u] = cmd[u]
      /\ UNCHANGED <<pending, queue, popped, rxAt, rxFrame, rxJob, delivered, dropped, c2s, s2c, unsolicited,
                     transport, socket, closes, stale, broken>>
  BY DEF IInv, TypeOK, StartCall, readerVars, wireVars, connVars
<1>t. TypeOK
  BY DEF IInv
<1>2. TypeOK'
  BY BoundAssumption DEF IInv, TypeOK, StartCall, readerVars, wireVars, connVars
<1>3. CallsInv' /\ BrokenInv'
  <2>1. CallsInv'
    BY <1>1, <1>t, Typing DEF IInv, CallsInv, InCall
  <2>2. broken \subseteq Nat /\ invokeId \in Nat
    BY <1>t, Typing DEF TypeOK, Calls
  <2>3. BrokenInv'
    BY <1>1, <2>2 DEF IInv, BrokenInv, InCall
  <2> QED
    BY <2>1, <2>3
<1>4. PendingInv'
  BY <1>1 DEF IInv, PendingInv, Registered
<1>5. \A r \in Response \cup CommandFrame : Owned(r) => Owned(r)'
  BY <1>1, <1>t, Typing, FrameFields DEF Owned, InCall
<1>6. WireInv'
  BY <1>1, <1>5, <1>t, Typing DEF IInv, WireInv
<1>7. QueueInv'
  BY <1>1, <1>5, <1>t, Typing DEF IInv, QueueInv, TypeOK
<1>8. OwnResponse'
  BY <1>1, <1>t, Typing, IdModAssumption DEF IInv, OwnResponse
<1>9. DeliveredInv'
  BY <1>1, <1>t, Typing, FrameFields, IdModAssumption DEF IInv, DeliveredInv, QueueInv, Owned
<1>10. DeliveredIsQueued'
  BY <1>1, <1>t, Typing, IdModAssumption DEF IInv, DeliveredIsQueued
<1>11. ReaderInv'
  BY <1>1, <1>t, Typing, FreshQueue DEF IInv, ReaderInv, InCall
<1>12. ReaderCannotAnswerItself'
  BY <1>1, <1>t, Typing DEF IInv, ReaderCannotAnswerItself
<1> QED
  BY <1>2, <1>3, <1>4, <1>6, <1>7, <1>8, <1>9, <1>10, <1>11, <1>12 DEF IInv

\* The frame that is sent belongs to the call in progress.
LEMMA TxStep ==
  ASSUME IInv, NEW t \in Threads, Tx(t)
  PROVE  IInv'
<1> DEFINE f == [kind |-> "command", id |-> WireId(call[t]), call |-> call[t],
                 cmd |-> cmd[t]]
<1>1. /\ pc[t] = "tx" /\ pc'[t] = "register"
      /\ \A u \in Threads \ {t} : pc'[u] = pc[u]
      /\ c2s' = Append(c2s, f)
      /\ UNCHANGED <<pending, queue, invokeId, call, cmd, popped, outcome, rxAt,
                     rxFrame, rxJob, delivered, dropped, s2c, unsolicited,
                     transport, socket, closes, stale, broken>>
  BY DEF IInv, TypeOK, Tx, readerVars, connVars
<1>2. TypeOK /\ c2s \in Seq(CommandFrame) /\ f \in CommandFrame
  BY WireIdNat DEF IInv, TypeOK, CommandFrame
<1>3. TypeOK'
  BY <1>1, <1>2, AppendElements DEF TypeOK, Tx
<1>4. CallsInv' /\ PendingInv' /\ BrokenInv'
  BY <1>1 DEF IInv, CallsInv, PendingInv, BrokenInv, InCall, Registered
<1>5. \A r : Owned(r) => Owned(r)'
  BY <1>1, OwnedKept DEF InCall
<1>6. WireInv'
  <2>1. Owned(f)
    BY <1>1, <1>2, Typing DEF Owned, IInv, CallsInv, InCall
  <2>2. \A i \in 1..Len(c2s') : Owned(c2s[i])'
    BY <1>1, <1>2, <1>5, <2>1, AppendElements DEF IInv, WireInv
  <2> QED
    BY <1>1, <1>5, <2>2 DEF IInv, WireInv
<1>7. QueueInv'
  BY <1>1, <1>5 DEF IInv, QueueInv
<1>8. OwnResponse'
  BY <1>1 DEF IInv, OwnResponse
<1>9. DeliveredInv' /\ DeliveredIsQueued'
  BY <1>1 DEF IInv, DeliveredInv, DeliveredIsQueued
<1>10. ReaderInv' /\ ReaderCannotAnswerItself'
  BY <1>1, <1>2, Typing DEF IInv, ReaderInv, ReaderCannotAnswerItself, InCall
<1> QED
  BY <1>3, <1>4, <1>6, <1>7, <1>8, <1>9, <1>10 DEF IInv

\* A call that raises before it is sent leaves nothing behind.
LEMMA TxRaiseStep ==
  ASSUME IInv, NEW t \in Threads, TxRaise(t)
  PROVE  IInv'
<1>1. /\ pc[t] = "tx" /\ pc'[t] = "idle" /\ popped'[t] = Nil
      /\ \A u \in Threads \ {t} : pc'[u] = pc[u] /\ popped'[u] = popped[u]
      /\ UNCHANGED <<pending, queue, invokeId, call, cmd, rxAt, rxFrame, rxJob,
                     delivered, dropped, c2s, s2c, unsolicited,
                     transport, socket, closes, stale, broken>>
  BY DEF IInv, TypeOK, TxRaise, readerVars, wireVars, connVars
<1>2. TypeOK /\ TypeOK'
  BY DEF IInv, TypeOK, TxRaise, readerVars, wireVars, connVars
<1>3. CallsInv' /\ PendingInv' /\ BrokenInv'
  BY <1>1 DEF IInv, CallsInv, PendingInv, BrokenInv, InCall, Registered
<1>4. \A r : Owned(r) => Owned(r)'
  BY <1>1, OwnedKept DEF InCall
<1>5. WireInv' /\ QueueInv'
  BY <1>1, <1>4 DEF IInv, WireInv, QueueInv
<1>6. OwnResponse'
  BY <1>1 DEF IInv, OwnResponse
<1>7. DeliveredInv' /\ DeliveredIsQueued'
  BY <1>1 DEF IInv, DeliveredInv, DeliveredIsQueued
<1>8. ReaderInv' /\ ReaderCannotAnswerItself'
  BY <1>1, <1>2, Typing DEF IInv, ReaderInv, ReaderCannotAnswerItself, InCall
<1> QED
  BY <1>2, <1>3, <1>5, <1>6, <1>7, <1>8 DEF IInv

\* @pending[msg.invoke_id] = q: the key is the call's own number.
LEMMA RegisterStep ==
  ASSUME IInv, NEW t \in Threads, Register(t)
  PROVE  IInv'
<1>1. /\ pc[t] = "register" /\ pc'[t] = "wait"
      /\ \A u \in Threads \ {t} : pc'[u] = pc[u]
      /\ DOMAIN pending' = DOMAIN pending \cup {call[t]}
      /\ \A k \in DOMAIN pending' :
           pending'[k] = IF k = call[t] THEN call[t] ELSE pending[k]
      /\ UNCHANGED <<queue, invokeId, call, cmd, popped, outcome, rxAt, rxFrame,
                     rxJob, delivered, dropped, c2s, s2c, unsolicited,
                     transport, socket, closes, stale, broken>>
  BY DEF IInv, TypeOK, Register, readerVars, wireVars, connVars
<1>2. TypeOK
  BY DEF IInv
<1>3. TypeOK'
  <2>1. call[t] \in Calls
    BY <1>1, <1>2, Typing DEF IInv, CallsInv, InCall, Calls
  <2>2. /\ DOMAIN pending' \subseteq Calls
        /\ \A k \in DOMAIN pending' : pending'[k] \in Calls
    BY <1>1, <1>2, <2>1 DEF TypeOK
  <2> QED
    BY <1>1, <1>2, <2>2 DEF TypeOK, Register
<1>4. CallsInv' /\ BrokenInv'
  BY <1>1 DEF IInv, CallsInv, BrokenInv, InCall
<1>5. PendingInv'
  BY <1>1 DEF IInv, PendingInv, Registered
<1>6. \A r : Owned(r) => Owned(r)'
  BY <1>1, OwnedKept DEF InCall
<1>7. WireInv' /\ QueueInv'
  BY <1>1, <1>6 DEF IInv, WireInv, QueueInv
<1>8. OwnResponse'
  BY <1>1 DEF IInv, OwnResponse
<1>9. DeliveredInv' /\ DeliveredIsQueued'
  BY <1>1 DEF IInv, DeliveredInv, DeliveredIsQueued
<1>10. ReaderInv' /\ ReaderCannotAnswerItself'
  BY <1>1, <1>2, Typing DEF IInv, ReaderInv, ReaderCannotAnswerItself, InCall
<1> QED
  BY <1>3, <1>4, <1>5, <1>7, <1>8, <1>9, <1>10 DEF IInv

\* q.pop takes a response with the call's own id.
LEMMA PopStep ==
  ASSUME IInv, NEW t \in Threads, Pop(t)
  PROVE  IInv'
<1> DEFINE n == call[t]
           r == Head(queue[n])
<1>1. TypeOK /\ n \in Calls
  BY Typing DEF IInv, CallsInv, InCall, Calls, Pop
<1>2. /\ pc[t] = "wait" /\ pc'[t] = "delete" /\ popped'[t] = r
      /\ queue[n] # <<>> /\ queue'[n] = Tail(queue[n])
      /\ \A m \in Calls \ {n} : queue'[m] = queue[m]
      /\ \A u \in Threads \ {t} : pc'[u] = pc[u] /\ popped'[u] = popped[u]
      /\ UNCHANGED <<pending, invokeId, call, cmd, outcome, rxAt, rxFrame, rxJob,
                     delivered, dropped, c2s, s2c, unsolicited,
                     transport, socket, closes, stale, broken>>
  BY <1>1 DEF TypeOK, Pop, readerVars, wireVars, connVars
<1>3. /\ queue[n] \in Seq(Response) /\ Tail(queue[n]) \in Seq(Response)
      /\ r \in Response /\ Owned(r) /\ r.id = n
  BY <1>1, <1>2, Typing, TailElements DEF IInv, QueueInv
<1>4. TypeOK'
  <2>1. queue' \in [Calls -> Seq(Response)]
    BY <1>1, <1>3 DEF TypeOK, Pop
  <2>2. popped' \in [Threads -> Response \cup {Nil}]
    BY <1>1, <1>3 DEF TypeOK, Pop
  <2> QED
    BY <1>1, <1>2, <2>1, <2>2 DEF TypeOK, Pop, Calls
<1>5. CallsInv' /\ PendingInv' /\ BrokenInv'
  BY <1>2 DEF IInv, CallsInv, PendingInv, BrokenInv, InCall, Registered
<1>6. \A x : Owned(x) => Owned(x)'
  BY <1>2, OwnedKept DEF InCall
<1>7. WireInv'
  BY <1>2, <1>6 DEF IInv, WireInv
<1>8. QueueInv'
  <2>1. \A m \in Calls : \A i \in 1..Len(queue'[m]) :
          \E j \in 1..Len(queue[m]) : queue'[m][i] = queue[m][j]
    <3>1. \A i \in 1..Len(queue'[n]) :
            i + 1 \in 1..Len(queue[n]) /\ queue'[n][i] = queue[n][i + 1]
      BY <1>2, <1>3, TailElements
    <3>2. ASSUME NEW m \in Calls, NEW i \in 1..Len(queue'[m])
          PROVE  \E j \in 1..Len(queue[m]) : queue'[m][i] = queue[m][j]
      <4>1. CASE m = n
        BY <3>1, <4>1
      <4>2. CASE m # n
        BY <1>2, <4>2
      <4> QED
        BY <4>1, <4>2
    <3> QED
      BY <3>2
  <2>2. \A m \in Calls : \A i \in 1..Len(queue'[m]) :
          Owned(queue[m][i])' /\ queue'[m][i].id = m
    BY <2>1, <1>6 DEF IInv, QueueInv
  <2> QED
    BY <1>2, <1>6, <2>2 DEF IInv, QueueInv, Calls
<1>9. OwnResponse'
  <2>1. (r.call = call[t] /\ r.cmd = cmd[t]) \/ r.call >= call[t] + IdMod
    <3>1. r.call \in Nat /\ WireId(r.call) = n
      BY <1>3, FrameFields DEF Owned
    <3>2. r.call = n \/ r.call >= n + IdMod
      BY <3>1, WireIdNext
    <3> QED
      BY <3>2, <1>2, <1>3 DEF Owned, InCall
  <2> QED
    BY <1>2, <2>1 DEF IInv, OwnResponse
<1>10. DeliveredInv'
  BY <1>2 DEF IInv, DeliveredInv
<1>11. DeliveredIsQueued'
  <2>1. \A u \in Threads \ {t} : pc[u] = "wait" => call[u] \in Calls \ {n}
    BY <1>1, <1>2, Typing DEF IInv, CallsInv, InCall, Calls
  <2> QED
    BY <1>2, <2>1 DEF IInv, DeliveredIsQueued
<1>12. ReaderInv' /\ ReaderCannotAnswerItself'
  <2>1. t # Reader
    BY <1>2 DEF IInv, ReaderInv
  <2>2. pc[Reader] \in {"tx", "register", "wait"} => call[Reader] \in Calls \ {n}
    BY <1>1, <1>2, <2>1, Typing DEF IInv, CallsInv, InCall, Calls
  <2> QED
    BY <1>1, <1>2, <2>1, <2>2, Typing
       DEF IInv, ReaderInv, ReaderCannotAnswerItself, InCall
<1> QED
  BY <1>4, <1>5, <1>7, <1>8, <1>9, <1>10, <1>11, <1>12 DEF IInv

\* rescue ThreadError: the call goes on to delete its entry.
LEMMA TimeoutStep ==
  ASSUME IInv, NEW t \in Threads, Timeout(t)
  PROVE  IInv'
<1>1. /\ pc[t] = "wait" /\ pc'[t] = "delete" /\ popped'[t] = Nil
      /\ \A u \in Threads \ {t} : pc'[u] = pc[u] /\ popped'[u] = popped[u]
      /\ UNCHANGED <<pending, queue, invokeId, call, cmd, rxAt, rxFrame, rxJob,
                     delivered, dropped, c2s, s2c, unsolicited,
                     transport, socket, closes, stale, broken>>
  BY DEF IInv, TypeOK, Timeout, readerVars, wireVars, connVars
<1>2. TypeOK /\ TypeOK'
  BY DEF IInv, TypeOK, Timeout, readerVars, wireVars, connVars
<1>3. CallsInv' /\ PendingInv' /\ BrokenInv'
  BY <1>1 DEF IInv, CallsInv, PendingInv, BrokenInv, InCall, Registered
<1>4. \A r : Owned(r) => Owned(r)'
  BY <1>1, OwnedKept DEF InCall
<1>5. WireInv' /\ QueueInv'
  BY <1>1, <1>4 DEF IInv, WireInv, QueueInv
<1>6. OwnResponse'
  BY <1>1 DEF IInv, OwnResponse
<1>7. DeliveredInv' /\ DeliveredIsQueued'
  BY <1>1 DEF IInv, DeliveredInv, DeliveredIsQueued
<1>8. ReaderInv' /\ ReaderCannotAnswerItself'
  BY <1>1, <1>2, Typing DEF IInv, ReaderInv, ReaderCannotAnswerItself, InCall
<1> QED
  BY <1>2, <1>3, <1>5, <1>6, <1>7, <1>8 DEF IInv

\* @pending.delete(msg.invoke_id) takes no other call's entry.
LEMMA DeleteStep ==
  ASSUME IInv, NEW t \in Threads, Delete(t)
  PROVE  IInv'
<1>1. /\ pc[t] = "delete" /\ pc'[t] = "idle"
      /\ \A u \in Threads \ {t} : pc'[u] = pc[u]
      /\ DOMAIN pending' = DOMAIN pending \ {call[t]}
      /\ \A k \in DOMAIN pending' : pending'[k] = pending[k]
      /\ UNCHANGED <<queue, invokeId, call, cmd, popped, rxAt, rxFrame, rxJob,
                     delivered, dropped, c2s, s2c, unsolicited,
                     transport, socket, closes, stale, broken>>
  BY DEF IInv, TypeOK, Delete, readerVars, wireVars, connVars
<1>2. TypeOK
  BY DEF IInv
<1>3. TypeOK'
  <2>1. outcome' \in [Threads -> {"none", "value", "done", "AccessError",
                                  "TimeoutError", "RuntimeError", "raised", "Interrupt"}]
    <3>1. popped[t] \in Response \cup {Nil} /\ cmd[t] \in Commands
      BY <1>2 DEF TypeOK
    <3>2. Outcome(cmd[t], popped[t]) \in {"value", "done", "AccessError",
                                          "TimeoutError", "RuntimeError"}
      BY <3>1 DEF Outcome, Commands
    <3> QED
      BY <1>2, <3>2 DEF TypeOK, Delete
  <2> QED
    BY <1>1, <1>2, <2>1 DEF TypeOK, Delete
<1>4. CallsInv' /\ BrokenInv'
  BY <1>1 DEF IInv, CallsInv, BrokenInv, InCall
<1>5. PendingInv'
  BY <1>1 DEF IInv, PendingInv, Registered, CallsInv, BrokenInv, InCall
<1>6. \A r : Owned(r) => Owned(r)'
  BY <1>1, OwnedKept DEF InCall
<1>7. WireInv' /\ QueueInv'
  BY <1>1, <1>6 DEF IInv, WireInv, QueueInv
<1>8. OwnResponse'
  BY <1>1 DEF IInv, OwnResponse
<1>9. DeliveredInv' /\ DeliveredIsQueued'
  BY <1>1 DEF IInv, DeliveredInv, DeliveredIsQueued
<1>10. ReaderInv' /\ ReaderCannotAnswerItself'
  BY <1>1, <1>2, Typing DEF IInv, ReaderInv, ReaderCannotAnswerItself, InCall
<1> QED
  BY <1>3, <1>4, <1>5, <1>7, <1>8, <1>9, <1>10 DEF IInv

-----------------------------------------------------------------------------
(* The reader. *)

\* Taking the first frame off the wire leaves what is known of the others.
LEMMA WireTail ==
  ASSUME IInv, s2c # <<>>, s2c' = Tail(s2c), UNCHANGED <<c2s, callVars>>
  PROVE  /\ s2c \in Seq(Frame) /\ s2c' \in Seq(Frame)
         /\ Head(s2c) \in Frame
         /\ Head(s2c).kind = "response"
              => Head(s2c) \in Response /\ Owned(Head(s2c))
         /\ WireInv'
<1>1. /\ s2c \in Seq(Frame) /\ s2c' \in Seq(Frame)
      /\ Head(s2c) = s2c[1] /\ 1 \in 1..Len(s2c)
      /\ Head(s2c) \in Frame
      /\ \A i \in 1..Len(s2c') : i + 1 \in 1..Len(s2c) /\ s2c'[i] = s2c[i + 1]
  BY TailElements DEF IInv, TypeOK
<1>2. \A r : Owned(r) => Owned(r)'
  BY OwnedKept DEF callVars, InCall
<1>3. Head(s2c).kind = "response" => Head(s2c) \in Response /\ Owned(Head(s2c))
  BY <1>1, Typing DEF IInv, WireInv
<1>4. WireInv'
  BY <1>1, <1>2 DEF IInv, WireInv
<1> QED
  BY <1>1, <1>3, <1>4

\* job = @pending[msg.invoke_id] is the queue the response names.
LEMMA LookUpStep ==
  ASSUME IInv, LookUp
  PROVE  IInv'
<1> DEFINE f == Head(s2c)
<1>1. /\ rxAt = "recv" /\ s2c # <<>> /\ f.kind = "response" /\ s2c' = Tail(s2c)
      /\ UNCHANGED <<pending, queue, invokeId, pc, call, cmd, popped, outcome,
                     delivered, c2s, unsolicited,
                     transport, socket, closes, stale, broken>>
  BY DEF LookUp, Received, callVars, connVars
<1>2. TypeOK /\ f \in Response /\ Owned(f) /\ s2c' \in Seq(Frame) /\ WireInv'
  BY <1>1, WireTail DEF IInv, callVars
<1>3. f.call \in Calls
  BY <1>2, Typing, FrameFields DEF Owned, Calls
<1>4. \/ /\ f.id \in DOMAIN pending
         /\ rxAt' = "push" /\ rxFrame' = f /\ rxJob' = pending[f.id]
         /\ dropped' = dropped
      \/ /\ dropped' = dropped \cup {f.call}
         /\ UNCHANGED <<rxAt, rxFrame, rxJob>>
  BY DEF LookUp
<1>5. TypeOK'
  <2>1. /\ rxAt' \in {"recv", "push", "alert", "dead"}
        /\ rxFrame' \in Response \cup {Nil} /\ rxJob' \in Nat
        /\ rxAt' = "push" => rxFrame' \in Response /\ rxJob' \in Calls
    BY <1>1, <1>2, <1>4, BoundAssumption DEF TypeOK, Calls
  <2>2. dropped' \subseteq Calls
    BY <1>2, <1>3, <1>4 DEF TypeOK
  <2> QED
    BY <1>1, <1>2, <2>1, <2>2 DEF TypeOK, Calls
<1>6. CallsInv' /\ PendingInv' /\ BrokenInv'
  BY <1>1 DEF IInv, CallsInv, PendingInv, BrokenInv, InCall, Registered
<1>7. \A r : Owned(r) => Owned(r)'
  BY <1>1, OwnedKept DEF InCall
<1>8. QueueInv'
  <2>1. rxAt' = "push" => rxFrame' = f /\ rxFrame'.id = rxJob'
    BY <1>1, <1>4 DEF IInv, PendingInv
  <2>2. rxAt' = "push" => Owned(rxFrame)'
    BY <1>2, <1>7, <2>1
  <2> QED
    BY <1>1, <1>7, <2>1, <2>2 DEF IInv, QueueInv
<1>9. OwnResponse' /\ DeliveredIsQueued'
  BY <1>1 DEF IInv, OwnResponse, DeliveredIsQueued
<1>10. DeliveredInv'
  <2>1. ASSUME invokeId <= IdMod, f.id \in DOMAIN pending,
               NEW t \in Threads, pc[t] \in {"tx", "register"}
        PROVE  f.call # call[t]
    <3>1. f.call \in Nat /\ f.call < invokeId /\ f.id = WireId(f.call)
      BY <1>2, FrameFields DEF Owned
    <3>2. f.call < IdMod
      BY <3>1, <2>1, <1>2, Typing, IdModAssumption
    <3>3. f.id = f.call
      BY <3>1, <3>2, WireIdNat
    <3>4. CASE f.call \in broken
      BY <2>1, <3>4 DEF IInv, BrokenInv, InCall
    <3>5. CASE \E u \in Threads : Registered(u) /\ call[u] = f.call
      BY <2>1, <3>5 DEF IInv, CallsInv, InCall, Registered
    <3> QED
      BY <2>1, <3>3, <3>4, <3>5 DEF IInv, PendingInv
  <2> QED
    BY <1>1, <1>4, <2>1 DEF IInv, DeliveredInv
<1>11. ReaderInv' /\ ReaderCannotAnswerItself'
  BY <1>1, <1>2, Typing DEF IInv, ReaderInv, ReaderCannotAnswerItself, InCall
<1> QED
  BY <1>2, <1>5, <1>6, <1>8, <1>9, <1>10, <1>11 DEF IInv

\* job.push(msg) adds a response to the queue of its own id.
LEMMA PushStep ==
  ASSUME IInv, Push
  PROVE  IInv'
<1>1. TypeOK /\ rxAt = "push" /\ rxJob \in Calls
      /\ rxFrame \in Response /\ Owned(rxFrame) /\ rxFrame.id = rxJob
  BY Typing DEF IInv, Push, QueueInv
<1>2. /\ rxAt' = "recv" /\ rxFrame' = Nil /\ rxJob' = 0
      /\ queue'[rxJob] = Append(queue[rxJob], rxFrame)
      /\ \A m \in Calls \ {rxJob} : queue'[m] = queue[m]
      /\ delivered' = delivered \cup {rxFrame.call}
      /\ UNCHANGED <<pending, invokeId, pc, call, cmd, popped, outcome, dropped,
                     c2s, s2c, unsolicited,
                     transport, socket, closes, stale, broken>>
  BY <1>1 DEF TypeOK, Push, callVars, wireVars, connVars
<1>3. /\ queue[rxJob] \in Seq(Response)
      /\ Append(queue[rxJob], rxFrame) \in Seq(Response)
      /\ queue'[rxJob] # <<>>
      /\ \A i \in 1..Len(queue'[rxJob]) :
           \/ i \in 1..Len(queue[rxJob]) /\ queue'[rxJob][i] = queue[rxJob][i]
           \/ queue'[rxJob][i] = rxFrame
  BY <1>1, <1>2, Typing, AppendElements
<1>4. /\ rxFrame.call \in Calls /\ rxFrame.call < invokeId
      /\ invokeId <= IdMod => rxFrame.call = rxJob
  <2>1. rxFrame.call \in Nat /\ rxFrame.call < invokeId
        /\ rxJob = WireId(rxFrame.call)
    BY <1>1, FrameFields DEF Owned
  <2>2. rxFrame.call \in Calls
    BY <2>1, <1>1, Typing DEF Calls
  <2>3. invokeId <= IdMod => rxFrame.call < IdMod
    BY <2>1, <1>1, Typing, IdModAssumption
  <2> QED
    BY <2>1, <2>2, <2>3, WireIdNat
<1>5. TypeOK'
  <2>1. queue' \in [Calls -> Seq(Response)]
    BY <1>1, <1>3 DEF TypeOK, Push
  <2> QED
    BY <1>1, <1>2, <1>4, <2>1 DEF TypeOK, Calls
<1>6. CallsInv' /\ PendingInv' /\ BrokenInv'
  BY <1>2 DEF IInv, CallsInv, PendingInv, BrokenInv, InCall, Registered
<1>7. \A r : Owned(r) => Owned(r)'
  BY <1>2, OwnedKept DEF InCall
<1>8. WireInv'
  BY <1>2, <1>7 DEF IInv, WireInv
<1>9. QueueInv'
  <2>1. ASSUME NEW m \in Calls, NEW i \in 1..Len(queue'[m])
        PROVE  Owned(queue'[m][i]) /\ queue'[m][i].id = m
    <3>1. CASE m = rxJob
      BY <1>1, <1>3, <3>1 DEF IInv, QueueInv
    <3>2. CASE m # rxJob
      BY <1>2, <3>2 DEF IInv, QueueInv
    <3> QED
      BY <3>1, <3>2
  <2>2. \A m \in Calls : \A i \in 1..Len(queue'[m]) :
          Owned(queue[m][i])' /\ queue'[m][i].id = m
    BY <2>1, <1>7
  <2> QED
    BY <1>2, <2>2 DEF QueueInv, Calls
<1>10. OwnResponse'
  BY <1>2 DEF IInv, OwnResponse
<1>11. DeliveredInv'
  BY <1>1, <1>2, <1>4 DEF IInv, DeliveredInv
<1>12. DeliveredIsQueued'
  <2>1. \A u \in Threads : pc[u] = "wait" => call[u] \in Calls
    BY <1>1, Typing DEF IInv, CallsInv, InCall, Calls
  <2> QED
    BY <1>2, <1>3, <1>4, <2>1 DEF IInv, DeliveredIsQueued
<1>13. ReaderInv' /\ ReaderCannotAnswerItself'
  BY <1>1, <1>2, Typing DEF IInv, ReaderInv, ReaderCannotAnswerItself, InCall
<1> QED
  BY <1>5, <1>6, <1>8, <1>9, <1>10, <1>11, <1>12, <1>13 DEF IInv

\* The other steps of the reader and of the environment touch neither calls
\* nor queues.
LEMMA OtherStep ==
  ASSUME IInv, TypeOK', WireInv',
         UNCHANGED <<pending, queue, callVars, rxFrame, rxJob, delivered, broken>>,
         \/ rxAt' = rxAt
         \/ rxAt' # "push" /\ pc[Reader] = "idle"
  PROVE  IInv'
<1>1. UNCHANGED <<invokeId, pc, call, cmd, popped, outcome>>
  BY DEF callVars
<1>2. CallsInv' /\ PendingInv' /\ BrokenInv'
  BY <1>1 DEF IInv, CallsInv, PendingInv, BrokenInv, InCall, Registered
<1>3. \A r : Owned(r) => Owned(r)'
  BY <1>1, OwnedKept DEF InCall
<1>4. QueueInv'
  BY <1>3 DEF IInv, QueueInv
<1>5. OwnResponse' /\ DeliveredIsQueued'
  BY <1>1 DEF IInv, OwnResponse, DeliveredIsQueued
<1>6. DeliveredInv'
  BY <1>1 DEF IInv, DeliveredInv
<1>7. ReaderInv' /\ ReaderCannotAnswerItself'
  BY <1>1 DEF IInv, ReaderInv, ReaderCannotAnswerItself, InCall
<1> QED
  BY <1>2, <1>4, <1>5, <1>6, <1>7 DEF IInv

\* Hellos and alerts, and the end of the reader.
LEMMA ReaderStepOther ==
  ASSUME IInv, IgnoreHello \/ AlertBegin \/ AlertReturn \/ AlertRaise \/ ReaderEnds
  PROVE  IInv'
<1>1. /\ \/ s2c' = s2c
         \/ s2c # <<>> /\ s2c' = Tail(s2c)
      /\ rxAt' \in {"recv", "alert", "dead"}
      /\ rxAt' # rxAt => pc[Reader] = "idle"
      /\ UNCHANGED <<pending, queue, callVars, rxFrame, rxJob, delivered, dropped,
                     c2s, unsolicited, transport, socket, closes, stale, broken>>
  BY DEF IInv, ReaderInv, InCall, IgnoreHello, AlertBegin, AlertReturn,
         AlertRaise, ReaderEnds, Received, readerVars, wireVars, connVars
<1>2. s2c' \in Seq(Frame) /\ WireInv'
  <2>1. CASE s2c' = s2c
    <3>1. \A r : Owned(r) => Owned(r)'
      BY <1>1, OwnedKept DEF InCall, callVars
    <3> QED
      BY <1>1, <2>1, <3>1 DEF IInv, WireInv, TypeOK
  <2>2. CASE s2c # <<>> /\ s2c' = Tail(s2c)
    BY <1>1, <2>2, WireTail
  <2> QED
    BY <1>1, <2>1, <2>2
<1>3. TypeOK'
  BY <1>1, <1>2 DEF IInv, TypeOK, callVars, Calls
<1> QED
  BY <1>1, <1>2, <1>3, OtherStep

-----------------------------------------------------------------------------
(* The server and the line. *)

\* The response of a command has the command's id.
LEMMA AnswerStep ==
  ASSUME IInv, NEW res \in Results, Answer(res)
  PROVE  IInv'
<1> DEFINE f == Head(c2s)
           r == [kind |-> "response", id |-> f.id, call |-> f.call,
                 cmd |-> f.cmd, result |-> res]
<1>1. /\ c2s # <<>> /\ c2s' = Tail(c2s)
      /\ \/ stale = 0 /\ stale' = 0 /\ s2c' = Append(s2c, r)
         \/ stale # 0 /\ stale' = stale - 1 /\ s2c' = s2c
      /\ UNCHANGED <<pending, queue, callVars, readerVars, unsolicited, transport,
                     socket, closes, broken>>
  BY DEF Answer
<1>2. /\ c2s \in Seq(CommandFrame) /\ s2c \in Seq(Frame)
      /\ c2s' \in Seq(CommandFrame) /\ f = c2s[1] /\ 1 \in 1..Len(c2s)
      /\ \A i \in 1..Len(c2s') : i + 1 \in 1..Len(c2s) /\ c2s'[i] = c2s[i + 1]
  BY <1>1, TailElements DEF IInv, TypeOK
<1>3. f \in CommandFrame /\ Owned(f)
  BY <1>2 DEF IInv, WireInv
<1>4. r \in Response /\ r \in Frame
  BY <1>3 DEF CommandFrame, Response, Frame
<1>5. Owned(r)
  BY <1>3 DEF Owned
<1>6. /\ s2c' \in Seq(Frame)
      /\ \A i \in 1..Len(s2c') :
           (i \in 1..Len(s2c) /\ s2c'[i] = s2c[i]) \/ s2c'[i] = r
  <2> HIDE DEF r
  <2>1. CASE s2c' = Append(s2c, r)
    BY <1>2, <1>4, <2>1, AppendElements
  <2>2. CASE s2c' = s2c
    BY <1>2, <2>2
  <2> QED
    BY <1>1, <2>1, <2>2
<1>7. TypeOK'
  <2>1. stale \in 0..(IF transport = "tcp" THEN Len(c2s) ELSE 0)
    BY DEF IInv, TypeOK
  <2>2. Len(c2s) \in Nat /\ Len(c2s') = Len(c2s) - 1
    BY <1>1, <1>2
  <2>3. stale' \in 0..(IF transport' = "tcp" THEN Len(c2s') ELSE 0)
    BY <1>1, <2>1, <2>2
  <2> QED
    BY <1>1, <1>2, <1>6, <2>3 DEF IInv, TypeOK, callVars, readerVars, Calls
<1>8. \A x : Owned(x) => Owned(x)'
  BY <1>1, OwnedKept DEF callVars, InCall
<1>9. WireInv'
  <2>1. \A i \in 1..Len(c2s') : Owned(c2s[i])'
    BY <1>2, <1>8 DEF IInv, WireInv
  <2>2. \A i \in 1..Len(s2c') : s2c'[i].kind = "response" => Owned(s2c[i])'
    BY <1>5, <1>6, <1>8 DEF IInv, WireInv
  <2> QED
    BY <2>1, <2>2 DEF WireInv
<1> QED
  BY <1>1, <1>7, <1>9, OtherStep DEF readerVars

\* Alerts and hellos on the wire are nobody's response.
LEMMA SendUnsolicitedStep ==
  ASSUME IInv, NEW frame \in {Alert, Hello}, SendUnsolicited(frame)
  PROVE  IInv'
<1>1. /\ s2c' = Append(s2c, frame) /\ unsolicited < MaxUnsolicited
      /\ unsolicited' = unsolicited + 1
      /\ UNCHANGED <<pending, queue, callVars, readerVars, c2s, transport, socket,
                     closes, stale, broken>>
  BY DEF SendUnsolicited, connVars
<1>2. s2c \in Seq(Frame) /\ frame \in Frame /\ frame.kind # "response"
  BY DEF IInv, TypeOK, Frame, Alert, Hello
<1>3. /\ s2c' \in Seq(Frame)
      /\ \A i \in 1..Len(s2c') :
           (i \in 1..Len(s2c) /\ s2c'[i] = s2c[i]) \/ s2c'[i] = frame
  BY <1>1, <1>2, AppendElements
<1>4. TypeOK'
  BY <1>1, <1>3, BoundAssumption DEF IInv, TypeOK, callVars, readerVars, Calls
<1>5. \A x : Owned(x) => Owned(x)'
  BY <1>1, OwnedKept DEF callVars, InCall
<1>6. WireInv'
  BY <1>1, <1>2, <1>3, <1>5 DEF IInv, WireInv
<1> QED
  BY <1>1, <1>4, <1>6, OtherStep DEF readerVars

\* A lost frame changes nothing that is known of the others.
LEMMA LoseStep ==
  ASSUME IInv, LoseCommand \/ LoseFrame
  PROVE  IInv'
<1>1. \A r : Owned(r) => Owned(r)'
  BY OwnedKept DEF LoseCommand, LoseFrame, callVars, InCall
<1>2. CASE LoseCommand
  <2>1. /\ c2s' \in Seq(CommandFrame)
        /\ \A i \in 1..Len(c2s') : i + 1 \in 1..Len(c2s) /\ c2s'[i] = c2s[i + 1]
    BY <1>2, TailElements DEF IInv, TypeOK, LoseCommand
  <2>2. TypeOK'
    <3>1. stale = 0 /\ stale' = 0 /\ transport' = transport /\ Len(c2s') \in Nat
      BY <1>2, <2>1 DEF IInv, TypeOK, LoseCommand, connVars
    <3> QED
      BY <1>2, <2>1, <3>1
         DEF IInv, TypeOK, LoseCommand, callVars, readerVars, connVars, Calls
  <2>3. WireInv'
    BY <1>1, <1>2, <2>1 DEF IInv, WireInv, LoseCommand
  <2> QED
    BY <1>2, <2>2, <2>3, OtherStep DEF LoseCommand, readerVars, connVars
<1>3. CASE LoseFrame
  <2>1. s2c' \in Seq(Frame) /\ WireInv'
    BY <1>3, WireTail DEF LoseFrame
  <2>2. TypeOK'
    BY <1>3, <2>1 DEF IInv, TypeOK, LoseFrame, callVars, readerVars, connVars, Calls
  <2> QED
    BY <1>3, <2>1, <2>2, OtherStep DEF LoseFrame, readerVars, connVars
<1> QED
  BY <1>2, <1>3

\* Nor does it matter what the server leaves unread.
LEMMA LeaveStep ==
  ASSUME IInv, LeaveStale
  PROVE  IInv'
<1>1. \A r : Owned(r) => Owned(r)'
  BY OwnedKept DEF LeaveStale, callVars, InCall
<1>2. /\ c2s \in Seq(CommandFrame) /\ stale \in 0..Len(c2s) /\ stale > 0
      /\ c2s' = SubSeq(c2s, stale + 1, Len(c2s)) /\ stale' = 0
      /\ UNCHANGED <<pending, queue, callVars, readerVars, s2c, unsolicited,
                     transport, socket, closes, broken>>
  BY DEF IInv, TypeOK, LeaveStale
<1>3. /\ c2s' \in Seq(CommandFrame)
      /\ \A i \in 1..Len(c2s') :
           i + stale \in 1..Len(c2s) /\ c2s'[i] = c2s[i + stale]
  BY <1>2, Rest
<1>4. TypeOK'
  BY <1>2, <1>3 DEF IInv, TypeOK, callVars, readerVars, Calls
<1>5. WireInv'
  BY <1>1, <1>2, <1>3 DEF IInv, WireInv
<1> QED
  BY <1>2, <1>4, <1>5, OtherStep DEF readerVars

-----------------------------------------------------------------------------
(* Close and open. *)

\* Interrupt ends the reader: the call of its callback, if it is in one, leaves
\* what it has registered and nothing else.
LEMMA CloseInterruptStep ==
  ASSUME IInv, CloseInterrupt
  PROVE  IInv'
<1>1. /\ pc'[Reader] = "idle" /\ popped'[Reader] = Nil
      /\ \A u \in Threads \ {Reader} : pc'[u] = pc[u] /\ popped'[u] = popped[u]
      /\ broken' = IF Registered(Reader) THEN broken \cup {call[Reader]} ELSE broken
      /\ rxAt' = "dead"
      /\ UNCHANGED <<pending, queue, invokeId, call, cmd, delivered, dropped, c2s,
                     s2c, unsolicited, transport, socket, stale>>
  BY DEF IInv, TypeOK, CloseInterrupt, Threads, wireVars
<1>2. TypeOK /\ Reader \in Threads
  BY Typing DEF IInv
<1>3. Registered(Reader) => call[Reader] \in Calls /\ call[Reader] < invokeId
  BY <1>2, Typing DEF IInv, CallsInv, InCall, Registered, Calls
<1>4. TypeOK'
  <2>1. closes' \in 0..(IF transport' = "tcp" THEN MaxTcpCloses ELSE MaxSlipCloses)
    BY BoundAssumption DEF IInv, TypeOK, CloseInterrupt
  <2>2. pc' \in [Threads -> {"idle", "tx", "register", "wait", "delete"}]
    BY <1>2 DEF TypeOK, CloseInterrupt
  <2>3. popped' \in [Threads -> Response \cup {Nil}]
    BY <1>2 DEF TypeOK, CloseInterrupt
  <2>4. outcome' \in [Threads -> {"none", "value", "done", "AccessError",
                      "TimeoutError", "RuntimeError", "raised", "Interrupt"}]
    BY <1>2 DEF TypeOK, CloseInterrupt
  <2>5. rxFrame' \in Response \cup {Nil} /\ rxJob' \in Nat
    BY DEF CloseInterrupt
  <2>6. broken' \subseteq Calls
    BY <1>1, <1>2, <1>3 DEF TypeOK
  <2> QED
    BY <1>1, <1>2, <2>1, <2>2, <2>3, <2>4, <2>5, <2>6 DEF TypeOK, Calls
<1>5. CallsInv' /\ BrokenInv'
  BY <1>1, <1>2, <1>3 DEF IInv, CallsInv, BrokenInv, InCall, Registered
<1>6. PendingInv'
  BY <1>1, <1>2 DEF IInv, PendingInv, Registered
<1>7. \A r : Owned(r) => Owned(r)'
  BY <1>1, <1>2, OwnedKept DEF InCall
<1>8. WireInv' /\ QueueInv'
  BY <1>1, <1>7 DEF IInv, WireInv, QueueInv
<1>9. OwnResponse'
  BY <1>1 DEF IInv, OwnResponse
<1>10. DeliveredInv' /\ DeliveredIsQueued'
  BY <1>1 DEF IInv, DeliveredInv, DeliveredIsQueued
<1>11. ReaderInv' /\ ReaderCannotAnswerItself'
  BY <1>1 DEF ReaderInv, ReaderCannotAnswerItself, InCall
<1> QED
  BY <1>4, <1>5, <1>6, <1>8, <1>9, <1>10, <1>11 DEF IInv

\* The other steps of close and open leave the calls alone.
LEMMA ConnectionStep ==
  ASSUME IInv, CloseSocket \/ ClosePort \/ Open
  PROVE  IInv'
<1>1. /\ UNCHANGED <<pending, queue, callVars, rxFrame, rxJob, delivered, dropped,
                     c2s, unsolicited, transport, broken>>
      /\ s2c' = s2c \/ s2c' = <<>>
      /\ rxAt' = rxAt \/ (rxAt' = "recv" /\ rxAt = "dead")
      /\ socket' \in {"open", "closed"}
  BY DEF CloseSocket, ClosePort, Open, readerVars, wireVars
<1>2. rxAt = "dead" => pc[Reader] = "idle"
  BY DEF IInv, ReaderInv, InCall
<1>3. TypeOK'
  <2>1. closes' \in 0..(IF transport' = "tcp" THEN MaxTcpCloses ELSE MaxSlipCloses)
    BY BoundAssumption DEF IInv, TypeOK, CloseSocket, ClosePort, Open
  <2>2. stale' \in 0..(IF transport' = "tcp" THEN Len(c2s') ELSE 0)
    BY <1>1 DEF IInv, TypeOK, CloseSocket, ClosePort, Open
  <2>3. s2c' \in Seq(Frame)
    <3>1. s2c \in Seq(Frame) /\ <<>> \in Seq(Frame)
      BY DEF IInv, TypeOK
    <3> QED
      BY <1>1, <3>1
  <2>4. rxAt' \in {"recv", "push", "alert", "dead"}
        /\ (rxAt' = "push" => rxAt = "push")
    BY <1>1 DEF IInv, TypeOK
  <2> QED
    BY <1>1, <2>1, <2>2, <2>3, <2>4 DEF IInv, TypeOK, callVars, Calls
<1>4. \A r : Owned(r) => Owned(r)'
  BY <1>1, OwnedKept DEF callVars, InCall
<1>5. WireInv'
  BY <1>1, <1>4 DEF IInv, WireInv
<1> QED
  BY <1>1, <1>2, <1>3, <1>5, OtherStep

\* A step of something else.
LEMMA StutterStep ==
  ASSUME IInv, UNCHANGED vars
  PROVE  IInv'
<1>1. TypeOK' /\ UNCHANGED <<pending, queue, callVars, rxAt, rxFrame, rxJob, delivered, broken>>
  BY DEF IInv, TypeOK, vars, callVars, readerVars, wireVars, connVars, Calls
<1>2. \A r : Owned(r) => Owned(r)'
  BY <1>1, OwnedKept DEF callVars, InCall
<1>3. WireInv'
  BY <1>2 DEF IInv, WireInv, vars, wireVars
<1> QED
  BY <1>1, <1>3, OtherStep

-----------------------------------------------------------------------------
\* IInv holds in every state of the client.
LEMMA Invariance == Spec => []IInv
<1>1. IInv /\ [Next]_vars => IInv'
  BY StartCallStep, TxStep, TxRaiseStep, RegisterStep, PopStep, TimeoutStep,
     DeleteStep, LookUpStep, PushStep, ReaderStepOther, AnswerStep,
     SendUnsolicitedStep, LoseStep, LeaveStep, CloseInterruptStep, ConnectionStep,
     StutterStep DEF Next
<1> QED
  BY InitIInv, <1>1, PTL DEF Spec

(* The theorems. *)

\* Every variable of the client keeps its type.
THEOREM TypeCorrect == Spec => []TypeOK
<1>1. IInv => TypeOK
  BY DEF IInv
<1> QED
  BY Invariance, <1>1, PTL

\* @pending holds the calls that wait, each under its own id, and those of the
\* callback's that Tcp#close broke off, and no others.
THEOREM PendingCorrect == Spec => []PendingTracksCalls
<1>1. IInv => PendingTracksCalls
  BY DEF IInv, PendingInv, PendingTracksCalls
<1> QED
  BY Invariance, <1>1, PTL

\* No call of any thread ends with the response of another call, but for one
\* that is made while it waits and gets its id again.
THEOREM ResponsesCorrect == Spec => []OwnResponse
<1>1. IInv => OwnResponse
  BY DEF IInv
<1> QED
  BY Invariance, <1>1, PTL

\* Until the ids wrap, no registered call times out on a delivered response.
THEOREM DeliveryCorrect == Spec => []DeliveredIsQueued
<1>1. IInv => DeliveredIsQueued
  BY DEF IInv
<1> QED
  BY Invariance, <1>1, PTL

\* A call from the alert callback never gets a response.
THEOREM ReaderUnanswered == Spec => []ReaderCannotAnswerItself
<1>1. IInv => ReaderCannotAnswerItself
  BY DEF IInv
<1> QED
  BY Invariance, <1>1, PTL

\* The on_rx block throws away the response of a registered call only when
\* the call's id is past the wrap.
THEOREM DropsCorrect == Spec => DropsOnlyUnclaimed
<1> DEFINE Unclaimed ==
      \A n \in dropped' \ dropped :
        \A t \in Threads : Registered(t) /\ call[t] = n => n >= IdMod
<1>1. ASSUME IInv, LookUp PROVE Unclaimed
  <2> DEFINE f == Head(s2c)
  <2>1. f \in Response /\ Owned(f) /\ TypeOK
    BY <1>1, WireTail DEF IInv, LookUp, Received
  <2>2. f.call \in Nat /\ f.id = WireId(f.call)
    BY <2>1, FrameFields DEF Owned
  <2>3. \A n \in dropped' \ dropped : n = f.call /\ f.id \notin DOMAIN pending
    BY <1>1 DEF LookUp
  <2>4. f.call < IdMod => f.id = f.call
    BY <2>2, WireIdNat
  <2>5. ASSUME NEW t \in Threads, Registered(t), call[t] = f.call,
               f.id \notin DOMAIN pending
        PROVE  ~(f.call < IdMod)
    BY <1>1, <2>4, <2>5 DEF IInv, PendingInv
  <2> QED
    BY <2>2, <2>3, <2>5, IdModAssumption
<1>2. IInv /\ [Next]_vars => [Unclaimed]_vars
  <2>1. ASSUME Next, ~LookUp PROVE dropped' = dropped
    BY <2>1 DEF Next, StartCall, Tx, TxRaise, Register, Pop, Timeout, Delete,
       Push, IgnoreHello, AlertBegin, AlertReturn, AlertRaise, Answer,
       SendUnsolicited, LoseCommand, LoseFrame, LeaveStale, CloseInterrupt,
       CloseSocket, ClosePort, ReaderEnds, Open, readerVars
  <2> QED
    BY <1>1, <2>1
<1>3. []IInv /\ [][Next]_vars => DropsOnlyUnclaimed
  BY <1>2, PTL DEF DropsOnlyUnclaimed
<1> QED
  BY Invariance, <1>3, PTL DEF Spec

-----------------------------------------------------------------------------
(* Clients and server. *)

\* r is a response on its way to a caller, or in its hands.
Carried(r) ==
    \/ \E i \in 1..Len(s2c) : s2c[i] = r
    \/ \E n \in Calls : \E i \in 1..Len(queue[n]) : queue[n][i] = r
    \/ rxAt = "push" /\ rxFrame = r
    \/ \E t \in Threads : pc[t] = "delete" /\ popped[t] = r

\* What r says has happened during the call it answers, which was started.
Truthful(r) ==
    /\ r.call < invokeId
    /\ \A t \in Threads : InCall(t) /\ call[t] = r.call =>
         /\ cmd[t] = "read" => \E v \in seen[t] : answered[r.call] = {v}
         /\ cmd[t] = "write" /\ r.result = "success" => ValueOf(r.call) \in seen[t]

ResponsesInv == \A r \in Response : Carried(r) => Truthful(r)

SeenInv == \A t \in Threads : InCall(t) => objects[target[call[t]]] \in seen[t]

\* A call's command is sent once and served once.
OnceInv ==
    /\ \A n \in Calls : n >= invokeId => answered[n] = {}
    /\ \A t \in Threads : pc[t] = "tx" =>
         /\ answered[call[t]] = {}
         /\ \A i \in 1..Len(c2s) : c2s[i].call # call[t]
    /\ \A i \in 1..Len(c2s) : answered[c2s[i].call] = {}
    /\ \A i, j \in 1..Len(c2s) : c2s[i].call = c2s[j].call => i = j

\* Close may break off a reader that was in no call.
StartedInv ==
    \A t \in Threads : outcome[t] \notin {"none", "Interrupt"} => call[t] < invokeId

SystemInv ==
    /\ SystemTypeOK
    /\ ResponsesInv
    /\ SeenInv
    /\ OnceInv
    /\ StartedInv
    /\ ReadsCurrent
    /\ WritesHappened

-----------------------------------------------------------------------------
(* The composition is a client. *)

\* Every step of the composition is one of the client's, or none.
LEMMA ClientSteps == SystemSpec => Spec
<1>1. SystemInit => Init
  BY DEF SystemInit
<1>2. [SystemNext]_systemVars => [Next]_vars
  <2>1. ASSUME SystemNext PROVE Next
    BY <2>1 DEF SystemNext, Call, Serve, ThreadStep, ReaderStep, CloseStep, Next
  <2>2. UNCHANGED systemVars => UNCHANGED vars
    BY DEF systemVars
  <2> QED
    BY <2>1, <2>2
<1> QED
  BY <1>1, <1>2, PTL DEF SystemSpec, Spec

\* What the client's invariant says of the calls in progress and the frames.
LEMMA Frames ==
  ASSUME IInv
  PROVE  /\ TypeOK
         /\ \A t \in Threads : InCall(t) => call[t] \in Calls /\ call[t] < invokeId
         /\ \A t, u \in Threads :
              InCall(t) /\ InCall(u) /\ call[t] = call[u] => t = u
         /\ \A i \in 1..Len(c2s) :
              /\ c2s[i] \in CommandFrame /\ c2s[i].call \in Calls
              /\ c2s[i].call < invokeId
              /\ \A t \in Threads :
                   InCall(t) /\ call[t] = c2s[i].call => cmd[t] = c2s[i].cmd
<1>1. TypeOK /\ CallsInv /\ WireInv
  BY DEF IInv
<1>2. \A n \in Nat : n < invokeId => n \in Calls
  BY <1>1, Typing DEF Calls
<1>3. \A t \in Threads : InCall(t) => call[t] \in Calls /\ call[t] < invokeId
  BY <1>1, <1>2, Typing DEF CallsInv
<1>4. \A i \in 1..Len(c2s) : c2s[i] \in CommandFrame /\ Owned(c2s[i])
  BY <1>1, Typing DEF WireInv
<1>5. \A i \in 1..Len(c2s) :
        /\ c2s[i].call \in Calls /\ c2s[i].call < invokeId
        /\ \A t \in Threads :
             InCall(t) /\ call[t] = c2s[i].call => cmd[t] = c2s[i].cmd
  BY <1>2, <1>4, FrameFields DEF Owned
<1> QED
  BY <1>1, <1>3, <1>4, <1>5 DEF CallsInv

-----------------------------------------------------------------------------
(* Steps of the clients: they carry what is carried already. *)

\* The calls stay what they are in every step but StartCall.
SameCalls ==
    /\ UNCHANGED <<invokeId, call, cmd, serverVars>>
    /\ \A t \in Threads : InCall(t)' => InCall(t)

\* Of the commands on the wire the last ones are left.
CommandsLeft ==
    \E k \in Nat : \A i \in 1..Len(c2s') :
        i + k \in 1..Len(c2s) /\ c2s'[i] = c2s[i + k]

LEMMA CommandsSame ==
  ASSUME UNCHANGED c2s
  PROVE  CommandsLeft
<1>1. \A i \in 1..Len(c2s') : i + 0 \in 1..Len(c2s) /\ c2s'[i] = c2s[i + 0]
  OBVIOUS
<1> QED
  BY <1>1 DEF CommandsLeft

LEMMA TxCarries ==
  ASSUME IInv, NEW t \in Threads, Tx(t)
  PROVE  /\ UNCHANGED <<invokeId, call, cmd, popped, outcome>>
         /\ \A u \in Threads : InCall(u)' => InCall(u)
         /\ \A r \in Response : Carried(r)' => Carried(r)
<1>1. /\ pc[t] = "tx" /\ pc'[t] = "register"
      /\ \A u \in Threads \ {t} : pc'[u] = pc[u]
      /\ UNCHANGED <<queue, invokeId, call, cmd, popped, outcome, rxAt, rxFrame, s2c>>
  BY DEF IInv, TypeOK, Tx, readerVars
<1> QED
  BY <1>1 DEF Carried, InCall

LEMMA TxRaiseCarries ==
  ASSUME IInv, NEW t \in Threads, TxRaise(t)
  PROVE  /\ UNCHANGED <<invokeId, call, cmd, c2s>>
         /\ \A u \in Threads : InCall(u)' => InCall(u)
         /\ \A r \in Response : Carried(r)' => Carried(r)
<1>1. /\ pc[t] = "tx" /\ pc'[t] = "idle"
      /\ \A u \in Threads \ {t} : pc'[u] = pc[u] /\ popped'[u] = popped[u]
      /\ UNCHANGED <<queue, invokeId, call, cmd, rxAt, rxFrame, c2s, s2c>>
  BY DEF IInv, TypeOK, TxRaise, readerVars, wireVars
<1> QED
  BY <1>1 DEF Carried, InCall

LEMMA RegisterCarries ==
  ASSUME IInv, NEW t \in Threads, Register(t)
  PROVE  /\ UNCHANGED <<invokeId, call, cmd, popped, outcome, c2s>>
         /\ \A u \in Threads : InCall(u)' => InCall(u)
         /\ \A r \in Response : Carried(r)' => Carried(r)
<1>1. /\ pc[t] = "register" /\ pc'[t] = "wait"
      /\ \A u \in Threads \ {t} : pc'[u] = pc[u]
      /\ UNCHANGED <<queue, invokeId, call, cmd, popped, outcome, rxAt, rxFrame, c2s, s2c>>
  BY DEF IInv, TypeOK, Register, readerVars, wireVars
<1> QED
  BY <1>1 DEF Carried, InCall

LEMMA PopCarries ==
  ASSUME IInv, NEW t \in Threads, Pop(t)
  PROVE  /\ UNCHANGED <<invokeId, call, cmd, outcome, c2s>>
         /\ \A u \in Threads : InCall(u)' => InCall(u)
         /\ \A r \in Response : Carried(r)' => Carried(r)
<1> DEFINE n == call[t]
<1>1. TypeOK /\ n \in Calls
  BY Frames DEF InCall, Pop
<1>2. /\ pc[t] = "wait" /\ pc'[t] = "delete" /\ popped'[t] = Head(queue[n])
      /\ queue[n] # <<>> /\ queue'[n] = Tail(queue[n])
      /\ \A m \in Calls \ {n} : queue'[m] = queue[m]
      /\ \A u \in Threads \ {t} : pc'[u] = pc[u] /\ popped'[u] = popped[u]
      /\ UNCHANGED <<invokeId, call, cmd, outcome, rxAt, rxFrame, c2s, s2c>>
  BY <1>1 DEF TypeOK, Pop, readerVars, wireVars
<1>3. /\ Head(queue[n]) = queue[n][1] /\ 1 \in 1..Len(queue[n])
      /\ \A i \in 1..Len(queue'[n]) :
           i + 1 \in 1..Len(queue[n]) /\ queue'[n][i] = queue[n][i + 1]
  BY <1>1, <1>2, Typing, TailElements
<1>4. \A m \in Calls : \A i \in 1..Len(queue'[m]) :
        \E j \in 1..Len(queue[m]) : queue'[m][i] = queue[m][j]
  <2>1. ASSUME NEW m \in Calls, NEW i \in 1..Len(queue'[m])
        PROVE  \E j \in 1..Len(queue[m]) : queue'[m][i] = queue[m][j]
    <3>1. CASE m = n
      BY <1>3, <3>1
    <3>2. CASE m # n
      BY <1>2, <3>2
    <3> QED
      BY <3>1, <3>2
  <2> QED
    BY <2>1
<1>5. ASSUME NEW r \in Response, Carried(r)' PROVE Carried(r)
  <2>1. CASE \E m \in Calls : \E i \in 1..Len(queue'[m]) : queue'[m][i] = r
    BY <1>4, <2>1 DEF Carried
  <2>2. CASE \E u \in Threads : pc'[u] = "delete" /\ popped'[u] = r
    BY <1>1, <1>2, <1>3, <2>2 DEF Carried
  <2> QED
    BY <1>2, <1>5, <2>1, <2>2 DEF Carried, Calls
<1> QED
  BY <1>2, <1>5 DEF InCall

LEMMA TimeoutCarries ==
  ASSUME IInv, NEW t \in Threads, Timeout(t)
  PROVE  /\ UNCHANGED <<invokeId, call, cmd, outcome, c2s>>
         /\ \A u \in Threads : InCall(u)' => InCall(u)
         /\ \A r \in Response : Carried(r)' => Carried(r)
<1>1. /\ pc[t] = "wait" /\ pc'[t] = "delete" /\ popped'[t] = Nil
      /\ \A u \in Threads \ {t} : pc'[u] = pc[u] /\ popped'[u] = popped[u]
      /\ UNCHANGED <<queue, invokeId, call, cmd, outcome, rxAt, rxFrame, c2s, s2c>>
  BY DEF IInv, TypeOK, Timeout, readerVars, wireVars
<1>2. Nil \notin Response
  BY DEF Nil, Response
<1> QED
  BY <1>1, <1>2 DEF Carried, InCall

LEMMA DeleteCarries ==
  ASSUME IInv, NEW t \in Threads, Delete(t)
  PROVE  /\ UNCHANGED <<invokeId, call, cmd, popped, c2s>>
         /\ \A u \in Threads : InCall(u)' => InCall(u)
         /\ \A r \in Response : Carried(r)' => Carried(r)
<1>1. /\ pc[t] = "delete" /\ pc'[t] = "idle"
      /\ \A u \in Threads \ {t} : pc'[u] = pc[u]
      /\ UNCHANGED <<queue, invokeId, call, cmd, popped, rxAt, rxFrame, c2s, s2c>>
  BY DEF IInv, TypeOK, Delete, readerVars, wireVars
<1> QED
  BY <1>1 DEF Carried, InCall

\* What is read off the wire or lost there was on it.
LEMMA WireCarries ==
  ASSUME TypeOK, s2c # <<>>, s2c' = Tail(s2c)
  PROVE  \A r : (\E i \in 1..Len(s2c') : s2c'[i] = r) => \E i \in 1..Len(s2c) : s2c[i] = r
<1>1. s2c \in Seq(Frame)
  BY DEF TypeOK
<1> QED
  BY <1>1, TailElements

LEMMA ReaderCarries ==
  ASSUME IInv, ReaderStep
  PROVE  /\ UNCHANGED <<invokeId, pc, call, cmd, popped, outcome, c2s>>
         /\ \A r \in Response : Carried(r)' => Carried(r)
<1>0. TypeOK
  BY DEF IInv
<1>1. CASE LookUp
  <2>1. /\ s2c # <<>> /\ s2c' = Tail(s2c)
        /\ rxAt' = "push" => rxFrame' = Head(s2c)
        /\ UNCHANGED <<queue, invokeId, pc, call, cmd, popped, outcome, c2s>>
    BY <1>1 DEF LookUp, Received, callVars
  <2>2. s2c \in Seq(Frame)
    BY <1>0 DEF TypeOK
  <2>3. Head(s2c) = s2c[1] /\ 1 \in 1..Len(s2c)
    BY <2>1, <2>2, TailElements
  <2> QED
    BY <1>0, <2>1, <2>3, WireCarries DEF Carried
<1>2. CASE Push
  <2>1. /\ rxAt = "push" /\ rxAt' = "recv"
        /\ queue' = [queue EXCEPT ![rxJob] = Append(@, rxFrame)]
        /\ UNCHANGED <<s2c, invokeId, pc, call, cmd, popped, outcome, c2s>>
    BY <1>2 DEF Push, callVars, wireVars
  <2>2. /\ rxJob \in Calls /\ rxFrame \in Response
        /\ queue[rxJob] \in Seq(Response)
    BY <1>0, <2>1, Typing
  <2>3. \A m \in Calls : \A i \in 1..Len(queue'[m]) :
          \/ \E j \in 1..Len(queue[m]) : queue'[m][i] = queue[m][j]
          \/ queue'[m][i] = rxFrame
    <3>1. ASSUME NEW m \in Calls, NEW i \in 1..Len(queue'[m])
          PROVE  \/ \E j \in 1..Len(queue[m]) : queue'[m][i] = queue[m][j]
                 \/ queue'[m][i] = rxFrame
      <4>1. CASE m = rxJob
        <5>1. queue'[m] = Append(queue[m], rxFrame)
          BY <1>0, <2>1, <4>1 DEF TypeOK
        <5> QED
          BY <2>2, <4>1, <5>1, AppendElements
      <4>2. CASE m # rxJob
        BY <1>0, <2>1, <4>2 DEF TypeOK
      <4> QED
        BY <4>1, <4>2
    <3> QED
      BY <3>1
  <2> QED
    BY <2>1, <2>3 DEF Carried, Calls
<1>3. CASE IgnoreHello \/ AlertBegin
  <2>1. /\ rxAt' # "push" \/ UNCHANGED rxAt
        /\ UNCHANGED <<queue, invokeId, pc, call, cmd, popped, outcome, c2s, rxFrame>>
    BY <1>3 DEF IgnoreHello, AlertBegin, Received, callVars, readerVars
  <2>2. s2c # <<>> /\ s2c' = Tail(s2c)
    BY <1>3 DEF IgnoreHello, AlertBegin, Received
  <2> QED
    BY <1>0, <2>1, <2>2, WireCarries DEF Carried
<1>4. CASE AlertReturn \/ AlertRaise \/ ReaderEnds
  BY <1>4 DEF AlertReturn, AlertRaise, ReaderEnds, callVars, wireVars, Carried
<1> QED
  BY <1>1, <1>2, <1>3, <1>4 DEF ReaderStep

LEMMA LineCarries ==
  ASSUME IInv, \/ \E frame \in {Alert, Hello} : SendUnsolicited(frame)
               \/ LoseCommand
               \/ LoseFrame
               \/ LeaveStale
  PROVE  /\ UNCHANGED <<invokeId, pc, call, cmd, popped, outcome>>
         /\ CommandsLeft
         /\ \A r \in Response : Carried(r)' => Carried(r)
<1>0. TypeOK /\ c2s \in Seq(CommandFrame)
  BY DEF IInv, TypeOK
<1>1. ASSUME NEW frame \in {Alert, Hello}, SendUnsolicited(frame)
      PROVE  /\ UNCHANGED <<invokeId, pc, call, cmd, popped, outcome>>
             /\ CommandsLeft
             /\ \A r \in Response : Carried(r)' => Carried(r)
  <2>1. /\ s2c' = Append(s2c, frame)
        /\ UNCHANGED <<invokeId, pc, call, cmd, popped, outcome, c2s, queue, rxAt, rxFrame>>
    BY <1>1 DEF SendUnsolicited, callVars, readerVars
  <2>2. s2c \in Seq(Frame) /\ frame \in Frame /\ frame \notin Response
    BY <1>0 DEF TypeOK, Frame, Alert, Hello, Response
  <2> QED
    BY <2>1, <2>2, AppendElements, CommandsSame DEF Carried
<1>2. CASE LoseCommand
  <2>1. CommandsLeft
    BY <1>0, <1>2, TailElements DEF LoseCommand, CommandsLeft
  <2> QED
    BY <1>2, <2>1 DEF LoseCommand, callVars, readerVars, Carried
<1>3. CASE LoseFrame
  BY <1>0, <1>3, WireCarries, CommandsSame
     DEF LoseFrame, callVars, readerVars, Carried
<1>4. CASE LeaveStale
  <2>1. stale \in 0..Len(c2s) /\ stale \in Nat
    BY <1>0 DEF TypeOK
  <2>2. CommandsLeft
    BY <1>0, <1>4, <2>1, Rest DEF LeaveStale, CommandsLeft
  <2> QED
    BY <1>4, <2>2 DEF LeaveStale, callVars, readerVars, Carried
<1> QED
  BY <1>1, <1>2, <1>3, <1>4

\* The reader is broken off with what it held in its hands.
LEMMA InterruptCarries ==
  ASSUME IInv, CloseInterrupt
  PROVE  /\ UNCHANGED <<invokeId, call, cmd, c2s>>
         /\ \A u \in Threads : InCall(u)' => InCall(u)
         /\ \A r \in Response : Carried(r)' => Carried(r)
<1>1. /\ pc'[Reader] = "idle" /\ rxAt' = "dead"
      /\ \A u \in Threads \ {Reader} : pc'[u] = pc[u] /\ popped'[u] = popped[u]
      /\ UNCHANGED <<queue, invokeId, call, cmd, c2s, s2c>>
  BY DEF IInv, TypeOK, CloseInterrupt, wireVars, Threads
<1> QED
  BY <1>1 DEF Carried, InCall

LEMMA ConnectionCarries ==
  ASSUME IInv, CloseSocket \/ ClosePort \/ Open
  PROVE  /\ UNCHANGED <<invokeId, pc, call, cmd, popped, outcome, c2s>>
         /\ \A r \in Response : Carried(r)' => Carried(r)
<1>1. /\ s2c' = s2c \/ s2c' = <<>>
      /\ rxAt' # "push" \/ UNCHANGED rxAt
      /\ UNCHANGED <<invokeId, pc, call, cmd, popped, outcome, queue, rxFrame, c2s>>
  BY DEF CloseSocket, ClosePort, Open, callVars, readerVars, wireVars
<1> QED
  BY <1>1 DEF Carried

-----------------------------------------------------------------------------
(* Steps that leave the server alone. *)

\* What holds of the calls in progress is kept by every such step.
LEMMA CallsKept ==
  ASSUME SystemInv, SameCalls, \A r \in Response : Carried(r)' => Carried(r)
  PROVE  SystemTypeOK' /\ ResponsesInv' /\ SeenInv'
<1>1. SystemTypeOK'
  BY DEF SystemInv, SystemTypeOK, SameCalls, serverVars, Values
<1>2. \A r \in Response : Truthful(r) => Truthful(r)'
  BY DEF Truthful, SameCalls, serverVars, ValueOf
<1>3. ResponsesInv'
  BY <1>2 DEF SystemInv, ResponsesInv
<1>4. SeenInv'
  BY DEF SystemInv, SeenInv, SameCalls, serverVars
<1> QED
  BY <1>1, <1>3, <1>4

\* So is what holds of the calls that have returned, when none returns.
LEMMA ReturnsKept ==
  ASSUME SystemInv, SameCalls, UNCHANGED outcome,
         \A t \in Threads : pc'[t] = "idle" => pc[t] = "idle" /\ popped'[t] = popped[t]
  PROVE  StartedInv' /\ ReadsCurrent' /\ WritesHappened'
<1>1. StartedInv'
  BY DEF SystemInv, StartedInv, SameCalls
<1>2. ReadsCurrent'
  BY DEF SystemInv, ReadsCurrent, Ended, SameCalls, serverVars
<1>3. WritesHappened'
  BY DEF SystemInv, WritesHappened, Ended, SameCalls, serverVars, ValueOf
<1> QED
  BY <1>1, <1>2, <1>3

\* What is sent is sent and served once, when nothing is sent.
LEMMA OnceKept ==
  ASSUME SystemInv, IInv, SameCalls,
         CommandsLeft,
         \A t \in Threads : pc'[t] = "tx" => pc[t] = "tx"
  PROVE  OnceInv'
<1>1. UNCHANGED <<invokeId, call, answered>>
  BY DEF SameCalls, serverVars
<1>2. PICK k \in Nat : \A i \in 1..Len(c2s') :
        i + k \in 1..Len(c2s) /\ c2s'[i] = c2s[i + k]
  BY DEF CommandsLeft
<1>3. ASSUME NEW i \in 1..Len(c2s'), NEW j \in 1..Len(c2s'),
             c2s'[i].call = c2s'[j].call
      PROVE  i = j
  <2>1. \A m, l \in 1..Len(c2s) : c2s[m].call = c2s[l].call => m = l
    BY DEF SystemInv, OnceInv
  <2>2. c2s[i + k].call = c2s[j + k].call
    BY <1>2, <1>3
  <2>3. i + k = j + k
    BY <1>2, <2>1, <2>2
  <2> QED
    BY <2>3
<1>4. \A i \in 1..Len(c2s') : answered[c2s'[i].call] = {}
  BY <1>2 DEF SystemInv, OnceInv
<1>5. \A t \in Threads : pc[t] = "tx" =>
        /\ answered[call[t]] = {}
        /\ \A i \in 1..Len(c2s') : c2s'[i].call # call[t]
  BY <1>2 DEF SystemInv, OnceInv
<1>6. \A n \in Calls : n >= invokeId => answered[n] = {}
  BY DEF SystemInv, OnceInv
<1> QED
  BY <1>1, <1>3, <1>4, <1>5, <1>6 DEF OnceInv

LEMMA TxKeeps ==
  ASSUME SystemInv, IInv, NEW t \in Threads, Tx(t), UNCHANGED serverVars
  PROVE  SystemInv'
<1>1. SameCalls /\ \A r \in Response : Carried(r)' => Carried(r)
  BY TxCarries DEF SameCalls
<1>2. UNCHANGED <<popped, outcome>>
  BY TxCarries
<1>3. /\ pc[t] = "tx" /\ pc'[t] = "register"
      /\ \A u \in Threads \ {t} : pc'[u] = pc[u]
  BY DEF IInv, TypeOK, Tx
<1>4. SystemTypeOK' /\ ResponsesInv' /\ SeenInv'
  BY <1>1, CallsKept
<1>5. StartedInv' /\ ReadsCurrent' /\ WritesHappened'
  BY <1>1, <1>2, <1>3, ReturnsKept
<1>6. OnceInv'
  <2> DEFINE f == [kind |-> "command", id |-> WireId(call[t]), call |-> call[t],
                   cmd |-> cmd[t]]
  <2>1. c2s' = Append(c2s, f) /\ f.call = call[t]
    BY DEF Tx
  <2>2. c2s \in Seq(CommandFrame) /\ f \in CommandFrame
    BY WireIdNat DEF IInv, TypeOK, CommandFrame
  <2> HIDE DEF f
  <2>3. \A i \in 1..Len(c2s') :
          \/ i \in 1..Len(c2s) /\ c2s'[i] = c2s[i]
          \/ i = Len(c2s) + 1 /\ c2s'[i] = f
    BY <2>1, <2>2, AppendElements
  <2>4. UNCHANGED <<invokeId, call, answered>>
    BY <1>1 DEF SameCalls, serverVars
  <2>5. answered[call[t]] = {} /\ \A i \in 1..Len(c2s) : c2s[i].call # call[t]
    BY <1>3 DEF SystemInv, OnceInv
  <2>6. \A i \in 1..Len(c2s') : answered[c2s'[i].call] = {}
    <3>1. \A i \in 1..Len(c2s) : answered[c2s[i].call] = {}
      BY DEF SystemInv, OnceInv
    <3> QED
      BY <2>1, <2>3, <2>5, <3>1
  <2>7. \A i, j \in 1..Len(c2s') : c2s'[i].call = c2s'[j].call => i = j
    BY <2>1, <2>3, <2>5 DEF SystemInv, OnceInv
  <2>8. ASSUME NEW u \in Threads, pc'[u] = "tx"
        PROVE  /\ answered[call[u]] = {}
               /\ \A i \in 1..Len(c2s') : c2s'[i].call # call[u]
    <3>1. u # t /\ pc[u] = "tx"
      BY <1>3, <2>8
    <3>2. call[u] # call[t]
      BY <1>3, <3>1, Frames DEF InCall
    <3> QED
      BY <2>1, <2>3, <3>1, <3>2 DEF SystemInv, OnceInv
  <2> QED
    BY <2>4, <2>6, <2>7, <2>8 DEF SystemInv, OnceInv
<1> QED
  BY <1>4, <1>5, <1>6 DEF SystemInv

LEMMA TxRaiseKeeps ==
  ASSUME SystemInv, IInv, NEW t \in Threads, TxRaise(t), UNCHANGED serverVars
  PROVE  SystemInv'
<1>1. SameCalls /\ \A r \in Response : Carried(r)' => Carried(r)
  BY TxRaiseCarries DEF SameCalls
<1>2. /\ pc[t] = "tx" /\ pc'[t] = "idle" /\ popped'[t] = Nil
      /\ \A u \in Threads \ {t} :
           pc'[u] = pc[u] /\ popped'[u] = popped[u] /\ outcome'[u] = outcome[u]
      /\ UNCHANGED c2s
  BY DEF IInv, TypeOK, TxRaise, wireVars
<1>3. SystemTypeOK' /\ ResponsesInv' /\ SeenInv'
  BY <1>1, CallsKept
<1>4. StartedInv'
  BY <1>1, <1>2, Frames DEF SystemInv, StartedInv, SameCalls, InCall
<1>5. ReadsCurrent' /\ WritesHappened'
  BY <1>1, <1>2 DEF SystemInv, ReadsCurrent, WritesHappened, Ended, SameCalls,
                    serverVars, ValueOf
<1>6. OnceInv'
  BY <1>1, <1>2, OnceKept, CommandsSame
<1> QED
  BY <1>3, <1>4, <1>5, <1>6 DEF SystemInv

\* A call goes on to wait, or stops waiting.
LEMMA WaitKeeps ==
  ASSUME SystemInv, IInv, NEW t \in Threads, Register(t) \/ Pop(t) \/ Timeout(t),
         UNCHANGED serverVars
  PROVE  SystemInv'
<1>1. SameCalls /\ \A r \in Response : Carried(r)' => Carried(r)
  BY RegisterCarries, PopCarries, TimeoutCarries DEF SameCalls
<1>2. UNCHANGED <<outcome, c2s>>
  BY RegisterCarries, PopCarries, TimeoutCarries
<1>3. /\ pc'[t] \in {"wait", "delete"}
      /\ \A u \in Threads \ {t} : pc'[u] = pc[u] /\ popped'[u] = popped[u]
  BY DEF IInv, TypeOK, Register, Pop, Timeout
<1>4. SystemTypeOK' /\ ResponsesInv' /\ SeenInv'
  BY <1>1, CallsKept
<1>5. StartedInv' /\ ReadsCurrent' /\ WritesHappened'
  BY <1>1, <1>2, <1>3, ReturnsKept
<1>6. OnceInv'
  BY <1>1, <1>2, <1>3, OnceKept, CommandsSame
<1> QED
  BY <1>4, <1>5, <1>6 DEF SystemInv

\* read and write return what the response says.
LEMMA DeleteKeeps ==
  ASSUME SystemInv, IInv, NEW t \in Threads, Delete(t), UNCHANGED serverVars
  PROVE  SystemInv'
<1>1. SameCalls /\ \A r \in Response : Carried(r)' => Carried(r)
  BY DeleteCarries DEF SameCalls
<1>2. /\ pc[t] = "delete" /\ pc'[t] = "idle"
      /\ outcome'[t] = Outcome(cmd[t], popped[t])
      /\ \A u \in Threads \ {t} : pc'[u] = pc[u] /\ outcome'[u] = outcome[u]
      /\ UNCHANGED <<c2s, popped>>
  BY DEF IInv, TypeOK, Delete, wireVars
<1>3. SystemTypeOK' /\ ResponsesInv' /\ SeenInv'
  BY <1>1, CallsKept
<1>4. StartedInv'
  BY <1>1, <1>2, Frames DEF SystemInv, StartedInv, SameCalls, InCall
<1>5. ASSUME popped[t] # Nil, popped[t].call < call[t] + IdMod
      PROVE  /\ popped[t].call = call[t]
             /\ cmd[t] = "read" => \E v \in seen[t] : answered[popped[t].call] = {v}
             /\ cmd[t] = "write" /\ popped[t].result = "success" =>
                  ValueOf(call[t]) \in seen[t]
  <2>1. popped[t] \in Response
    BY <1>5 DEF IInv, TypeOK
  <2>2. popped[t].call \in Nat /\ call[t] \in Nat
    BY <2>1, FrameFields, Frames, Typing
  <2>3. popped[t].call = call[t]
    BY <1>2, <1>5, <2>2, IdModAssumption DEF IInv, OwnResponse
  <2>4. Truthful(popped[t])
    BY <1>2, <2>1 DEF SystemInv, ResponsesInv, Carried
  <2> QED
    BY <1>2, <2>3, <2>4 DEF Truthful, InCall
<1>6. /\ outcome'[t] = "value" => popped[t] # Nil /\ cmd[t] = "read"
      /\ outcome'[t] = "done" => popped[t] # Nil /\ cmd[t] = "write"
  <2>1. cmd[t] \in Commands
    BY DEF IInv, TypeOK
  <2> QED
    BY <1>2, <2>1 DEF Outcome, Commands
<1>7. ReadsCurrent'
  BY <1>1, <1>2, <1>5, <1>6 DEF SystemInv, ReadsCurrent, Ended, SameCalls, serverVars
<1>8. WritesHappened'
  BY <1>1, <1>2, <1>5, <1>6 DEF SystemInv, WritesHappened, Ended, SameCalls,
     serverVars, ValueOf
<1>9. OnceInv'
  BY <1>1, <1>2, OnceKept, CommandsSame
<1> QED
  BY <1>3, <1>4, <1>7, <1>8, <1>9 DEF SystemInv

LEMMA ReaderKeeps ==
  ASSUME SystemInv, IInv, ReaderStep, UNCHANGED serverVars
  PROVE  SystemInv'
<1>1. /\ SameCalls /\ UNCHANGED <<pc, popped, outcome, c2s>>
      /\ \A r \in Response : Carried(r)' => Carried(r)
  BY ReaderCarries DEF SameCalls, InCall
<1>2. SystemTypeOK' /\ ResponsesInv' /\ SeenInv'
  BY <1>1, CallsKept
<1>3. StartedInv' /\ ReadsCurrent' /\ WritesHappened'
  BY <1>1, ReturnsKept
<1>4. OnceInv'
  BY <1>1, OnceKept, CommandsSame
<1> QED
  BY <1>2, <1>3, <1>4 DEF SystemInv

LEMMA LineKeeps ==
  ASSUME SystemInv, IInv, UNCHANGED serverVars,
         \/ \E frame \in {Alert, Hello} : SendUnsolicited(frame)
         \/ LoseCommand
         \/ LoseFrame
         \/ LeaveStale
  PROVE  SystemInv'
<1>1. /\ SameCalls /\ UNCHANGED <<pc, popped, outcome>>
      /\ CommandsLeft
      /\ \A r \in Response : Carried(r)' => Carried(r)
  BY LineCarries DEF SameCalls, InCall
<1>2. SystemTypeOK' /\ ResponsesInv' /\ SeenInv'
  BY <1>1, CallsKept
<1>3. StartedInv' /\ ReadsCurrent' /\ WritesHappened'
  BY <1>1, ReturnsKept
<1>4. OnceInv'
  BY <1>1, OnceKept
<1> QED
  BY <1>2, <1>3, <1>4 DEF SystemInv

\* Tcp#close: a call of the callback's ends without a response.
LEMMA InterruptKeeps ==
  ASSUME SystemInv, IInv, UNCHANGED serverVars, CloseInterrupt
  PROVE  SystemInv'
<1>1. SameCalls /\ \A r \in Response : Carried(r)' => Carried(r)
  BY InterruptCarries DEF SameCalls
<1>2. /\ pc'[Reader] = "idle" /\ popped'[Reader] = Nil
      /\ outcome'[Reader] = "Interrupt"
      /\ \A u \in Threads \ {Reader} :
           pc'[u] = pc[u] /\ popped'[u] = popped[u] /\ outcome'[u] = outcome[u]
      /\ UNCHANGED c2s
  BY DEF IInv, TypeOK, CloseInterrupt, wireVars, Threads
<1>3. SystemTypeOK' /\ ResponsesInv' /\ SeenInv'
  BY <1>1, CallsKept
<1>4. StartedInv'
  BY <1>1, <1>2 DEF SystemInv, StartedInv, SameCalls
<1>5. ReadsCurrent' /\ WritesHappened'
  BY <1>1, <1>2 DEF SystemInv, ReadsCurrent, WritesHappened, Ended, SameCalls,
                    serverVars, ValueOf
<1>6. OnceInv'
  BY <1>1, <1>2, OnceKept, CommandsSame
<1> QED
  BY <1>3, <1>4, <1>5, <1>6 DEF SystemInv

\* A connection that ends or begins.
LEMMA ConnectionKeeps ==
  ASSUME SystemInv, IInv, UNCHANGED serverVars, CloseSocket \/ ClosePort \/ Open
  PROVE  SystemInv'
<1>1. /\ SameCalls /\ UNCHANGED <<pc, popped, outcome, c2s>>
      /\ \A r \in Response : Carried(r)' => Carried(r)
  BY ConnectionCarries DEF SameCalls, InCall
<1>2. SystemTypeOK' /\ ResponsesInv' /\ SeenInv'
  BY <1>1, CallsKept
<1>3. StartedInv' /\ ReadsCurrent' /\ WritesHappened'
  BY <1>1, ReturnsKept
<1>4. OnceInv'
  BY <1>1, OnceKept, CommandsSame
<1> QED
  BY <1>2, <1>3, <1>4 DEF SystemInv

-----------------------------------------------------------------------------
(* The steps in which the server's state or the calls change. *)

\* The composition as it starts.
LEMMA InitSystemInv == SystemInit => SystemInv
<1> SUFFICES ASSUME SystemInit PROVE SystemInv
  OBVIOUS
<1>1. Init /\ MaxCalls \in Nat
  BY BoundAssumption DEF SystemInit
<1>2. (CHOOSE o \in Objects : TRUE) \in Objects
  BY ObjectAssumption
<1>3. SystemTypeOK
  BY <1>1, <1>2 DEF SystemInit, SystemTypeOK, Values
<1>4. ResponsesInv
  BY <1>1 DEF ResponsesInv, Carried, Init, Calls
<1>5. SeenInv /\ OnceInv /\ StartedInv /\ ReadsCurrent /\ WritesHappened
  BY <1>1 DEF SystemInit, Init, SeenInv, OnceInv, StartedInv, ReadsCurrent,
     WritesHappened, Ended, InCall
<1> QED
  BY <1>3, <1>4, <1>5 DEF SystemInv

\* A new call has a number that no frame, response or answer has.
LEMMA CallKeeps ==
  ASSUME SystemInv, IInv, NEW t \in Threads, NEW c \in Commands, NEW o \in Objects,
         Call(t, c, o)
  PROVE  SystemInv'
<1>1. /\ pc[t] = "idle" /\ pc'[t] = "tx" /\ call'[t] = invokeId
      /\ outcome'[t] = "none"
      /\ \A u \in Threads \ {t} :
           /\ pc'[u] = pc[u] /\ call'[u] = call[u] /\ cmd'[u] = cmd[u]
           /\ outcome'[u] = outcome[u]
      /\ invokeId \in Calls /\ invokeId' = invokeId + 1
      /\ UNCHANGED <<queue, popped, rxAt, rxFrame, c2s, s2c>>
  BY BoundAssumption DEF Call, StartCall, IInv, TypeOK, Calls, readerVars, wireVars
<1>2. /\ target'[invokeId] = o
      /\ \A n \in Calls : n < invokeId => target'[n] = target[n]
      /\ seen'[t] = {objects[o]}
      /\ \A u \in Threads \ {t} : seen'[u] = seen[u]
      /\ UNCHANGED <<objects, answered>>
  BY <1>1 DEF Call, SystemInv, SystemTypeOK, Calls
<1>3. \A u \in Threads \ {t} : InCall(u) => call[u] \in Calls /\ call[u] < invokeId
  BY Frames
<1>4. invokeId \in Nat /\ MaxCalls \in Nat
  BY Typing DEF IInv
<1>5. SystemTypeOK'
  <2>1. objects[o] \in Values
    BY DEF SystemInv, SystemTypeOK, Values
  <2> QED
    BY <2>1 DEF SystemInv, SystemTypeOK, Call, Values
<1>6. ResponsesInv'
  <2>1. ASSUME NEW r \in Response, Carried(r)' PROVE Truthful(r)'
    <3>1. Carried(r)
      BY <1>1, <2>1 DEF Carried
    <3>2. Truthful(r) /\ r.call \in Nat /\ r.call < invokeId
      BY <3>1, FrameFields DEF SystemInv, ResponsesInv, Truthful
    <3>3. r.call < invokeId'
      BY <1>1, <1>4, <3>2
    <3>4. r.call \in Calls
      BY <1>1, <1>4, <3>2 DEF Calls
    <3>5. ASSUME NEW u \in Threads, InCall(u)', call'[u] = r.call
          PROVE  /\ u # t /\ InCall(u) /\ call[u] = r.call /\ cmd'[u] = cmd[u]
                 /\ seen'[u] = seen[u] /\ ValueOf(r.call)' = ValueOf(r.call)
      <4>1. u # t
        BY <1>1, <1>4, <3>2, <3>5
      <4> QED
        BY <1>1, <1>2, <3>2, <3>4, <3>5, <4>1 DEF InCall, ValueOf
    <3>6. ASSUME NEW u \in Threads, InCall(u)', call'[u] = r.call
          PROVE  /\ cmd'[u] = "read" => \E v \in seen'[u] : answered'[r.call] = {v}
                 /\ cmd'[u] = "write" /\ r.result = "success"
                      => ValueOf(r.call)' \in seen'[u]
      BY <1>2, <3>2, <3>5, <3>6 DEF Truthful
    <3> QED
      BY <3>3, <3>6 DEF Truthful
  <2> QED
    BY <2>1 DEF ResponsesInv
<1>7. SeenInv'
  BY <1>1, <1>2, <1>3 DEF SystemInv, SeenInv, InCall
<1>8. OnceInv'
  <2>1. \A n \in Calls : n >= invokeId' => answered'[n] = {}
    BY <1>1, <1>2, <1>4 DEF SystemInv, OnceInv, Calls
  <2>2. \A i \in 1..Len(c2s) : c2s[i].call # invokeId
    BY <1>4, Frames DEF Calls
  <2>3. answered[invokeId] = {}
    BY <1>1, <1>4 DEF SystemInv, OnceInv
  <2>4. ASSUME NEW u \in Threads, pc'[u] = "tx"
        PROVE  /\ answered'[call'[u]] = {}
               /\ \A i \in 1..Len(c2s') : c2s'[i].call # call'[u]
    BY <1>1, <1>2, <2>2, <2>3, <2>4 DEF SystemInv, OnceInv
  <2>5. \A i \in 1..Len(c2s) : answered[c2s[i].call] = {}
    BY DEF SystemInv, OnceInv
  <2>6. \A i, j \in 1..Len(c2s) : c2s[i].call = c2s[j].call => i = j
    BY DEF SystemInv, OnceInv
  <2> QED
    BY <1>1, <1>2, <2>1, <2>4, <2>5, <2>6 DEF OnceInv
<1>9. StartedInv'
  BY <1>1, <1>4, Typing DEF SystemInv, StartedInv, IInv
<1>10. ReadsCurrent'
  BY <1>1, <1>2 DEF SystemInv, ReadsCurrent, Ended
<1>11. WritesHappened'
  <2>1. ASSUME NEW u \in Threads, u # t, outcome[u] = "done"
        PROVE  ValueOf(call[u])' = ValueOf(call[u]) /\ call'[u] = call[u]
    <3>1. call[u] \in Calls /\ call[u] < invokeId
      BY <1>1, <1>4, <2>1, Typing DEF SystemInv, StartedInv, Calls, IInv
    <3> QED
      BY <1>1, <1>2, <2>1, <3>1 DEF ValueOf
  <2>2. \A u \in Threads : outcome'[u] = "done" => u # t
    BY <1>1
  <2> QED
    BY <1>1, <1>2, <2>1, <2>2 DEF SystemInv, WritesHappened, Ended, ValueOf
<1> QED
  BY <1>5, <1>6, <1>7, <1>8, <1>9, <1>10, <1>11 DEF SystemInv

\* The server serves a command: what its response says is true by then.
LEMMA ServeKeeps ==
  ASSUME SystemInv, IInv, NEW res \in Results, Serve(res)
  PROVE  SystemInv'
<1> DEFINE f == Head(c2s)
           n == f.call
           new == IF f.cmd = "write" /\ res = "success"
                    THEN [objects EXCEPT ![target[n]] = ValueOf(n)] ELSE objects
           held == IF f.cmd = "read" THEN {objects[target[n]]} ELSE answered[n]
           a == [kind |-> "response", id |-> f.id, call |-> n, cmd |-> f.cmd,
                 result |-> res]
<1>1. /\ c2s # <<>> /\ c2s' = Tail(c2s)
      /\ s2c' = Append(s2c, a) \/ s2c' = s2c
      /\ UNCHANGED <<invokeId, pc, call, cmd, popped, outcome, queue, rxAt, rxFrame, target>>
  BY DEF Serve, Answer, callVars, readerVars
<1>2. /\ objects' = new /\ seen' = Watched(new)
      /\ answered' = [answered EXCEPT ![n] = held]
  BY DEF Serve
<1>3. c2s \in Seq(CommandFrame) /\ s2c \in Seq(Frame)
  BY DEF IInv, TypeOK
<1>4. /\ f = c2s[1] /\ 1 \in 1..Len(c2s)
      /\ \A i \in 1..Len(c2s') : i + 1 \in 1..Len(c2s) /\ c2s'[i] = c2s[i + 1]
  BY <1>1, <1>3, TailElements
<1>5. /\ f \in CommandFrame /\ n \in Calls /\ n < invokeId
      /\ \A t \in Threads : InCall(t) /\ call[t] = n => cmd[t] = f.cmd
  BY <1>4, Frames
<1>6. n \in Nat /\ n + 1 \in 0..MaxCalls /\ MaxCalls \in Nat
  BY <1>5, BoundAssumption DEF Calls
<1>7. answered[n] = {} /\ target[n] \in Objects
  BY <1>4, <1>5 DEF SystemInv, OnceInv, SystemTypeOK
<1>8. a \in Response /\ a \in Frame /\ a.call = n /\ a.result = res
  BY <1>5, FrameFields DEF Response, Frame
<1> HIDE DEF f, a
<1>9. new \in [Objects -> Values] /\ \A o \in Objects : new[o][1] = o
  <2>1. objects \in [Objects -> Values] /\ \A o \in Objects : objects[o][1] = o
    BY DEF SystemInv, SystemTypeOK
  <2>2. ValueOf(n) \in Values /\ ValueOf(n)[1] = target[n]
    BY <1>6, <1>7 DEF ValueOf, Values
  <2> QED
    BY <1>7, <2>1, <2>2
<1>10. held \subseteq Values /\ (f.cmd = "read" => held = {objects[target[n]]})
       /\ (f.cmd # "read" => held = answered[n])
  BY <1>7 DEF SystemInv, SystemTypeOK
<1>11. /\ answered'[n] = held
       /\ \A m \in Calls : m # n => answered'[m] = answered[m]
  BY <1>2, <1>5 DEF SystemInv, SystemTypeOK
<1>12. f.cmd = "write" /\ res = "success" => new[target[n]] = ValueOf(n)
  BY <1>7 DEF SystemInv, SystemTypeOK
<1> HIDE DEF new, held
<1>13. \A t \in Threads : IF InCall(t) THEN seen'[t] = seen[t] \cup {new[target[call[t]]]}
                          ELSE seen'[t] = seen[t]
  BY <1>2 DEF Watched, InCall
<1>14. SystemTypeOK'
  <2>1. \A t \in Threads : InCall(t) => new[target[call[t]]] \in Values
    BY <1>9, Frames DEF SystemInv, SystemTypeOK
  <2>2. seen' \in [Threads -> SUBSET Values]
    BY <1>2, <2>1 DEF SystemInv, SystemTypeOK, Watched, InCall
  <2>3. answered' \in [Calls -> SUBSET Values]
    BY <1>2, <1>5, <1>10 DEF SystemInv, SystemTypeOK
  <2> QED
    BY <1>1, <1>2, <1>9, <2>2, <2>3 DEF SystemInv, SystemTypeOK, Values
<1>15. SeenInv'
  BY <1>1, <1>2, <1>13 DEF SeenInv, InCall
<1>16. ASSUME NEW r \in Response, r = a PROVE Truthful(r)'
  <2>1. ASSUME NEW t \in Threads, InCall(t), call[t] = n
        PROVE  /\ cmd[t] = "read" => \E v \in seen'[t] : answered'[n] = {v}
               /\ cmd[t] = "write" /\ res = "success" => ValueOf(n) \in seen'[t]
    <3>1. cmd[t] = f.cmd /\ objects[target[n]] \in seen[t]
      BY <1>5, <2>1 DEF SystemInv, SeenInv
    <3>2. seen'[t] = seen[t] \cup {new[target[n]]}
      BY <1>13, <2>1
    <3> QED
      BY <1>10, <1>11, <1>12, <3>1, <3>2
  <2> QED
    <3>1. r.call = n /\ r.result = res
      BY <1>8, <1>16
    <3> QED
      BY <1>1, <1>5, <2>1, <3>1 DEF Truthful, InCall, ValueOf
<1>17. ResponsesInv'
  <2>1. ASSUME NEW r \in Response, Carried(r)' PROVE Truthful(r)'
    <3>1. Carried(r) \/ r = a
      <4>1. \A i \in 1..Len(s2c') :
              (i \in 1..Len(s2c) /\ s2c'[i] = s2c[i]) \/ s2c'[i] = a
        <5>1. CASE s2c' = Append(s2c, a)
          BY <1>3, <1>8, <5>1, AppendElements
        <5>2. CASE s2c' = s2c
          BY <5>2
        <5> QED
          BY <1>1, <5>1, <5>2
      <4> QED
        BY <1>1, <2>1, <4>1 DEF Carried
    <3>2. CASE Carried(r)
      <4>1. Truthful(r) /\ r.call \in Nat
        BY <3>2, FrameFields DEF SystemInv, ResponsesInv
      <4>2. r.call \in Calls
        BY <4>1, Typing DEF Truthful, IInv, Calls
      <4>3. ASSUME NEW t \in Threads, InCall(t), call[t] = r.call
            PROVE  /\ cmd[t] = "read" => \E v \in seen'[t] : answered'[r.call] = {v}
                   /\ cmd[t] = "write" /\ r.result = "success" => ValueOf(r.call) \in seen'[t]
        <5>1. seen[t] \subseteq seen'[t]
          BY <1>13
        <5>2. cmd[t] = "read" => answered[r.call] # {}
          BY <4>1, <4>3 DEF Truthful
        <5>3. cmd[t] = "read" => answered'[r.call] = answered[r.call]
          BY <1>7, <1>11, <4>2, <5>2
        <5> QED
          BY <4>1, <4>3, <5>1, <5>3 DEF Truthful
      <4> QED
        BY <1>1, <4>1, <4>3 DEF Truthful, InCall, ValueOf
    <3>3. CASE r = a
      BY <1>16, <3>3
    <3> QED
      BY <3>1, <3>2, <3>3
  <2> QED
    BY <2>1 DEF ResponsesInv
<1>18. OnceInv'
  <2>1. \A k, l \in 1..Len(c2s) : c2s[k].call = c2s[l].call => k = l
    BY DEF SystemInv, OnceInv
  <2>2. ASSUME NEW i \in 1..Len(c2s')
        PROVE  c2s'[i].call # n /\ c2s'[i].call \in Calls /\ answered[c2s'[i].call] = {}
    <3>1. i + 1 \in 1..Len(c2s) /\ c2s'[i] = c2s[i + 1] /\ i + 1 # 1
      BY <1>4
    <3>2. c2s[i + 1].call # n /\ c2s[i + 1].call \in Calls
      BY <1>4, <2>1, <3>1, Frames DEF f
    <3>3. answered[c2s[i + 1].call] = {}
      BY <3>1 DEF SystemInv, OnceInv
    <3> QED
      BY <3>1, <3>2, <3>3
  <2>3. \A i \in 1..Len(c2s') : answered'[c2s'[i].call] = {}
    BY <1>11, <2>2
  <2>4. ASSUME NEW i \in 1..Len(c2s'), NEW j \in 1..Len(c2s'), c2s'[i].call = c2s'[j].call
        PROVE  i = j
    <3>1. c2s[i + 1].call = c2s[j + 1].call
      BY <1>4, <2>4
    <3>2. i + 1 = j + 1
      BY <1>4, <2>1, <3>1
    <3> QED
      BY <3>2
  <2>5. ASSUME NEW t \in Threads, pc[t] = "tx"
        PROVE  /\ answered'[call[t]] = {}
               /\ \A i \in 1..Len(c2s') : c2s'[i].call # call[t]
    <3>1. /\ answered[call[t]] = {} /\ \A i \in 1..Len(c2s) : c2s[i].call # call[t]
          /\ call[t] \in Calls
      BY <2>5, Frames DEF SystemInv, OnceInv, InCall
    <3>2. call[t] # n
      BY <1>4, <3>1 DEF f
    <3> QED
      BY <1>4, <1>11, <3>1, <3>2
  <2>6. \A m \in Calls : m >= invokeId => answered'[m] = {}
    <3>1. \A m \in Calls : m >= invokeId => m # n /\ answered[m] = {}
      BY <1>5, <1>6, Typing DEF SystemInv, OnceInv, IInv, Calls
    <3> QED
      BY <1>11, <3>1
  <2> QED
    BY <1>1, <2>3, <2>4, <2>5, <2>6 DEF OnceInv
<1>19. StartedInv'
  BY <1>1 DEF SystemInv, StartedInv
<1>20. ReadsCurrent'
  <2>1. ASSUME NEW t \in Threads, Ended(t), outcome[t] = "value"
        PROVE  \E v \in seen'[t] : answered'[popped[t].call] = {v}
    <3>1. PICK v \in seen[t] : answered[popped[t].call] = {v}
      BY <2>1 DEF SystemInv, ReadsCurrent
    <3>2. popped[t] \in Response /\ popped[t].call \in Nat /\ call[t] \in Nat
      BY <2>1, FrameFields, Typing DEF Ended, IInv, TypeOK
    <3>3. popped[t].call = call[t]
      BY <2>1, <3>2, IdModAssumption DEF Ended, IInv, OwnResponse
    <3>4. popped[t].call \in Calls
      BY <2>1, <3>2, <3>3, Typing DEF SystemInv, StartedInv, IInv, Calls
    <3>5. answered'[popped[t].call] = {v}
      BY <1>7, <1>11, <3>1, <3>4
    <3>6. seen'[t] = seen[t]
      BY <1>13, <2>1 DEF Ended, InCall
    <3> QED
      BY <3>1, <3>5, <3>6
  <2> QED
    BY <1>1, <2>1 DEF ReadsCurrent, Ended
<1>21. WritesHappened'
  BY <1>1, <1>13 DEF SystemInv, WritesHappened, Ended, InCall, ValueOf
<1> QED
  BY <1>14, <1>15, <1>17, <1>18, <1>19, <1>20, <1>21 DEF SystemInv

-----------------------------------------------------------------------------
(* The theorems. *)

LEMMA SystemInvariance == SystemSpec => []SystemInv
<1>1. SystemInv /\ IInv /\ [SystemNext]_systemVars => SystemInv'
  <2>1. ASSUME SystemInv, IInv, SystemNext PROVE SystemInv'
    <3>1. ASSUME NEW t \in Threads, NEW c \in Commands, NEW o \in Objects, Call(t, c, o)
          PROVE  SystemInv'
      BY <2>1, <3>1, CallKeeps
    <3>2. ASSUME NEW res \in Results, Serve(res) PROVE SystemInv'
      BY <2>1, <3>2, ServeKeeps
    <3>3. ASSUME NEW t \in Threads, ThreadStep(t), UNCHANGED serverVars PROVE SystemInv'
      BY <2>1, <3>3, TxKeeps, TxRaiseKeeps, WaitKeeps, DeleteKeeps DEF ThreadStep
    <3>4. ASSUME ReaderStep, UNCHANGED serverVars PROVE SystemInv'
      BY <2>1, <3>4, ReaderKeeps
    <3>5. ASSUME \/ \E frame \in {Alert, Hello} : SendUnsolicited(frame)
                 \/ LoseCommand
                 \/ LoseFrame
                 \/ LeaveStale,
                 UNCHANGED serverVars
          PROVE  SystemInv'
      BY <2>1, <3>5, LineKeeps
    <3>6. ASSUME CloseStep, UNCHANGED serverVars PROVE SystemInv'
      BY <2>1, <3>6, InterruptKeeps, ConnectionKeeps DEF CloseStep
    <3> QED
      BY <2>1, <3>1, <3>2, <3>3, <3>4, <3>5, <3>6 DEF SystemNext
  <2>2. ASSUME SystemInv, UNCHANGED systemVars PROVE SystemInv'
    <3>1. /\ UNCHANGED <<invokeId, pc, call, cmd, popped, outcome, queue, rxAt, rxFrame,
                         c2s, s2c>>
          /\ UNCHANGED <<objects, target, answered, seen>>
      BY <2>2 DEF systemVars, vars, serverVars, callVars, readerVars, wireVars
    <3>2. SystemTypeOK' /\ SeenInv' /\ OnceInv' /\ StartedInv'
      BY <2>2, <3>1 DEF SystemInv, SystemTypeOK, SeenInv, OnceInv, StartedInv, InCall, Values
    <3>3. ResponsesInv'
      BY <2>2, <3>1 DEF SystemInv, ResponsesInv, Carried, Truthful, InCall, ValueOf
    <3>4. ReadsCurrent' /\ WritesHappened'
      BY <2>2, <3>1 DEF SystemInv, ReadsCurrent, WritesHappened, Ended, ValueOf
    <3> QED
      BY <3>2, <3>3, <3>4 DEF SystemInv
  <2> QED
    BY <2>1, <2>2
<1> QED
  BY <1>1, InitSystemInv, ClientSteps, Invariance, PTL DEF SystemSpec

\* Every object holds its first value or one that was written to it.
THEOREM SystemTypeCorrect == SystemSpec => []SystemTypeOK
<1>1. SystemInv => SystemTypeOK
  BY DEF SystemInv
<1> QED
  BY SystemInvariance, <1>1, PTL

\* A read returns a value its object had while it was made, unless its call
\* waits while IdMod others are made.
THEOREM ReadsCorrect == SystemSpec => []ReadsCurrent
<1>1. SystemInv => ReadsCurrent
  BY DEF SystemInv
<1> QED
  BY SystemInvariance, <1>1, PTL

\* A write that was answered with success has happened while it was made.
THEOREM WritesCorrect == SystemSpec => []WritesHappened
<1>1. SystemInv => WritesHappened
  BY DEF SystemInv
<1> QED
  BY SystemInvariance, <1>1, PTL

\* What is proved of the client with any server holds with this one: a call
\* ends with its own response (client.rb:70).
THEOREM SystemResponses == SystemSpec => []OwnResponse
  BY ClientSteps, ResponsesCorrect, PTL
=============================================================================
