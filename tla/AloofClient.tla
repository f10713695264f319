---------------------------- MODULE AloofClient ----------------------------
(***************************************************************************)
(* The Ruby client (lib/aloof/client.rb): application threads that call    *)
(* read and write, the transport's reader thread that runs the on_rx       *)
(* block, and what they share: the invoke id counter, the @pending table   *)
(* and one TimeoutQueue per call in progress.                              *)
(*                                                                         *)
(* A step is a piece of Ruby code between two accesses to shared state.    *)
(* next_invoke_id is one step: the client needs MRI (slip.rb loads the C   *)
(* extension serialport), which does not switch threads inside it.         *)
(* TimeoutQueue's push and pop hold its mutex and are one step each.       *)
(*                                                                         *)
(* Time is not modelled: a wait on an empty queue may expire at any        *)
(* moment.  The field "call" of a frame names the call the frame belongs   *)
(* to; it is not on the wire and no step of the client tests it.           *)
(*                                                                         *)
(* The application may close the client and open it again.  Over TCP the   *)
(* new connection has frames of its own; the server still serves what the  *)
(* closed one left (stale), and its answers reach nobody.  Whoever closes  *)
(* is in no call, and is not the callback.                                 *)
(***************************************************************************)
EXTENDS Naturals, Sequences

CONSTANTS
    Callers,        \* application threads
    Reader,         \* the transport's reader thread
    IdMod,          \* invoke ids on the wire (the code: 128, seven bits)
    Transports,     \* the transports a client may be made with
    Results,        \* what may become of a command
    MaxCalls,       \* bound: calls started in a behaviour
    MaxUnsolicited, \* bound: alerts and hellos the server sends
    MaxTcpCloses,   \* bound: how often a client over TCP is closed
    MaxSlipCloses   \* bound: how often one on a serial line is

Threads == Callers \cup {Reader}

ASSUME ThreadAssumption == Reader \notin Callers
ASSUME IdModAssumption == IdMod \in Nat \ {0}
ASSUME TransportAssumption == Transports \subseteq {"tcp", "slip_crc16"}
ASSUME ResultAssumption == Results \subseteq {"success", "failure"}
ASSUME BoundAssumption ==
    /\ MaxCalls \in Nat /\ MaxUnsolicited \in Nat
    /\ MaxTcpCloses \in Nat /\ MaxSlipCloses \in Nat

Commands == {"read", "write"}

\* What Command#encode keeps of an invoke id, and Response.decode returns.
WireId(n) == n % IdMod

CommandFrame == [kind: {"command"}, id: Nat, call: Nat, cmd: Commands]
Response     == [kind: {"response"}, id: Nat, call: Nat, cmd: Commands,
                 result: Results]
Alert   == [kind |-> "alert"]
Hello   == [kind |-> "hello"]
Nil     == [kind |-> "nil"]     \* Ruby's nil where a response may be

VARIABLES
    invokeId,   \* @invoke_id
    pending,    \* @pending: from an invoke id to the call whose queue it is
    queue,      \* the TimeoutQueue of each call
    pc,         \* where each thread is in Client#transport
    call,       \* the invoke id of each thread's command
    cmd,        \* the command each thread sent last
    popped,     \* what q.pop gave each thread
    outcome,    \* what read or write did with it: a value or an exception
    rxAt,       \* where the reader is: "recv", "push", "alert" or "dead"
    rxFrame,    \* the response the reader is about to push
    rxJob,      \* the queue it pushes it on
    c2s, s2c,   \* frames on the wire, in order
    unsolicited,\* how many alerts and hellos the server has sent
    transport,  \* @transport: a Tcp or a Slip
    socket,     \* its socket or serial port: "open" or "closed"
    closes,     \* how often it was closed
    stale,      \* how many frames of c2s came over connections closed since
    broken,     \* history: registered calls that a close broke off
    delivered,  \* history: calls whose response was pushed on a queue
    dropped     \* history: calls whose response found no pending entry

callVars   == <<invokeId, pc, call, cmd, popped, outcome>>
readerVars == <<rxAt, rxFrame, rxJob, delivered, dropped>>
wireVars   == <<c2s, s2c, unsolicited>>
connVars   == <<transport, socket, closes, stale, broken>>
vars == <<pending, queue, callVars, readerVars, wireVars, connVars>>

Init ==
    /\ invokeId = 0
    /\ pending = [k \in {} |-> 0]
    /\ queue = [n \in 0..MaxCalls-1 |-> <<>>]
    /\ pc = [t \in Threads |-> "idle"]
    /\ call = [t \in Threads |-> 0]
    /\ cmd = [t \in Threads |-> "read"]
    /\ popped = [t \in Threads |-> Nil]
    /\ outcome = [t \in Threads |-> "none"]
    /\ rxAt = "recv"
    /\ rxFrame = Nil
    /\ rxJob = 0
    /\ c2s = <<>>
    /\ s2c = <<>>
    /\ unsolicited = 0
    /\ transport \in Transports
    /\ socket = "open"
    /\ closes = 0
    /\ stale = 0
    /\ broken = {}
    /\ delivered = {}
    /\ dropped = {}

-----------------------------------------------------------------------------
(* A call: read or write, and the transport method they share. *)

\* Mutant: the counter wraps with the ids on the wire.
StartCallWrapping(t, c) ==
    /\ pc[t] = "idle"
    /\ t = Reader => rxAt = "alert"
    /\ invokeId < MaxCalls
    /\ invokeId' = WireId(invokeId + 1)
    /\ call' = [call EXCEPT ![t] = invokeId]
    /\ cmd' = [cmd EXCEPT ![t] = c]
    /\ pc' = [pc EXCEPT ![t] = "tx"]
    /\ outcome' = [outcome EXCEPT ![t] = "none"]
    /\ UNCHANGED <<pending, queue, popped, readerVars, wireVars, connVars>>

\* A thread may call the client when it is not in a call; the reader thread
\* may do so only from the application's on_alert block.
StartCall(t, c) ==
    /\ pc[t] = "idle"
    /\ t = Reader => rxAt = "alert"
    /\ invokeId < MaxCalls
    /\ invokeId' = invokeId + 1
    /\ call' = [call EXCEPT ![t] = invokeId]
    /\ cmd' = [cmd EXCEPT ![t] = c]
    /\ pc' = [pc EXCEPT ![t] = "tx"]
    /\ outcome' = [outcome EXCEPT ![t] = "none"]
    /\ UNCHANGED <<pending, queue, popped, readerVars, wireVars, connVars>>

Tx(t) ==
    /\ pc[t] = "tx"
    /\ socket = "open"
    /\ c2s' = Append(c2s, [kind |-> "command", id |-> WireId(call[t]),
                           call |-> call[t], cmd |-> cmd[t]])
    /\ pc' = [pc EXCEPT ![t] = "register"]
    /\ UNCHANGED <<pending, queue, invokeId, call, cmd, popped, outcome,
                   readerVars, s2c, unsolicited, connVars>>

\* encode cannot represent the value, or the transport is closed: transport
\* raises, the id is used up and nothing was sent or registered.
TxRaise(t) ==
    /\ pc[t] = "tx"
    /\ popped' = [popped EXCEPT ![t] = Nil]
    /\ outcome' = [outcome EXCEPT ![t] = "raised"]
    /\ pc' = [pc EXCEPT ![t] = "idle"]
    /\ UNCHANGED <<pending, queue, invokeId, call, cmd, readerVars, wireVars, connVars>>

\* The table is keyed by the counter's value, not by its wire form.
Register(t) ==
    /\ pc[t] = "register"
    /\ pending' = [k \in DOMAIN pending \cup {call[t]} |->
                     IF k = call[t] THEN call[t] ELSE pending[k]]
    /\ pc' = [pc EXCEPT ![t] = "wait"]
    /\ UNCHANGED <<queue, invokeId, call, cmd, popped, outcome, readerVars,
                   wireVars, connVars>>

Pop(t) ==
    /\ pc[t] = "wait"
    /\ queue[call[t]] # <<>>
    /\ popped' = [popped EXCEPT ![t] = Head(queue[call[t]])]
    /\ queue' = [queue EXCEPT ![call[t]] = Tail(@)]
    /\ pc' = [pc EXCEPT ![t] = "delete"]
    /\ UNCHANGED <<pending, invokeId, call, cmd, outcome, readerVars, wireVars, connVars>>

\* Mutant: pop without its timeout.
TimeoutNever(t) == FALSE

\* Mutant: transport without "rescue ThreadError".
TimeoutUnrescued(t) ==
    /\ pc[t] = "wait"
    /\ queue[call[t]] = <<>>
    /\ popped' = [popped EXCEPT ![t] = Nil]
    /\ outcome' = [outcome EXCEPT ![t] = "ThreadError"]
    /\ pc' = [pc EXCEPT ![t] = "idle"]
    /\ UNCHANGED <<pending, queue, invokeId, call, cmd, readerVars, wireVars, connVars>>

\* pop raises ThreadError only after it has found the queue empty.
Timeout(t) ==
    /\ pc[t] = "wait"
    /\ queue[call[t]] = <<>>
    /\ popped' = [popped EXCEPT ![t] = Nil]
    /\ pc' = [pc EXCEPT ![t] = "delete"]
    /\ UNCHANGED <<pending, queue, invokeId, call, cmd, outcome, readerVars,
                   wireVars, connVars>>

\* What read and write make of the response.  write looks no further than
\* its class: a failure is not an error to it.
Outcome(c, r) ==
    CASE r = Nil                                   -> "TimeoutError"
      [] r # Nil /\ c = "write"                    -> "done"
      [] r # Nil /\ c = "read" /\ r.cmd # "read"   -> "RuntimeError"
      [] r # Nil /\ c = "read" /\ r.cmd = "read"   ->
           IF r.result = "success" THEN "value" ELSE "AccessError"

\* Mutant: the table is cleared, as if one call at a time were in progress.
DeleteAll(t) ==
    /\ pc[t] = "delete"
    /\ pending' = [k \in {} |-> 0]
    /\ outcome' = [outcome EXCEPT ![t] = Outcome(cmd[t], popped[t])]
    /\ pc' = [pc EXCEPT ![t] = "idle"]
    /\ UNCHANGED <<queue, invokeId, call, cmd, popped, readerVars, wireVars, connVars>>

Delete(t) ==
    /\ pc[t] = "delete"
    /\ pending' = [k \in DOMAIN pending \ {call[t]} |-> pending[k]]
    /\ outcome' = [outcome EXCEPT ![t] = Outcome(cmd[t], popped[t])]
    /\ pc' = [pc EXCEPT ![t] = "idle"]
    /\ UNCHANGED <<queue, invokeId, call, cmd, popped, readerVars, wireVars, connVars>>

-----------------------------------------------------------------------------
(* The reader thread: the on_rx block. *)

\* Mutant: the callback runs on a thread of its own.
ReceivedDuringAlert(kind) ==
    /\ rxAt \in {"recv", "alert"}
    /\ socket = "open" /\ s2c # <<>> /\ Head(s2c).kind = kind

Received(kind) ==
    rxAt = "recv" /\ socket = "open" /\ s2c # <<>> /\ Head(s2c).kind = kind

\* Mutant: the response goes to some call in progress.
LookUpAny ==
    /\ Received("response")
    /\ s2c' = Tail(s2c)
    /\ \/ /\ DOMAIN pending # {}
          /\ rxAt' = "push"
          /\ rxFrame' = Head(s2c)
          /\ rxJob' \in DOMAIN pending
          /\ UNCHANGED dropped
       \/ /\ DOMAIN pending = {}
          /\ dropped' = dropped \cup {Head(s2c).call}
          /\ UNCHANGED <<rxAt, rxFrame, rxJob>>
    /\ UNCHANGED <<pending, queue, callVars, delivered, c2s, unsolicited, connVars>>

\* job = @pending[msg.invoke_id], and what follows when there is none.
LookUp ==
    /\ Received("response")
    /\ s2c' = Tail(s2c)
    /\ IF Head(s2c).id \in DOMAIN pending
         THEN /\ rxAt' = "push"
              /\ rxFrame' = Head(s2c)
              /\ rxJob' = pending[Head(s2c).id]
              /\ UNCHANGED dropped
         ELSE /\ dropped' = dropped \cup {Head(s2c).call}
              /\ UNCHANGED <<rxAt, rxFrame, rxJob>>
    /\ UNCHANGED <<pending, queue, callVars, delivered, c2s, unsolicited, connVars>>

\* job.push(msg): on the queue it found, whether or not anyone waits there.
Push ==
    /\ rxAt = "push"
    /\ queue' = [queue EXCEPT ![rxJob] = Append(@, rxFrame)]
    /\ delivered' = delivered \cup {rxFrame.call}
    /\ rxAt' = "recv"
    /\ rxFrame' = Nil
    /\ rxJob' = 0
    /\ UNCHANGED <<pending, callVars, dropped, wireVars, connVars>>

\* Hello.decode returns nil, so the block's Hello branch is never taken.
IgnoreHello ==
    /\ Received("hello")
    /\ s2c' = Tail(s2c)
    /\ UNCHANGED <<pending, queue, callVars, readerVars, c2s, unsolicited, connVars>>

\* @on_alert.call(msg) runs the application's block on the reader thread.
AlertBegin ==
    /\ Received("alert")
    /\ s2c' = Tail(s2c)
    /\ rxAt' = "alert"
    /\ UNCHANGED <<pending, queue, callVars, rxFrame, rxJob, delivered, dropped,
                   c2s, unsolicited, connVars>>

AlertReturn ==
    /\ rxAt = "alert"
    /\ pc[Reader] = "idle"
    /\ rxAt' = "recv"
    /\ UNCHANGED <<pending, queue, callVars, rxFrame, rxJob, delivered, dropped,
                   wireVars, connVars>>

\* Tcp rescues what the block raises; Slip does not and its thread ends.
AlertRaise ==
    /\ rxAt = "alert"
    /\ pc[Reader] = "idle"
    /\ rxAt' = IF transport = "tcp" THEN "recv" ELSE "dead"
    /\ UNCHANGED <<pending, queue, callVars, rxFrame, rxJob, delivered, dropped,
                   wireVars, connVars>>

-----------------------------------------------------------------------------
(* The server and the line, as far as the client can tell them. *)

\* aloof_server_process answers a command under the invoke field it came with.
Answer(res) ==
    /\ c2s # <<>>
    /\ c2s' = Tail(c2s)
    /\ IF stale = 0
         THEN /\ s2c' = Append(s2c, [kind |-> "response", id |-> Head(c2s).id,
                                     call |-> Head(c2s).call, cmd |-> Head(c2s).cmd,
                                     result |-> res])
              /\ UNCHANGED stale
         ELSE stale' = stale - 1 /\ UNCHANGED s2c
    /\ UNCHANGED <<pending, queue, callVars, readerVars, unsolicited, transport,
                   socket, closes, broken>>

SendUnsolicited(frame) ==
    /\ unsolicited < MaxUnsolicited
    /\ transport = "tcp" => socket = "open" /\ stale = 0
    /\ unsolicited' = unsolicited + 1
    /\ s2c' = Append(s2c, frame)
    /\ UNCHANGED <<pending, queue, callVars, readerVars, c2s, connVars>>

\* A frame damaged on the serial line fails its CRC and is thrown away; so are
\* those that came before Slip#open flushed its input.
LoseCommand ==
    /\ transport = "slip_crc16"
    /\ c2s # <<>>
    /\ c2s' = Tail(c2s)
    /\ UNCHANGED <<pending, queue, callVars, readerVars, s2c, unsolicited, connVars>>

LoseFrame ==
    /\ transport = "slip_crc16"
    /\ rxAt = "recv"
    /\ s2c # <<>>
    /\ s2c' = Tail(s2c)
    /\ UNCHANGED <<pending, queue, callVars, readerVars, c2s, unsolicited, connVars>>

\* The server's write to a connection the client has closed fails: it reads no
\* more of that one.
LeaveStale ==
    /\ stale > 0
    /\ c2s' = SubSeq(c2s, stale + 1, Len(c2s))
    /\ stale' = 0
    /\ UNCHANGED <<pending, queue, callVars, readerVars, s2c, unsolicited,
                   transport, socket, closes, broken>>

-----------------------------------------------------------------------------
(* Client#close and Client#open. *)

Registered(t) == pc[t] \in {"wait", "delete"}

\* Tcp#close raises Interrupt in the reader thread, wherever it is, and waits for
\* its end.  No rescue on the way there takes an Interrupt: a call the callback is
\* in is broken off, and if it has registered, its entry stays in @pending.
CloseInterrupt ==
    /\ transport = "tcp" /\ socket = "open"
    /\ rxAt # "dead"
    /\ closes < MaxTcpCloses
    /\ closes' = closes + 1
    /\ rxAt' = "dead"
    /\ rxFrame' = Nil
    /\ rxJob' = 0
    /\ pc' = [pc EXCEPT ![Reader] = "idle"]
    /\ popped' = [popped EXCEPT ![Reader] = Nil]
    /\ outcome' = [outcome EXCEPT ![Reader] = "Interrupt"]
    /\ broken' = IF Registered(Reader) THEN broken \cup {call[Reader]} ELSE broken
    /\ UNCHANGED <<pending, queue, invokeId, call, cmd, delivered, dropped,
                   wireVars, transport, socket, stale>>

\* Then it closes the socket, whose frames nobody will read.
CloseSocket ==
    /\ transport = "tcp" /\ socket = "open"
    /\ rxAt = "dead"
    /\ socket' = "closed"
    /\ s2c' = <<>>
    /\ stale' = Len(c2s)
    /\ UNCHANGED <<pending, queue, callVars, readerVars, c2s, unsolicited,
                   transport, closes, broken>>

\* Slip#close closes the port; the reader ends when it next reads it.
ClosePort ==
    /\ transport = "slip_crc16" /\ socket = "open"
    /\ closes < MaxSlipCloses
    /\ closes' = closes + 1
    /\ socket' = "closed"
    /\ UNCHANGED <<pending, queue, callVars, readerVars, wireVars, transport, stale,
                   broken>>

ReaderEnds ==
    /\ rxAt = "recv" /\ socket = "closed"
    /\ rxAt' = "dead"
    /\ UNCHANGED <<pending, queue, callVars, rxFrame, rxJob, delivered, dropped,
                   wireVars, connVars>>

\* A new connection and a new reader thread; @invoke_id and @pending go on.
Open ==
    /\ socket = "closed" /\ rxAt = "dead"
    /\ socket' = "open"
    /\ rxAt' = "recv"
    /\ UNCHANGED <<pending, queue, callVars, rxFrame, rxJob, delivered, dropped,
                   wireVars, transport, closes, stale, broken>>

-----------------------------------------------------------------------------
ThreadStep(t) == Tx(t) \/ TxRaise(t) \/ Register(t) \/ Pop(t) \/ Timeout(t) \/ Delete(t)
ReaderStep    == LookUp \/ Push \/ IgnoreHello \/ AlertBegin \/ AlertReturn
                 \/ AlertRaise \/ ReaderEnds
CloseStep     == CloseInterrupt \/ CloseSocket \/ ClosePort \/ Open

Next ==
    \/ \E t \in Threads, c \in Commands : StartCall(t, c)
    \/ \E t \in Threads : Tx(t)
    \/ \E t \in Threads : TxRaise(t)
    \/ \E t \in Threads : Register(t)
    \/ \E t \in Threads : Pop(t)
    \/ \E t \in Threads : Timeout(t)
    \/ \E t \in Threads : Delete(t)
    \/ LookUp \/ Push \/ IgnoreHello
    \/ AlertBegin \/ AlertReturn \/ AlertRaise
    \/ \E res \in Results : Answer(res)
    \/ \E frame \in {Alert, Hello} : SendUnsolicited(frame)
    \/ LoseCommand \/ LoseFrame \/ LeaveStale
    \/ CloseInterrupt \/ CloseSocket \/ ClosePort \/ ReaderEnds \/ Open

Spec == Init /\ [][Next]_vars

\* Ruby schedules every runnable thread, and a timed wait ends: a thread in a
\* call keeps moving, and so does the reader, whose callback returns or raises.
Fairness ==
    /\ \A t \in Threads : WF_vars(ThreadStep(t))
    /\ WF_vars(ReaderStep)

-----------------------------------------------------------------------------
(* Properties. *)

Calls == 0..MaxCalls-1
Frame == Response \cup {Alert, Hello}

\* Every variable holds what the code may store in it.
TypeOK ==
    /\ invokeId \in 0..MaxCalls
    /\ DOMAIN pending \subseteq Calls
    /\ \A k \in DOMAIN pending : pending[k] \in Calls
    /\ queue \in [Calls -> Seq(Response)]
    /\ pc \in [Threads -> {"idle", "tx", "register", "wait", "delete"}]
    /\ call \in [Threads -> Nat]
    /\ cmd \in [Threads -> Commands]
    /\ popped \in [Threads -> Response \cup {Nil}]
    /\ outcome \in [Threads -> {"none", "value", "done", "AccessError",
                                "TimeoutError", "RuntimeError", "raised",
                                "Interrupt"}]
    /\ rxAt \in {"recv", "push", "alert", "dead"}
    /\ rxFrame \in Response \cup {Nil}
    /\ rxAt = "push" => rxFrame \in Response /\ rxJob \in Calls
    /\ rxJob \in Nat
    /\ c2s \in Seq(CommandFrame)
    /\ s2c \in Seq(Frame)
    /\ unsolicited \in 0..MaxUnsolicited
    /\ transport \in Transports
    /\ socket \in {"open", "closed"}
    /\ closes \in 0..(IF transport = "tcp" THEN MaxTcpCloses ELSE MaxSlipCloses)
    /\ stale \in 0..(IF transport = "tcp" THEN Len(c2s) ELSE 0)
    /\ broken \subseteq Calls
    /\ delivered \subseteq Calls
    /\ dropped \subseteq Calls

\* @pending holds the calls between "@pending[id] = q" and "@pending.delete(id)",
\* each under its own id, and what close left behind: no call loses its entry to
\* another's delete, and none but a call of the callback's that Tcp#close broke off
\* keeps it, whether it ended with an answer, a timeout or an exception.
PendingTracksCalls ==
    /\ DOMAIN pending = {call[t] : t \in {u \in Threads : Registered(u)}} \cup broken
    /\ \A k \in DOMAIN pending : pending[k] = k

\* The response a call ends with answers that call's own command, neither an
\* earlier one whose answer came late nor another thread's.  The exception is
\* the answer to a later call that got the same seven bits for its id while
\* this one was still waiting.
OwnResponse ==
    \A t \in Threads :
        /\ pc[t] \in {"idle", "delete"}
        /\ popped[t] # Nil
        => \/ popped[t].call = call[t] /\ popped[t].cmd = cmd[t]
           \/ popped[t].call >= call[t] + IdMod

\* A response that was pushed is in the queue of the call that waits for it:
\* with Timeout's empty queue, no registered call times out on an answer the
\* reader delivered.
DeliveredIsQueued ==
    invokeId <= IdMod =>
        \A t \in Threads :
            pc[t] = "wait" /\ call[t] \in delivered => queue[call[t]] # <<>>

\* The on_rx block throws a response away only when its call has not yet
\* registered, has given up, or had an id that no response can carry.
DropsOnlyUnclaimed ==
    [][\A n \in dropped' \ dropped :
         \A t \in Threads : Registered(t) /\ call[t] = n => n >= IdMod]_vars

\* A call made from the on_alert block cannot be answered: the thread that
\* would push the response is the one that waits for it.
ReaderCannotAnswerItself == pc[Reader] = "delete" => popped[Reader] = Nil

\* Every call returns or raises, whatever is lost and even when the reader
\* thread has died: pop is given a timeout.
CallsReturn == \A t \in Threads : pc[t] # "idle" ~> pc[t] = "idle"

\* The reader never stays blocked: it takes every frame off the wire unless
\* it has died, also when its callback calls the client.
FramesDrain == []<>(s2c = <<>> \/ rxAt = "dead")

\* sweep_test.rb:42: a read the server has answered returns what it answered.
\* A call must not time out when the on_rx block has already handled its
\* response.
TimeoutMeansUnanswered ==
    [][\A t \in Threads :
         pc[t] = "wait" /\ pc'[t] = "delete" /\ popped'[t] = Nil
           => call[t] \notin delivered \cup dropped]_vars

\* specification.asn1:60-70: the invoke id is a seven bit field, so the entry
\* of a registered call is found under the id its response carries.
RegisteredUnderWireId ==
    \A t \in Threads : Registered(t) => WireId(call[t]) \in DOMAIN pending
=============================================================================
