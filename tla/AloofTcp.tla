------------------------------ MODULE AloofTcp ------------------------------
(***************************************************************************)
(* Messages over TCP: Aloof::Tcp (lib/aloof/tcp.rb) against the loop of the *)
(* test server (main.c).  Each message goes behind its size in two bytes.  *)
(*                                                                         *)
(* A connection is two streams of bytes.  What is written moves into a     *)
(* stream in pieces of any length, as far as there is room, and a read     *)
(* takes what is there, up to what it asked for.  The kernel connects a    *)
(* client before the server accepts it; once an end is closed, what is     *)
(* under way may be lost.  All this is external.                           *)
(*                                                                         *)
(* tx takes no lock, and neither does IO#write on a socket: what does not  *)
(* fit it writes later, and another thread's bytes may come in between.    *)
(* The application's threads write, and the reader thread in the callback. *)
(***************************************************************************)
EXTENDS Integers, Sequences, FiniteSets, SequencesExt

CONSTANTS
    Callers,        \* application threads
    Reader,         \* the reader thread
    Payloads,       \* what the client sends
    Reply(_),       \* what aloof_server_process makes of a message, <<>> if nothing
    Base,           \* 256: values of a byte
    Buffer,         \* 1024: the size of rx_buffer
    Capacity,       \* bytes a stream has room for
    MaxMessages,    \* bound: messages sent
    MaxSessions     \* bound: times the client opens

ASSUME SizesAssumption ==
    /\ Base \in Nat \ {0, 1} /\ Capacity \in Nat \ {0}
    /\ Buffer \in Nat /\ Buffer < Base * Base
    /\ MaxMessages \in Nat /\ MaxSessions \in Nat

Threads == Callers \cup {Reader}

ASSUME ThreadAssumption == Reader \notin Callers

Bytes == Seq(0..Base-1)

ASSUME PayloadsAssumption == Payloads \subseteq Bytes \ {<<>>}

\* A reply fits into tx_buffer, which is as large as rx_buffer.
ASSUME ReplyAssumption ==
    \A n \in 0..Buffer : \A m \in [1..n -> 0..Base-1] :
        Reply(m) \in Bytes /\ Len(Reply(m)) <= Buffer

Sessions == 1..MaxSessions

VARIABLES
    session,    \* the client's connection: 0 before it opens
    running,    \* @running
    tx,         \* what each thread's tx has to write: a message, or what is left
                \* of one whose first bytes are written
    reader,     \* the reader thread: where it is, and the size it read
    server,     \* the server's connection, where it is, the size it read, and
                \* what it has still to write
    link,       \* of each connection, its two streams and which ends are open
    short,      \* history: whether a recv of the client gave less than it asked for
    mixed,      \* history: whether a thread wrote between the bytes of another
    sent,       \* history: begun by the client, on each connection ...
    processed,  \* ... what the server took from it ...
    replied,    \* ... what the server wrote ...
    delivered   \* ... and what the client's handler got

vars == <<session, running, tx, reader, server, link, short, mixed, sent, processed,
          replied, delivered>>

client == <<session, running, tx, reader, short, mixed, sent, delivered>>

Idle == [msg |-> <<>>, left |-> <<>>]
NoReader == [pc |-> "dead", size |-> 0]
Listening(c) == [conn |-> c, pc |-> "accept", size |-> 0, out |-> <<>>]

Init ==
    /\ session = 0 /\ running = FALSE
    /\ tx = [t \in Threads |-> Idle]
    /\ reader = NoReader
    /\ server = Listening(0)
    /\ link = [c \in Sessions |-> [up |-> <<>>, down |-> <<>>,
                                   client |-> FALSE, server |-> FALSE]]
    /\ short = [c \in Sessions |-> FALSE] /\ mixed = short
    /\ sent = [c \in Sessions |-> <<>>]
    /\ processed = sent /\ replied = sent /\ delivered = sent

\* Mutant: the size goes high byte first.
PackBig(m) == <<(Len(m) \div Base) % Base, Len(m) % Base>> \o m

\* [buffer.size, buffer].pack("S<a*"), which keeps the low bytes of the size.
Pack(m) == <<Len(m) % Base, (Len(m) \div Base) % Base>> \o m

Unpack(s) == s[1] + Base * s[2]

\* What a read of at most n bytes takes of s, and what it leaves.
Taken(s, n) == SubSeq(s, 1, IF n < Len(s) THEN n ELSE Len(s))
Left(s, n)  == SubSeq(s, n + 1, Len(s))

-----------------------------------------------------------------------------
(* The network. *)

Pieces(s, stream) == {k \in 1..Len(s) : Len(stream) + k <= Capacity}

\* What tx has still to write, and whether it has begun to.
Rest(t)  == IF tx[t].msg # <<>> THEN Pack(tx[t].msg) ELSE tx[t].left
Begun(t) == tx[t].msg = <<>> /\ tx[t].left # <<>>

FlowUp(t) ==
    /\ Rest(t) # <<>>
    /\ t = Reader => reader.pc = "handler"
    /\ IF link[session].server
         THEN /\ \E k \in Pieces(Rest(t), link[session].up) :
                   /\ link' = [link EXCEPT ![session].up = @ \o Taken(Rest(t), k)]
                   /\ tx' = [tx EXCEPT ![t] = [msg |-> <<>>, left |-> Left(Rest(t), k)]]
              /\ sent' = IF Begun(t) THEN sent
                         ELSE [sent EXCEPT ![session] = Append(@, tx[t].msg)]
              /\ mixed' = [mixed EXCEPT ![session] = @ \/ \E u \in Threads \ {t} : Begun(u)]
         ELSE tx' = [tx EXCEPT ![t] = Idle] /\ UNCHANGED <<link, sent, mixed>>
    /\ UNCHANGED <<session, running, reader, server, short, processed, replied,
                   delivered>>

FlowDown ==
    LET c == server.conn IN
    /\ server.out # <<>> /\ link[c].client
    /\ \E k \in Pieces(server.out, link[c].down) :
         /\ link' = [link EXCEPT ![c].down = @ \o Taken(server.out, k)]
         /\ server' = [server EXCEPT !.out = Left(@, k)]
    /\ UNCHANGED <<client, processed, replied>>

Drop(c) ==
    /\ link[c].client # link[c].server
    /\ \/ \E k \in 0..Len(link[c].up)-1 :
            link' = [link EXCEPT ![c].up = Taken(@, k)]
       \/ \E k \in 0..Len(link[c].down)-1 :
            link' = [link EXCEPT ![c].down = Taken(@, k)]
    /\ UNCHANGED <<client, server, processed, replied>>

-----------------------------------------------------------------------------
(* The client. *)

Reading == reader.pc \in {"header", "body", "handler"}

\* A server that is gone refuses the connection.
Open ==
    /\ ~running /\ session < MaxSessions
    /\ server.pc # "killed"
    /\ session' = session + 1
    /\ running' = TRUE
    /\ reader' = [pc |-> "header", size |-> 0]
    /\ link' = [link EXCEPT ![session'].client = TRUE, ![session'].server = TRUE]
    /\ UNCHANGED <<tx, server, short, mixed, sent, processed, replied, delivered>>

\* The reader thread calls the client in the callback only.
Tx(t, m) ==
    /\ running /\ tx[t] = Idle
    /\ t = Reader => reader.pc = "handler"
    /\ Len(FlattenSeq(sent)) + Cardinality({u \in Threads : tx[u].msg # <<>>}) < MaxMessages
    /\ tx' = [tx EXCEPT ![t].msg = m]
    /\ UNCHANGED <<session, running, reader, server, link, short, mixed, sent, processed,
                   replied, delivered>>

\* recv(2).  Of one byte, and of none once the server has closed, unpack makes nil,
\* recv raises, and the thread ends; @running stays.
ReaderHeader ==
    LET stream == link[session].down
        got    == Taken(stream, 2)
    IN
    /\ reader.pc = "header"
    /\ stream # <<>> \/ ~link[session].server
    /\ reader' = IF Len(got) < 2 THEN NoReader
                 ELSE [pc |-> "body", size |-> Unpack(got)]
    /\ link' = [link EXCEPT ![session].down = Left(@, 2)]
    /\ short' = [short EXCEPT ![session] = @ \/ Len(got) = 1]
    /\ UNCHANGED <<session, running, tx, server, mixed, sent, processed, replied, delivered>>

\* Mutant: an exception in the handler ends the thread.
ReaderBodyRaised ==
    LET stream == link[session].down
        got    == Taken(stream, reader.size)
    IN
    /\ reader.pc = "body"
    /\ stream # <<>> \/ reader.size = 0 \/ ~link[session].server
    /\ link' = [link EXCEPT ![session].down = Left(@, reader.size)]
    /\ reader' = NoReader
    /\ delivered' = [delivered EXCEPT ![session] = IF got = <<>> THEN @ ELSE Append(@, got)]
    /\ short' = [short EXCEPT ![session] = @ \/ Len(got) < reader.size]
    /\ UNCHANGED <<session, running, tx, server, mixed, sent, processed, replied>>

\* recv(size), and the handler, which may have a callback to run.
ReaderBody ==
    LET stream == link[session].down
        got    == Taken(stream, reader.size)
    IN
    /\ reader.pc = "body"
    /\ stream # <<>> \/ reader.size = 0 \/ ~link[session].server
    /\ link' = [link EXCEPT ![session].down = Left(@, reader.size)]
    /\ \/ reader' = [pc |-> "header", size |-> 0]
       \/ got # <<>> /\ reader' = [pc |-> "handler", size |-> 0]
    /\ delivered' = [delivered EXCEPT ![session] = IF got = <<>> THEN @ ELSE Append(@, got)]
    /\ short' = [short EXCEPT ![session] = @ \/ Len(got) < reader.size]
    /\ UNCHANGED <<session, running, tx, server, mixed, sent, processed, replied>>

\* The handler's exceptions go no further.
HandlerReturns ==
    /\ reader.pc = "handler" /\ tx[Reader] = Idle
    /\ reader' = [pc |-> "header", size |-> 0]
    /\ UNCHANGED <<session, running, tx, server, link, short, mixed, sent, processed,
                   replied, delivered>>

\* Tcp#close raises Interrupt in the reader, wherever it is: what a tx of its
\* callback has left is never written.
Interrupt ==
    /\ running /\ Reading
    /\ reader' = [pc |-> "interrupted", size |-> 0]
    /\ UNCHANGED <<session, running, tx, server, link, short, mixed, sent, processed,
                   replied, delivered>>

\* The reader has ended: the socket is closed, and cuts off the tx of any thread.
CloseSocket ==
    /\ running /\ ~Reading
    /\ running' = FALSE
    /\ reader' = NoReader
    /\ tx' = [t \in Threads |-> Idle]
    /\ link' = [link EXCEPT ![session].client = FALSE, ![session].down = <<>>]
    /\ UNCHANGED <<session, server, short, mixed, sent, processed, replied, delivered>>

-----------------------------------------------------------------------------
(* The server. *)

Stays == UNCHANGED <<client, processed, replied>>

Accept ==
    /\ server.pc = "accept" /\ server.conn < session
    /\ server' = [server EXCEPT !.conn = @ + 1, !.pc = "header"]
    /\ UNCHANGED link
    /\ Stays

\* Mutant: no close(client).
LeavesOpen(c) == server' = Listening(c) /\ UNCHANGED link

\* break: close(client), and accept the next.
Leaves(c) ==
    /\ server' = Listening(c)
    /\ link' = [link EXCEPT ![c].server = FALSE, ![c].up = <<>>]

\* Mutant: no look at the size of the buffer.
FitsAlways(n) == n \in Nat

Fits(n) == n <= Buffer

ServerHeader ==
    LET c   == server.conn
        got == Taken(link[c].up, 2)
    IN
    /\ server.pc = "header"
    /\ got # <<>> \/ ~link[c].client
    /\ IF Len(got) = 2 /\ Fits(Unpack(got))
         THEN /\ server' = [server EXCEPT !.pc = "body", !.size = Unpack(got)]
              /\ link' = [link EXCEPT ![c].up = Left(@, 2)]
         ELSE Leaves(c)
    /\ Stays

\* Mutant: what was read is taken for the message.
WholeAlways(got, n) == got # <<>>

Whole(got, n) == Len(got) = n

ServerBody ==
    LET c   == server.conn
        got == Taken(link[c].up, server.size)
    IN
    /\ server.pc = "body"
    /\ got # <<>> \/ server.size = 0 \/ ~link[c].client
    /\ IF Whole(got, server.size)
         THEN /\ processed' = [processed EXCEPT ![c] = Append(@, got)]
              /\ IF Reply(got) # <<>>
                   THEN /\ server' = [server EXCEPT !.pc = "write", !.out = Pack(Reply(got))]
                        /\ replied' = [replied EXCEPT ![c] = Append(@, Reply(got))]
                   ELSE /\ server' = [server EXCEPT !.pc = "header"]
                        /\ UNCHANGED replied
              /\ link' = [link EXCEPT ![c].up = Left(@, server.size)]
         ELSE Leaves(c) /\ UNCHANGED <<processed, replied>>
    /\ UNCHANGED client

\* The writes are done.  To a client that has closed the first goes into the void,
\* and the second raises SIGPIPE, which nothing handles, if its answer is back.
ServerWritten ==
    LET c == server.conn IN
    /\ server.pc = "write"
    /\ server.out = <<>> \/ ~link[c].client
    /\ \/ server' = [server EXCEPT !.pc = "header", !.out = <<>>] /\ UNCHANGED link
       \/ /\ server.out # <<>>
          /\ server' = [server EXCEPT !.pc = "killed", !.out = <<>>]
          /\ link' = [d \in Sessions |-> [link[d] EXCEPT !.server = FALSE]]
    /\ Stays

-----------------------------------------------------------------------------
Reads    == ReaderHeader \/ ReaderBody \/ HandlerReturns
Serving  == ServerHeader \/ ServerBody \/ ServerWritten

Next ==
    \/ \E t \in Threads : FlowUp(t)
    \/ FlowDown
    \/ \E c \in Sessions : Drop(c)
    \/ Open
    \/ \E t \in Threads, m \in Payloads : Tx(t, m)
    \/ Reads
    \/ Interrupt
    \/ CloseSocket
    \/ Accept
    \/ Serving

\* The network carries what was written, the two loops run, a callback ends, and
\* so does a close.
Fairness == /\ \A t \in Threads : WF_vars(FlowUp(t))
            /\ WF_vars(FlowDown) /\ WF_vars(Reads)
            /\ WF_vars(reader.pc = "interrupted" /\ CloseSocket)
            /\ WF_vars(Serving) /\ WF_vars(Accept)

Spec == Init /\ [][Next]_vars /\ Fairness

-----------------------------------------------------------------------------
(* Properties. *)

\* Every variable holds what the code may store in it; what the server reads into
\* rx_buffer has room there.
TypeOK ==
    /\ session \in 0..MaxSessions /\ running \in BOOLEAN
    /\ tx \in [Threads -> [msg: Payloads \cup {<<>>}, left: Bytes]]
    /\ reader \in [pc: {"dead", "header", "body", "handler", "interrupted"},
                   size: 0..Base*Base-1]
    /\ server \in [conn: 0..MaxSessions, size: 0..Buffer, out: Bytes,
                   pc: {"accept", "header", "body", "write", "killed"}]
    /\ server.conn <= session /\ (server.out # <<>> => server.pc = "write")
    /\ link \in [Sessions -> [up: Bytes, down: Bytes, client: BOOLEAN, server: BOOLEAN]]
    /\ \A c \in Sessions : Len(link[c].up) <= Capacity /\ Len(link[c].down) <= Capacity
    /\ short \in [Sessions -> BOOLEAN] /\ mixed \in [Sessions -> BOOLEAN]
    /\ sent \in [Sessions -> Seq(Payloads)]
    /\ {processed, replied, delivered} \subseteq [Sessions -> Seq(Bytes)]

\* On a connection whose messages have a size that two bytes can tell, and whose
\* threads write one after the other (tx does not see to it), the server processes
\* whole messages only, in the order they were sent and none twice, however the
\* stream is cut up and wherever the client breaks off.
UpKept ==
    \A c \in Sessions :
        /\ ~mixed[c]
        /\ \A i \in 1..Len(sent[c]) : Len(sent[c][i]) < Base * Base
        => IsPrefix(processed[c], sent[c])

\* As long as recv gives it what it asks for, the client's handler gets the server's
\* messages whole, in order and once.
DownKept == \A c \in Sessions : ~short[c] => IsPrefix(delivered[c], replied[c])

\* The end of a connection.
Over(c) == session > c \/ ~link[c].client \/ ~link[c].server

\* The callback writes, and there is no room: while it does, the reader reads
\* nothing, and if the server has to write, neither goes on.
Stuck == /\ reader.pc = "handler" /\ Rest(Reader) # <<>>
         /\ Len(link[session].up) = Capacity


\* What the server writes reaches the handler, or the connection ends.
Heard ==
    []<>~Stuck =>
        \A c \in Sessions :
            delivered[c] # replied[c] ~>
                delivered[c] = replied[c] \/ Over(c) \/ short[c]

\* A tx ends, also when there is no room for it (tcp.rb:33 waits without a timeout):
\* the server reads on, or its end is closed.
TxReturns ==
    []<>~Stuck =>
        \A t \in Threads : Rest(t) # <<>> ~> Rest(t) = <<>> \/ short[session]
=============================================================================
