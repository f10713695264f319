---------------------------- MODULE MCAloofServer ----------------------------
(***************************************************************************)
(* Instances of AloofServer for TLC.  The objects stand for their kind: 0  *)
(* has no body, 1 and 2 have a short one, 9 one that may be wrong, 12 and  *)
(* 13 one of any length; 14 and 17 refuse, and 20 is none.                 *)
(***************************************************************************)
EXTENDS AloofServer

Fields == {5, 133}

V(ty, body) == [type |-> ty, body |-> body]

ReadOf(field, oid)     == [kind |-> "read", field |-> field, oid |-> oid]
WriteOf(field, oid, v) == [kind |-> "write", field |-> field, oid |-> oid, value |-> v]
Hello(bytes)           == [kind |-> "hello", bytes |-> bytes]
Other(bytes)           == [kind |-> "other", bytes |-> bytes]

Reads(F) == {ReadOf(f, oid) : f \in F, oid \in {0, 1, 12, 13, 14, 17, 20}}

\* Values of the object's type, some too long, and of other types.
Writes(F) ==
    {WriteOf(f, w[1], w[2]) : f \in F, w \in
       {<<0, V(0, <<>>)>>, <<1, V(2, <<0, 3>>)>>,
        <<9, V(9, <<1>>)>>, <<12, V(12, <<>>)>>, <<12, V(12, <<3, 4>>)>>,
        <<12, V(12, <<5, 6, 7>>)>>, <<12, V(13, <<3>>)>>, <<13, V(13, <<3>>)>>,
        <<17, V(0, <<>>)>>, <<17, V(12, <<3, 133>>)>>, <<20, V(12, <<3, 1>>)>>}}

\* The last is the client's, which the server takes for one with station 1.
Hellos == {Hello(<<HELLO, 0, 1, 0, 0, 0, 0>>), Hello(<<HELLO, 1, 129, 200, 0, 0, 0, 1>>),
           Hello(RubyHello(1, 0, 300))}

\* Messages of other types, of unknown types, and cut short;
\* and the client's own hellos, which have their fields in another order.
Others ==
    {Other(b) : b \in
       {<<COMMAND>>, <<HELLOHELLO, 1, 0, 0, 0, 0, 0>>, <<ERROR>>, <<RESPONSE, 133, 1, 0, 0>>,
        <<9, 1>>, <<HELLO, 2>>, <<HELLO>>, <<HELLO, 0, 130>>, <<HELLO, 0, 1, 0, 0, 0>>}
       \cup {<<COMMAND, f>> \o t : f \in Fields, t \in
               {<<>>, <<2, 1>>, <<WRITE>>, <<READ>>, <<READ, 130, 1>>, <<WRITE, 130, 1>>,
                <<WRITE, 1>>, <<WRITE, 1, 1>>, <<WRITE, 1, 14, 0>>, <<WRITE, 9, 9, 2>>,
                <<WRITE, 9, 9>>, <<WRITE, 12, 12>>, <<WRITE, 12, 12, 130, 0>>,
                <<WRITE, 12, 12, 2, 1>>}}}
    \cup {Other(RubyHello(version, 0, 0)) : version \in {1, 2}}

FrameRequests  == Reads(Fields) \cup Writes(Fields) \cup Hellos \cup Others
StreamRequests == {ReadOf(133, oid) : oid \in {1, 12, 14}}
                    \cup {WriteOf(134, 12, V(12, <<3, 4>>)), WriteOf(134, 12, V(13, <<3>>)),
                          WriteOf(134, 17, V(12, <<3, 133>>)),
                          WriteOf(134, 12, V(12, <<5, 6, 7>>)),
                          Hello(<<HELLO, 1, 129, 200, 0, 0, 0, 1>>)}
\* One frame at a time, as in the test server, or two messages in one stream.
ServerBatches == {<<q>> : q \in FrameRequests}
                   \cup {<<q, r>> : q \in StreamRequests,
                                 r \in StreamRequests \cap (Hellos \cup Reads({133}))}
ServerAlerts  == {[aid |-> 3, value |-> V(1, <<9>>)], [aid |-> 4, value |-> V(13, <<1, 2>>)]}

RewindBatches == {<<ReadOf(f, 1)>> : f \in Fields}

\* The batches are such as arrive, and the service is kept for them.
ASSUME Proper

Both      == {{"read", "write"}}
FrameSets == {{"read", "write"}, {"read"}}
=============================================================================
