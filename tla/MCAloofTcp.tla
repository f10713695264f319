----------------------------- MODULE MCAloofTcp -----------------------------
(***************************************************************************)
(* An instance of AloofTcp for TLC, with bytes of one bit: a size has two  *)
(* of them, and the longest message has one that they cannot tell.         *)
(***************************************************************************)
EXTENDS AloofTcp

\* One that is not answered, one that is, one that the buffer has no room for, and
\* one whose size wraps to that of the first.
MCPayloads == {<<1>>, <<0, 1>>, <<1, 0, 1>>, <<1, 0, 0, 1, 1>>}

\* A read is answered by its value, an unconfirmed command by nothing; of a mixed
\* stream the server may take any message of two bytes for a read.
MCReply(m) == IF Len(m) = 2 THEN <<1, 1>> ELSE <<>>
=============================================================================
