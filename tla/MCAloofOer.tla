----------------------------- MODULE MCAloofOer -----------------------------
(***************************************************************************)
(* Instances of AloofOer for TLC: the words around every length a variable *)
(* length integer or a fixed width type can have.  TLC's integers end at   *)
(* 2^31 - 1, and so do the words; the theorems have no such bound.         *)
(***************************************************************************)
EXTENDS AloofOer

Around(S) == UNION {{n - 1, n, n + 1} : n \in S}

MCWords  == {0, 1, 127, 128, 255, 256, 65535, 65536, 65537, 16777215, 16777216,
             16777217, 2147483647}
MCEdges  == {0, 1, 65536, 16777216}
MCSWords == Around({0, 64, -64, 128, -128, 8192, -8192, 32768, -32768, 8388608,
                    -8388608}) \cup {2147483647, -2147483647 - 1}
MCSizes  == {0, 1, 127, 128, 255, 256, 300}
MCTrails == {<<>>, <<128>>, <<5, 1, 255>>}

Heads    == {0, 1, 2, 9, 12, 14, 63, 64, 127, 128, 129, 130, 132, 133, 255}
MCNoise  == {<<>>} \cup {<<a>> : a \in Heads} \cup {<<a, b>> : a, b \in Heads}
              \cup {<<a, b, 127>> \o t : a \in Heads \ {132}, b \in Heads,
                    t \in {<<>>, <<255>>, <<0, 64, 7>>, <<1, 2, 3, 4, 5, 6, 7>>}}
              \cup {<<132, b, 128, 1>> \o t : b \in Heads \cap 0..127,
                    t \in {<<>>, <<255>>, <<0, 64>>}}
=============================================================================
