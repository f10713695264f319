---------------------------- MODULE MCAloofSlip ----------------------------
(***************************************************************************)
(* An instance of AloofSlip for TLC, with the checksum as it is.           *)
(***************************************************************************)
EXTENDS AloofSlip

Crc == INSTANCE AloofCrc

MCChecksum(s) == Crc!Crc16(s)

\* The check value of the polynomial and its start, for "123456789".
ASSUME CheckAssumption == MCChecksum(<<49, 50, 51, 52, 53, 54, 55, 56, 57>>) = 10673

\* One with both special bytes, too long for the C receiver's buffer; one that
\* has an escape character in its checksum.
MCPayloads == {<<1, 192, 219>>, <<86>>}
=============================================================================
