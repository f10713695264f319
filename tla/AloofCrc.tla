------------------------------ MODULE AloofCrc ------------------------------
(***************************************************************************)
(* CRC-16-CCITT, as aloof_crc.c computes it bit by bit.  The client takes  *)
(* it from a library (Digest::CRC16CCITT), which has a table of bytes.     *)
(*                                                                         *)
(* A word of 16 bits is a function from the places of its bits, 0 for the  *)
(* lowest, to whether they are set.                                        *)
(***************************************************************************)
EXTENDS Naturals, Sequences
LOCAL INSTANCE Folds

Places == 0..15
Word16 == [Places -> BOOLEAN]

Xor(a, b) == [i \in Places |-> a[i] # b[i]]

Zero == [i \in Places |-> FALSE]

\* 0x1021.
Generator == [i \in Places |-> i \in {0, 5, 12}]

\* crc << 1 loses the highest bit.
ShiftLeft(w) == [i \in Places |-> i > 0 /\ w[i - 1]]

\* One round of the loop of aloof_crc_ccitt16_update.
Round(w) == IF w[15] THEN Xor(ShiftLeft(w), Generator) ELSE ShiftLeft(w)

Rounds(w) == Round(Round(Round(Round(Round(Round(Round(Round(w))))))))

\* A byte, given by its bits, in the high byte of a word.
InHigh(bits) == [i \in Places |-> i >= 8 /\ bits[i - 8]]

Update(w, bits) == Rounds(Xor(w, InHigh(bits)))

\* The two bytes of a word.
High(w) == [i \in 0..7 |-> w[i + 8]]
Low(w)  == [i \in 0..7 |-> w[i]]

-----------------------------------------------------------------------------
Power == [i \in Places |-> 2^i]

Bits(c) == [i \in 0..7 |-> (c \div Power[i]) % 2 = 1]

Value(w) ==
    MapThenFoldSet(+, 0, LAMBDA i : IF w[i] THEN Power[i] ELSE 0,
                   LAMBDA S : CHOOSE i \in S : TRUE, Places)

\* aloof_crc_ccitt16_block.
Block(s) ==
    LET crc[n \in 0..Len(s)] ==
            IF n = 0 THEN [i \in Places |-> TRUE] ELSE Update(crc[n - 1], Bits(s[n]))
    IN  crc[Len(s)]

Crc16(s) == Value(Block(s))
=============================================================================
