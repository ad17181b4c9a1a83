------------------------------ MODULE Checksum ------------------------------
(***************************************************************************)
(* utils.CheckSum, and the bytes it is taken of: 16 bit words, and a       *)
(* number of zero bytes after them, which add nothing to a sum.  The       *)
(* function itself pads an odd number of bytes with a zero.                *)
(***************************************************************************)
EXTENDS Integers, SequencesExt

Byte == 0 .. 2 ^ 8 - 1
Word == 0 .. 2 ^ 16 - 1

Message == [words : Seq(Word), zeros : Nat]
Size(msg) == 2 * Len(msg.words) + msg.zeros

\* The loop that adds the words to base. What is summed has at most 65535
\* bytes, and a pseudo header: the sum stays below 2^32, as ret does.
Sum(words, base) ==
    LET ret[n \in 0 .. Len(words)] == IF n = 0 THEN base ELSE ret[n - 1] + words[n]
    IN  ret[Len(words)]

\* The loop that adds the carries back until none is left.
Carried[r \in Nat] ==
    IF r \div 65536 = 0 THEN r ELSE Carried[(r % 65536) + (r \div 65536)]

\* Slip for SumIsOnesComplement: the carries are lost.
CheckSumSlip(words, base) == 65535 - (Sum(words, base) % 65536)

\* The complement of the one's complement sum, begun at base.
CheckSum(words, base) == 65535 - Carried[Sum(words, base)]

\* The two zeros of one's complement, which a sum cannot tell apart.
Opposite(x, y) == {x, y} = {0, 65535}

\* What a receiver asks of the sum of a whole message: "0 or -0".
Verifies(words) == CheckSum(words, 0) \in {0, 65535}
=============================================================================
