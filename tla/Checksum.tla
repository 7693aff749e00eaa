------------------------------ MODULE Checksum ------------------------------
(***************************************************************************)
(* util/crc.c: the sums and the CRC of a message that arrives in pieces.   *)
(* A sum adds up the words of a message. A piece may end within a word:    *)
(* the caller then carries lastPartialLong and lastPartialLength into the  *)
(* next call, and adds up what the calls return. The functions with bcopy  *)
(* copy copylen bytes of the piece and may sum csumlen, more than they     *)
(* copy. The cases by alignment differ in how they read a word and write   *)
(* one; each is written once here.                                         *)
(***************************************************************************)
EXTENDS Integers, Sequences, SequencesExt

CONSTANTS
    Byte,           \* the number of values of a byte, 256, fewer in the runs
    LongBytes,      \* sizeof(unsigned long)
    IntBytes,       \* sizeof(unsigned int)
    Messages,       \* the messages that are summed
    CrcBits,        \* CRC_POLYNOMIAL as the set of its bits
    CrcMessages     \* messages, each byte the set of its bits

ASSUME ChecksumAssumption ==
    /\ Byte \in Nat \ {0} /\ LongBytes \in Nat \ {0} /\ IntBytes \in Nat \ {0}
    /\ CrcBits \subseteq 0..31

VARIABLES
    kind,           \* which function: "csum", "uicsum" or "uicrc"
    message, at,    \* the message and how much of it has been summed
    c,              \* the sum so far; lastPartialLong as its bytes; lastPartialLength
    register,       \* the CRC so far: the bits that are one
    copied          \* what the last call copied, and what it should have copied

checksumVars == <<kind, message, at, c, register, copied>>
WordBytes == IF kind = "csum" THEN LongBytes ELSE IntBytes
Zero == [i \in 1..WordBytes |-> 0]
ValueOf(bytes) == FoldRight(LAMBDA b, v : b + Byte * v, bytes, 0)
Modulus == Byte ^ WordBytes

-----------------------------------------------------------------------------
\* The sums. A call is a record of the sum, the partial word, where the source
\* is read next, how much of copylen is left and what has been written.

\* memcpy(((char *)&temp + *lastPartialLength), src, n)
Overlaid(word, offset, bytes) ==
    [i \in DOMAIN word |-> IF i \in (offset + 1)..(offset + Len(bytes))
                           THEN bytes[i - offset] ELSE word[i]]
NextBytes(s, n) == SubSeq(message, s.src + 1, s.src + n)
\* The old partial word is taken away before the new one is added.
Grows(s, n) ==
    LET temp == Overlaid(s.word, s.length, NextBytes(s, n))
    IN [s EXCEPT !.sum = (@ + ValueOf(temp) - ValueOf(s.word)) % Modulus,
                 !.word = temp, !.length = @ + n]
Copies(s, n) == [s EXCEPT !.dest = @ \o NextBytes(s, n), !.left = @ - n]
Advances(s, n) == [s EXCEPT !.src = @ + n]
Emptied(s) == [s EXCEPT !.word = Zero, !.length = 0]
Room(s) == WordBytes - s.length

\* The whole words of the next n bytes.
SumOfWords(s, n) ==
    FoldLeft(LAMBDA v, k : (v + ValueOf(SubSeq(message, s.src + (k - 1) * WordBytes + 1,
                                                        s.src + k * WordBytes))) % Modulus,
             s.sum, [k \in 1..(n \div WordBytes) |-> k])
WholeWords(s) ==
    LET n == (s.left \div WordBytes) * WordBytes
    IN Emptied(Advances(Copies([s EXCEPT !.sum = SumOfWords(s, s.left)], n), n))

Takes(s, n) == Advances(Copies(Grows(s, n), n), n)
\* A partial word is filled first, if there is enough to fill it.
FillsPartial(s) ==
    IF s.length = 0 THEN WholeWords(s)
    ELSE IF s.left >= Room(s) THEN WholeWords(Emptied(Takes(s, Room(s)))) ELSE Takes(s, s.left)

\* Less than a word is left: it becomes the partial word.
Remainder(s) ==
    IF s.length > 0 /\ s.left >= Room(s)
    THEN LET f == Emptied(Takes(s, Room(s))) IN Takes(f, f.left)
    ELSE Takes(s, s.left)

\* More is summed than is copied: what is left is copied, and read again.
Residue(s, residue) ==
    LET d == Copies(s, s.left) IN
    IF residue < Room(s) - s.left THEN Grows(d, s.left + residue)
    ELSE LET f == Emptied(Advances(Grows(d, Room(s)), Room(s)))
             r == residue - (Room(s) - s.left)
             n == (r \div WordBytes) * WordBytes
         IN Grows(Advances([f EXCEPT !.sum = SumOfWords(f, r)], n), r - n)

Call(copylen) == [sum |-> 0, word |-> c.word, length |-> c.length,
                  src |-> at, left |-> copylen, dest |-> <<>>]
bcopy_csum_partial(copylen, csumlen) ==
    LET residue == IF csumlen > copylen THEN csumlen - copylen ELSE 0
        s == FillsPartial(Call(copylen))
    IN IF residue # 0 THEN Residue(s, residue) ELSE IF s.left # 0 THEN Remainder(s) ELSE s
bcopy_uicsum_partial(copylen, csumlen) == bcopy_csum_partial(copylen, csumlen)

SummedWords(csumlen) == FillsPartial(Call(csumlen))
csum_partial(csumlen) ==
    LET s == SummedWords(csumlen) IN IF s.left # 0 THEN Remainder(s) ELSE s
uicsum_partial(csumlen) == csum_partial(csumlen)

-----------------------------------------------------------------------------
\* The CRC: a register of 32 bits, as the set of those that are one.

Xor(a, b) == (a \ b) \cup (b \ a)
Shifted(r, n) == {b + n : b \in {k \in r : k + n <= 31}}
\* Mutant: the polynomial is left out of the entries of the table.
TableEntry_plain(i) == Shifted(i, 24)
TableEntry(i) ==
    FoldLeft(LAMBDA r, k : IF 31 \in r THEN Xor(Shifted(r, 1), CrcBits) ELSE Shifted(r, 1),
             Shifted(i, 24), [k \in 1..8 |-> k])
TopByte(r) == {b - 24 : b \in {k \in r : k >= 24}}
WithByte(r, byte) == Xor(Shifted(r, 8), TableEntry(Xor(TopByte(r), byte)))
uicrc_partial(crclen, r) == FoldLeft(WithByte, r, SubSeq(message, at + 1, at + crclen))
bcopy_uicrc_partial(copylen, crclen, r) ==
    LET residue == IF crclen > copylen THEN crclen - copylen ELSE 0
    IN uicrc_partial(copylen + residue, r)

-----------------------------------------------------------------------------
ChecksumInit ==
    /\ kind \in {"csum", "uicsum", "uicrc"}
    /\ message \in IF kind = "uicrc" THEN CrcMessages ELSE Messages
    /\ at = 0 /\ copied = <<<<>>, <<>>>>
    /\ c = [sum |-> 0, word |-> Zero, length |-> 0]
    /\ register = 0..31

Moves(n) == at' = at + n /\ UNCHANGED <<kind, message>>
Adds(s) == c' = [sum |-> (c.sum + s.sum) % Modulus, word |-> s.word, length |-> s.length]
Longer(a, b) == IF a > b THEN a ELSE b

\* The caller hands in the next piece, to be copied as well or not.
SumPiece(n) ==
    /\ kind # "uicrc"
    /\ Adds(IF kind = "csum" THEN csum_partial(n) ELSE uicsum_partial(n))
    /\ Moves(n) /\ UNCHANGED <<register, copied>>
CopyPiece(n, m) ==
    LET s == IF kind = "csum" THEN bcopy_csum_partial(n, m) ELSE bcopy_uicsum_partial(n, m) IN
    /\ kind # "uicrc"
    /\ Adds(s) /\ copied' = <<s.dest, SubSeq(message, at + 1, at + n)>>
    /\ Moves(Longer(n, m)) /\ UNCHANGED register
CrcPiece(n) ==
    /\ kind = "uicrc"
    /\ register' = uicrc_partial(n, register)
    /\ Moves(n) /\ UNCHANGED <<c, copied>>
CrcCopyPiece(n, m) ==
    /\ kind = "uicrc"
    /\ register' = bcopy_uicrc_partial(n, m, register)
    /\ Moves(Longer(n, m)) /\ UNCHANGED <<c, copied>>

Left == 0..(Len(message) - at)
ChecksumNext == \/ \E n \in Left : SumPiece(n) \/ CrcPiece(n)
                \/ \E n, m \in Left : CopyPiece(n, m) \/ CrcCopyPiece(n, m)
ChecksumSpec == ChecksumInit /\ [][ChecksumNext]_checksumVars

-----------------------------------------------------------------------------
Prefix == SubSeq(message, 1, at)
WordOf(s, k) == [i \in 1..WordBytes |-> IF (k - 1) * WordBytes + i <= Len(s)
                                        THEN s[(k - 1) * WordBytes + i] ELSE 0]
SumOf(s) ==
    FoldLeft(LAMBDA v, k : (v + ValueOf(WordOf(s, k))) % Modulus, 0,
             [k \in 1..((Len(s) + WordBytes - 1) \div WordBytes) |-> k])

\* Wherever the message is cut, and however much of each piece is copied, the
\* sums of the pieces add up to the sum of what has been handed in, and the
\* partial word is its last word: the functions promise "proper handling of
\* checksumming contiguous or noncontiguous buffers via multiple calls"
\* (crc.c:61).
SumsAddUp ==
    kind # "uicrc" =>
        /\ c.sum = SumOf(Prefix)
        /\ c.length = at % WordBytes
        /\ c.length > 0 => c.word = WordOf(Prefix, at \div WordBytes + 1)

\* bcopy copies the first copylen bytes of the piece, whatever is left of the
\* piece before and whatever is summed behind them.
CopiesThePiece == copied[1] = copied[2]

\* The CRC of the pieces is the remainder that a division bit by bit leaves of
\* the whole: what the table gives for a byte is eight steps of the division.
Divided(r, bit) ==
    IF (31 \in r) # bit THEN Xor(Shifted(r, 1), CrcBits) ELSE Shifted(r, 1)
DividedByte(r, byte) == FoldLeft(LAMBDA v, k : Divided(v, (8 - k) \in byte), r, [k \in 1..8 |-> k])
CrcIsRemainder == kind = "uicrc" => register = FoldLeft(DividedByte, 0..31, Prefix)

\* Sums do not depend on the pieces a message comes in, and copy what they sum.
ChecksumsHold == SumsAddUp /\ CopiesThePiece /\ CrcIsRemainder
=============================================================================
