------------------------------- MODULE Bitmap -------------------------------
(***************************************************************************)
(* class/scon_bitmap.c: bits in words of SIZE_OF_BASE_TYPE bits. The       *)
(* topologies keep the members below a child in one, the collectives the   *)
(* distances that have reported. A bitmap grows by multiples of its size   *)
(* up to max_size, which is counted in words though a bit is compared with *)
(* it as it is (scon_bitmap.c:74, :86 and :110).                           *)
(***************************************************************************)
EXTENDS Integers, Sequences, FiniteSets, FiniteSetsExt

CONSTANTS
    WordSize,       \* SIZE_OF_BASE_TYPE: 64
    BitMaps,        \* names of bitmaps
    BitSizes,       \* sizes in bits that scon_bitmap_init is given
    MaxWords,       \* max_size
    Bits            \* bits that calls are made with

ASSUME BitmapAssumption == WordSize \in Nat \ {0} /\ MaxWords \in Nat \ {0}

VARIABLES
    bm,             \* bm[b]: the words, each the set of its bits that are one
    status, position

bitmapVars == <<bm, status, position>>
Word == 0..(WordSize - 1)

Clear(words) == [i \in 1..words |-> {}]
Words(bits) == (bits + WordSize - 1) \div WordSize
BitmapInit ==
    /\ bm \in [BitMaps -> {Clear(Words(n)) : n \in {k \in BitSizes : k <= MaxWords}}]
    /\ status = "success" /\ position = 0

Returns(s) == status' = s /\ UNCHANGED position

Larger(words, index) ==
    IF index < Len(words) THEN words
    ELSE words \o Clear(Min({(index \div Len(words) + 1) * Len(words), MaxWords}) - Len(words))
WithBit(words, bit) ==
    [Larger(words, bit \div WordSize) EXCEPT ![bit \div WordSize + 1] = @ \cup {bit % WordSize}]
Accepted(bit) == bit <= MaxWords

set_bit(b, bit) ==
    IF Accepted(bit) THEN bm' = [bm EXCEPT ![b] = WithBit(@, bit)] /\ Returns("success")
                     ELSE UNCHANGED bm /\ Returns("bad param")

Offset(bit) == bit % WordSize
InRange(b, bit) == bit < Len(bm[b]) * WordSize
clear_bit(b, bit) ==
    IF InRange(b, bit)
    THEN bm' = [bm EXCEPT ![b][bit \div WordSize + 1] = @ \ {Offset(bit)}] /\ Returns("success")
    ELSE UNCHANGED bm /\ Returns("bad param")

is_set_bit(b, bit) == InRange(b, bit) /\ Offset(bit) \in bm[b][bit \div WordSize + 1]

clear_all_bits(b) == bm' = [bm EXCEPT ![b] = Clear(Len(@))] /\ Returns("success")
set_all_bits(b) == bm' = [bm EXCEPT ![b] = [i \in DOMAIN @ |-> Word]] /\ Returns("success")

\* The first word with an unset bit, and in it the lowest: the bit that
\* w | (w + 1) adds. Behind a full bitmap a word is added.
FirstUnset(words) ==
    LET open == {i \in DOMAIN words : words[i] # Word}
    IN IF open = {} THEN Len(words) * WordSize
       ELSE (Min(open) - 1) * WordSize + Min(Word \ words[Min(open)])
find_and_set_first_unset_bit(b) ==
    LET bit == FirstUnset(bm[b])
    IN /\ position' = bit
       /\ IF InRange(b, bit) \/ Accepted(bit)
          THEN bm' = [bm EXCEPT ![b] = WithBit(@, bit)] /\ status' = "success"
          ELSE UNCHANGED bm /\ status' = "bad param"

\* The bitwise functions, for bitmaps of the same number of words.
Wordwise(b, c, f(_, _)) ==
    IF Len(bm[b]) = Len(bm[c])
    THEN bm' = [bm EXCEPT ![b] = [i \in DOMAIN @ |-> f(@[i], bm[c][i])]] /\ Returns("success")
    ELSE UNCHANGED bm /\ Returns("bad param")
bitwise_and_inplace(b, c) == Wordwise(b, c, LAMBDA v, w : v \cap w)
bitwise_or_inplace(b, c) == Wordwise(b, c, LAMBDA v, w : v \cup w)
bitwise_xor_inplace(b, c) == Wordwise(b, c, LAMBDA v, w : (v \ w) \cup (w \ v))

\* scon_bitmap_copy, into memory of its own.
bitmap_copy(b, c) == bm' = [bm EXCEPT ![b] = bm[c]] /\ Returns("success")

BitmapNext == \E b \in BitMaps :
    \/ \E bit \in Bits : set_bit(b, bit) \/ clear_bit(b, bit)
    \/ clear_all_bits(b) \/ set_all_bits(b) \/ find_and_set_first_unset_bit(b)
    \/ \E c \in BitMaps : \/ bitwise_and_inplace(b, c) \/ bitwise_or_inplace(b, c)
                          \/ bitwise_xor_inplace(b, c) \/ bitmap_copy(b, c)
BitmapSpec == BitmapInit /\ [][BitmapNext]_bitmapVars
-----------------------------------------------------------------------------
SetOf(b) == {bit \in 0..(Len(bm[b]) * WordSize - 1) : is_set_bit(b, bit)}

BitmapTypeOK == /\ \A b \in BitMaps : bm[b] \in Seq(SUBSET Word) /\ Len(bm[b]) \in 1..MaxWords
                /\ position \in Nat

\* A bitmap is a set of numbers whatever its size is: a call that succeeds changes
\* the bits it is about and, also when it makes the bitmap larger, no others, as
\* the topologies rely on when they add members in any order.
Succeeds(A) == bitmapVars' # bitmapVars /\ A /\ status' = "success"
BitmapIsSet == [][\A b \in BitMaps :
    /\ \A bit \in Bits :
          /\ Succeeds(set_bit(b, bit)) => SetOf(b)' = SetOf(b) \cup {bit}
          /\ Succeeds(clear_bit(b, bit)) => SetOf(b)' = SetOf(b) \ {bit}
    /\ \A c \in BitMaps :
          /\ Succeeds(bitwise_and_inplace(b, c)) => SetOf(b)' = SetOf(b) \cap SetOf(c)
          /\ Succeeds(bitwise_or_inplace(b, c)) => SetOf(b)' = SetOf(b) \cup SetOf(c)
          /\ Succeeds(bitwise_xor_inplace(b, c)) =>
                SetOf(b)' = (SetOf(b) \cup SetOf(c)) \ (SetOf(b) \cap SetOf(c))]_bitmapVars

\* The first unset bit is unset and all below it are set, across words and when the
\* bitmap must grow; afterwards it is set too.
FindsFirst == [][\A b \in BitMaps :
    Succeeds(find_and_set_first_unset_bit(b)) =>
        /\ SetOf(b)' = SetOf(b) \cup {position'} /\ position' \notin SetOf(b)
        /\ 0..(position' - 1) \subseteq SetOf(b)]_bitmapVars
=============================================================================
