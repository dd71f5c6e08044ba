--------------------------------- MODULE Words ---------------------------------
(***************************************************************************)
(* uint32_t and the macros of util.h.  A word has four bytes, as in the    *)
(* code, but a byte has ByteBits bits, so that TLC can enumerate words;    *)
(* ByteBits = 8 is the real width.  Arithmetic wraps at 2^W.               *)
(***************************************************************************)
EXTENDS Integers

CONSTANT ByteBits

ASSUME WordsAssumption == ByteBits \in 1..8

W == 4 * ByteBits
Byte == 0..(2^ByteBits - 1)
Word == 0..(2^W - 1)
Top == W - 1            \* the sign bit, bit 31 of the code

Wrap(n) == n % 2^W

get_bit(x, i) == (x \div 2^i) % 2

set_bit(x, i) == IF get_bit(x, i) = 1 THEN x ELSE x + 2^i

clr_bit(x, i) == IF get_bit(x, i) = 1 THEN x - 2^i ELSE x

get_bits(x, h, l) == (x \div 2^l) % 2^(h - l + 1)

\* The word whose bit i is b[i]: the bitwise operators of C.
FromBits(b) ==
    LET below[n \in 0..W] == IF n = 0 THEN 0 ELSE below[n - 1] + b[n - 1] * 2^(n - 1)
    IN  below[W]

And(x, y) == FromBits([i \in 0..Top |-> get_bit(x, i) * get_bit(y, i)])

Xor(x, y) == FromBits([i \in 0..Top |-> (get_bit(x, i) + get_bit(y, i)) % 2])

Not(x) == 2^W - 1 - x

Or(x, y) == Not(And(Not(x), Not(y)))

\* << and >> of an unsigned word; the shift amount is below W.
Lsl(x, n) == (x % 2^(W - n)) * 2^n

Lsr(x, n) == x \div 2^n

\* Every rotation of the code is (x >> n) | (x << (W - n)); the two halves do
\* not overlap.  At n = 0 the second shift is by the whole width, which the
\* hardware takes as a shift by 0: x | x.
ror(x, n) == IF n = 0 THEN x ELSE Lsr(x, n) + Lsl(x, W - n)

\* signExtend8to32 and signExtend16to32: a number of n bits taken as signed and
\* wrapped into a word.
SignExtend(x, n) == IF get_bit(x, n - 1) = 1 THEN Wrap(x - 2^n) ELSE x
================================================================================
