------------------------------- MODULE Numbers -------------------------------
(***************************************************************************)
(* How the kernel reads and prints numbers: str_to_int of kernel.c and the *)
(* conversions %d, %u, %x, %llu and %lld of printf.  A string is the       *)
(* sequence of its character codes.  %ld, %lu and %p repeat %d, %u and %x. *)
(***************************************************************************)
EXTENDS Integers, Sequences

CONSTANT WORD   \* an int or unsigned has the values of a word: 2^32 in the build

ASSUME NumbersAssumption == WORD \in Nat /\ WORD > 0 /\ WORD % 16 = 0

Zero == 48      \* '0'
Minus == 45     \* '-'
HexDigits == [d \in 0 .. 15 |-> IF d < 10 THEN Zero + d ELSE 97 + d - 10]

\* A word read as a signed number, and the word of a number.
Signed(w) == IF w < WORD \div 2 THEN w ELSE w - WORD
ToWord(v) == v % WORD

\* str_to_int: the digits at the beginning; sums beyond an int wrap.
str_to_int(str) ==
    LET stop == CHOOSE n \in 0 .. Len(str) :
                    /\ \A i \in 1 .. n : str[i] \in Zero .. (Zero + 9)
                    /\ n = Len(str) \/ str[n + 1] \notin Zero .. (Zero + 9)
        Result[n \in 0 .. stop] ==
            IF n = 0 THEN 0 ELSE ToWord(Result[n - 1] * 10 + (str[n] - Zero))
    IN  Signed(Result[stop])

\* The first loop of %u: the divisor of the leading digit.
Divisor(value) ==
    LET Grow[d \in Nat] == IF value \div d > 9 THEN Grow[ToWord(d * 10)] ELSE d
    IN  Grow[1]

\* The second loop of %u.
print_u(value) ==
    LET Out[v \in Nat, d \in Nat] ==
            IF d = 0 THEN <<>> ELSE <<Zero + (v \div d)>> \o Out[v % d, d \div 10]
    IN  Out[value, Divisor(value)]

\* %d: the magnitude is computed as an unsigned number.
print_d(value) ==
    IF value < 0 THEN <<Minus>> \o print_u(ToWord(-ToWord(value))) ELSE print_u(value)

\* %x: all nibbles of the word, of which there are n.
print_x(value, n) ==
    [i \in 1 .. n |-> HexDigits[(value \div 16 ^ (n - i)) % 16]]

\* %llu and the magnitude of %lld: up to 31 digits, the last one first, which
\* are then printed in reverse.
print_llu(value) ==
    LET Buf[v \in Nat, pos \in Nat] ==
            IF v > 0 /\ pos < 31 THEN Append(Buf[v \div 10, pos + 1], Zero + (v % 10)) ELSE <<>>
    IN  IF value = 0 THEN <<Zero>> ELSE Buf[value, 0]

-----------------------------------------------------------------------------
\* What s stands for in the given base, digit by digit.
Value(s, base) ==
    LET digit(c) == CHOOSE d \in 0 .. 15 : HexDigits[d] = c
        Sum[n \in 0 .. Len(s)] == IF n = 0 THEN 0 ELSE Sum[n - 1] * base + digit(s[n])
    IN  Sum[Len(s)]

\* s is the usual notation of value: no leading zero.
Denotes(s, value) == Value(s, 10) = value /\ (s[1] = Zero => Len(s) = 1)

=============================================================================
