------------------------------- MODULE IntLiteral -------------------------------
(***************************************************************************)
(* parse_int_n, which the suffixes of integer constants (1_c, 0x10_zuc)    *)
(* use on the characters of the literal: the value wraps round, and the    *)
(* overflow is to be seen from one digit to the next.                      *)
(***************************************************************************)
EXTENDS Integers

CONSTANTS
    Width,      \* the bits of unsigned long long
    MaxChars    \* bound: the characters after the prefix

LiteralAssumption == Width \in Nat \ {0} /\ MaxChars \in Nat

VARIABLES
    base, result, overflow,     \* of parse_int_n
    read,                       \* the characters read after the prefix
    exact                       \* history: the number the digits make, or 2^Width for a larger one

vars == <<base, result, overflow, read, exact>>

Bases == {2, 8, 10, 16}
Limit == 2^Width

TypeOK ==
    /\ base \in Bases /\ result \in 0..(Limit - 1) /\ overflow \in BOOLEAN
    /\ read \in 0..MaxChars /\ exact \in 0..Limit

\* The prefix: none, 0b, 0x, or a 0 that more characters follow.
Init == base \in Bases /\ result = 0 /\ overflow = FALSE /\ read = 0 /\ exact = 0

\* to_int gives a digit of the base, as the compiler has seen to.
Digits == 0..(base - 1)

\* Mutants: every equality counts; none does.
OverflowsEqual(prev, new, d) == prev >= new
OverflowsLess(prev, new, d) == prev > new
Overflows(prev, new, d) == prev > new \/ (prev = new /\ d # 0)

NextResult(d) == (result * base + d) % Limit

Digit(d) ==
    /\ read < MaxChars /\ read' = read + 1
    /\ base = 10 /\ read = 0 => d # 0
    /\ result' = NextResult(d) /\ overflow' = (overflow \/ Overflows(result, NextResult(d), d))
    /\ exact' = IF exact * base + d < Limit THEN exact * base + d ELSE Limit
    /\ UNCHANGED base

Separator ==
    /\ read \in 1..(MaxChars - 1) /\ read' = read + 1
    /\ UNCHANGED <<base, result, overflow, exact>>

Next == Separator \/ \E d \in Digits : Digit(d)

Spec == Init /\ [][Next]_vars

-----------------------------------------------------------------------------
\* A literal that fits has its value and no overflow.
FitsExactly == exact < Limit => result = exact /\ ~overflow

\* In base 2 an overflow is seen: a doubled number that wraps is smaller.  In
\* the other bases one that wraps may be larger than before.
BinarySeen == base = 2 => (overflow <=> exact >= Limit)

\* What the static_assert on it says: a literal that is too large is refused.
AsDocumented == exact >= Limit => overflow
=============================================================================
