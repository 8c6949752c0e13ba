----------------------------- MODULE DimensionalSeq -----------------------------
(***************************************************************************)
(* util::dimensional_seq: the index vectors of nested loops, the first     *)
(* index in the innermost one, as a range with an iterator that goes both  *)
(* ways.  A behaviour is a walk over one range.                            *)
(***************************************************************************)
EXTENDS Integers, Functions

CONSTANTS
    Rank,       \* S, the number of dimensions
    MaxSize,    \* bound on the sizes
    Width,      \* the bits of the unsigned index type
    Starts      \* whether the range is given where to start, else it starts at 0

DimensionalAssumption ==
    {Rank, MaxSize, Width} \subseteq Nat \ {0} /\ MaxSize < 2^Width /\ Starts \in BOOLEAN

VARIABLES
    first,      \* the vector given to start from
    size,       \* _size
    current,    \* _current
    radix,      \* _radix
    steps       \* the number of increments less the number of decrements

vars == <<first, size, current, radix, steps>>

Dims == 1..Rank
Index == 0..(2^Width - 1)

TypeOK ==
    /\ {first, size, current} \subseteq [Dims -> Index]
    /\ radix \in 0..1 /\ steps \in Nat

Init ==
    /\ size \in [Dims -> 1..MaxSize]
    /\ first \in [Dims -> IF Starts THEN 0..(MaxSize - 1) ELSE {0}]
    /\ \A i \in Dims : first[i] < size[i]
    /\ current = first /\ radix = 0 /\ steps = 0

Succ(x) == (x + 1) % 2^Width
Pred(x) == (x - 1) % 2^Width

\* increment(): the indexes at their end go to 0 and the next one counts; past
\* the last dimension the radix does.
WrapsAt(i) == Succ(current[i]) = size[i]
\* Mutation: the next index counts although the one before is not at its end.
CarriesAfterOne(i) == i = 1 \/ WrapsAt(1)
Carries(i) == \A j \in 1..(i - 1) : WrapsAt(j)
Counted(i) == IF WrapsAt(i) THEN 0 ELSE Succ(current[i])

Increment ==
    /\ radix = 0
    /\ current' = [i \in Dims |-> IF Carries(i) THEN Counted(i) ELSE current[i]]
    /\ radix' = IF Carries(Rank + 1) THEN radix + 1 ELSE radix
    /\ steps' = steps + 1 /\ UNCHANGED <<first, size>>

\* decrement(), which finds an index below 0 by its being above the size.
BelowZero(i) == Pred(current[i]) > size[i]
Borrows(i) == \A j \in 1..(i - 1) : BelowZero(j)
\* Mutation: the index stops at the size.
CountedToSize(i) == IF BelowZero(i) THEN size[i] ELSE Pred(current[i])
CountedBack(i) == IF BelowZero(i) THEN size[i] - 1 ELSE Pred(current[i])

Decrement ==
    /\ steps > 0
    /\ current' = [i \in Dims |-> IF Borrows(i) THEN CountedBack(i) ELSE current[i]]
    /\ radix' = IF Borrows(Rank + 1) THEN radix - 1 ELSE radix
    /\ steps' = steps - 1 /\ UNCHANGED <<first, size>>

Next == Increment \/ Decrement

Spec == Init /\ [][Next]_vars

-----------------------------------------------------------------------------
Extents == [i \in Dims |-> size[i] - first[i]]
Turns(i) == FoldFunctionOnSet(LAMBDA x, y : x * y, 1, Extents, 1..(i - 1))

\* What the comments of dimensional_seq say: after any walk, forth and back,
\* the range gives the vector at this place of the nested loops, and ends
\* where they end.
AsLoops ==
    /\ radix = 0 => \A i \in Dims : current[i] = first[i] + ((steps \div Turns(i)) % Extents[i])
    /\ radix = IF steps < Turns(Rank + 1) THEN 0 ELSE 1

\* The same said of ranges that start anywhere, as the comment does.
AsDocumented == AsLoops
=============================================================================
