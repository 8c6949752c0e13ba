----------------------------- MODULE RingBuffer -----------------------------
(***************************************************************************)
(* core::ring_buffer: a vector that never grows, the position of the       *)
(* oldest element, the position of the next insertion and the number of    *)
(* elements.  Positions count from 0: the cell at position p is data[p+1].  *)
(***************************************************************************)
EXTENDS Integers, Sequences

CONSTANTS
    Vals,       \* the values that are pushed
    Default,    \* the value of T{}, which fills the unused cells
    Caps        \* the capacities asked for, by the constructor or by resize

RingAssumption == Caps \subseteq Nat

VARIABLES data, start, insert, size
vars == <<data, start, insert, size>>

Elems == Vals \cup {Default}

\* _data.size(), which the constructor and resize keep above zero.
cap == Len(data)
AtLeastOne(n) == IF n > 0 THEN n ELSE 1
Filled(n) == [i \in 1..n |-> Default]

\* The positions of begin() and end(), and the element an iterator is at.
Begin == start
End   == insert + (IF start > insert \/ size = cap THEN cap ELSE 0)
At(p) == data[(p % cap) + 1]

\* The elements from begin() to end().
Contents == [k \in 1..(End - Begin) |-> At(Begin + k - 1)]

\* Mutation: back() does not wrap.
BackUnwrapped == data[IF insert = 0 THEN 1 ELSE insert]

Back == data[IF insert = 0 THEN cap ELSE insert]

\* operator-- and operator-= of the iterator: the position never gets
\* negative, and the positions of one element differ by multiples of cap.
Decrement(p) == IF p = 0 THEN cap - 1 ELSE p - 1
Retreat(p, i) == IF i > p THEN cap - ((i - p) % cap) ELSE p - i

Init == /\ \E n \in Caps : data = Filled(AtLeastOne(n))
        /\ start = 0 /\ insert = 0 /\ size = 0

\* Mutation: the oldest element is not given up when the buffer is full.
PushKeepStart(v) ==
    /\ size' = IF size = cap THEN size ELSE size + 1
    /\ data' = [data EXCEPT ![insert + 1] = v]
    /\ insert' = (insert + 1) % cap
    /\ UNCHANGED start

Push(v) ==
    /\ IF size = cap
       THEN start' = (start + 1) % cap /\ UNCHANGED size
       ELSE size' = size + 1 /\ UNCHANGED start
    /\ data' = [data EXCEPT ![insert + 1] = v]
    /\ insert' = (insert + 1) % cap

\* Mutation: the cell that is given back keeps its element.
PopKeepCell ==
    /\ size > 0
    /\ size' = size - 1
    /\ insert' = IF insert = 0 THEN cap - 1 ELSE insert - 1
    /\ UNCHANGED <<data, start>>

\* Called on a buffer that is not empty: size is unsigned and would wrap.
Pop ==
    /\ size > 0
    /\ size' = size - 1
    /\ insert' = IF insert = 0 THEN cap - 1 ELSE insert - 1
    /\ data' = [data EXCEPT ![insert' + 1] = Default]
    /\ UNCHANGED start

Skip ==
    /\ IF size = cap
       THEN /\ data' = [data EXCEPT ![start + 1] = Default]
            /\ start' = (start + 1) % cap
            /\ UNCHANGED size
       ELSE size' = size + 1 /\ UNCHANGED <<data, start>>
    /\ insert' = (insert + 1) % cap

Clear ==
    /\ data' = Filled(cap)
    /\ start' = 0 /\ insert' = 0 /\ size' = 0

\* The elements are pushed into a new buffer of n cells, oldest first: the
\* k-th of them lands in the cell (k - 1) % n, and the last n remain.
Resize(n) ==
    LET new  == AtLeastOne(n)
        m    == Len(Contents)
        kept == {k \in 1..m : k > m - new}
    IN  /\ data' = [i \in 1..new |->
                      IF \E k \in kept : (k - 1) % new = i - 1
                      THEN Contents[CHOOSE k \in kept : (k - 1) % new = i - 1]
                      ELSE Default]
        /\ start' = IF m > new THEN (m - new) % new ELSE 0
        /\ insert' = m % new
        /\ size' = IF m > new THEN new ELSE m

Next == \/ \E v \in Elems : Push(v)
        \/ Pop \/ Skip \/ Clear
        \/ \E n \in Caps : Resize(n)

Spec == Init /\ [][Next]_vars

-----------------------------------------------------------------------------
TypeOK ==
    /\ data \in Seq(Elems) /\ cap > 0
    /\ start \in 0..(cap - 1) /\ insert \in 0..(cap - 1) /\ size \in 0..cap

\* back() is the newest element and a walk back from end() meets the elements
\* in the reverse of the order in which begin() meets them.
BackwardWalk ==
    size > 0 => /\ Back = Contents[size]
                /\ At(Decrement(End)) = Back
                /\ \A i \in 1..size : At(Retreat(End, i)) = Contents[size + 1 - i]

\* The buffer is a window on the newest elements: push drops the oldest, and
\* of a full buffer only, and resize keeps the newest.
W == INSTANCE Window WITH win <- Contents, cap <- cap
IsWindow == W!Spec

\* skip is the push of a default value although it writes nothing into a buffer
\* that is not full: pop, clear and resize leave no old element in a free cell.
SkipPushesDefault == Skip => W!Push(Default)
=============================================================================
