------------------------------- MODULE Window -------------------------------
(***************************************************************************)
(* What a ring buffer promises: a sequence that holds the newest elements, *)
(* at most cap of them, oldest first.                                      *)
(***************************************************************************)
EXTENDS Integers, Sequences

CONSTANTS Vals, Default
VARIABLES win, cap

Elems == Vals \cup {Default}

\* The last n elements of s, or all of them when there are fewer.
Newest(s, n) == IF Len(s) <= n THEN s ELSE [i \in 1..n |-> s[Len(s) - n + i]]

TypeOK == win \in Seq(Elems) /\ cap \in Nat \ {0} /\ Len(win) <= cap

vars == <<win, cap>>

Init == win = <<>> /\ cap \in Nat \ {0}

Push(v) == win' = Newest(Append(win, v), cap) /\ UNCHANGED cap

\* The newest element is taken back.
Pop == /\ win # <<>>
       /\ win' = SubSeq(win, 1, Len(win) - 1)
       /\ UNCHANGED cap

Clear == win' = <<>> /\ UNCHANGED cap

\* The capacity changes; of the elements the newest remain.
Resize == cap' \in Nat \ {0} /\ win' = Newest(win, cap')

Next == \/ \E v \in Elems : Push(v)
        \/ Pop \/ Clear \/ Resize

Spec == Init /\ [][Next]_vars
=============================================================================
