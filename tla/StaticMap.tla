------------------------------ MODULE StaticMap ------------------------------
(***************************************************************************)
(* What a map of a fixed capacity promises: at most one value for a key, an *)
(* insertion keeps what is there, an erased key is gone, and nothing else   *)
(* changes.                                                                *)
(***************************************************************************)
EXTENDS Integers, FiniteSets

CONSTANTS Keys, Vals, Cap

VARIABLE map    \* a partial function from Keys to Vals

Empty == [k \in {} |-> {}]

vars == <<map>>

Init == map = Empty

Insert(k, v) == /\ k \notin DOMAIN map
                /\ Cardinality(DOMAIN map) < Cap
                /\ map' = [j \in DOMAIN map \cup {k} |-> IF j = k THEN v ELSE map[j]]

Assign(k, v) == /\ k \in DOMAIN map
                /\ map' = [map EXCEPT ![k] = v]

Erase(k) == /\ k \in DOMAIN map
            /\ map' = [j \in DOMAIN map \ {k} |-> map[j]]

Clear == map' = Empty

Next == \/ \E k \in Keys : Erase(k) \/ \E v \in Vals : Insert(k, v) \/ Assign(k, v)
        \/ Clear

Spec == Init /\ [][Next]_vars
=============================================================================
