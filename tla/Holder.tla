-------------------------------- MODULE Holder --------------------------------
(***************************************************************************)
(* What the owning types of core give: an operation that ends gives its    *)
(* value to one object, one that throws changes nothing or leaves its      *)
(* target without a value.                                                 *)
(***************************************************************************)
CONSTANTS
    Objs, Vals,
    Gone,       \* the content of an object that does not exist
    Lost,       \* the content of an object whose value an exception took
    Residues    \* what may be left in an object that was moved from

VARIABLE content    \* of each object

vars == <<content>>

Init == content = [o \in Objs |-> Gone]

Store(o, v) == content' = [content EXCEPT ![o] = v]
Copy(o, p) == content[p] # Gone /\ content' = [content EXCEPT ![o] = content[p]]
Move(o, p) == content[p] # Gone /\ \E left \in Residues :
                  content' = [content EXCEPT ![p] = left, ![o] = content[p]]

\* An exception in the construction of the new value, after the loss of the old.
Lose(o) == content[o] # Gone /\ content' = [content EXCEPT ![o] = Lost]

Next == \E o \in Objs :
    \/ Lose(o) \/ \E v \in Vals \cup {Gone} : Store(o, v)
    \/ \E p \in Objs \ {o} : Copy(o, p) \/ Move(o, p)

Spec == Init /\ [][Next]_vars
=============================================================================
