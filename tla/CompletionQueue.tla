--------------------------- MODULE CompletionQueue ---------------------------
(***************************************************************************)
(* What a selector over concurrent tasks promises: the tasks that were     *)
(* submitted are handed out once each, in the order in which they became   *)
(* known to be complete, and none before it is complete.                   *)
(***************************************************************************)
EXTENDS Sequences

CONSTANT Items

VARIABLES
    working,    \* submitted and not complete
    ready,      \* complete and not handed out, in the order of completion
    taken       \* handed out

vars == <<working, ready, taken>>

Members(s) == {s[i] : i \in DOMAIN s}

Init == working = {} /\ ready = <<>> /\ taken = <<>>

Fresh(x) == x \notin working \cup Members(ready) \cup Members(taken)

Submit(x) ==
    /\ Fresh(x)
    /\ \/ working' = working \cup {x} /\ UNCHANGED ready
       \/ ready' = Append(ready, x) /\ UNCHANGED working
    /\ UNCHANGED taken

Complete(x) ==
    /\ x \in working
    /\ working' = working \ {x}
    /\ ready' = Append(ready, x)
    /\ UNCHANGED taken

Take ==
    /\ ready # <<>>
    /\ taken' = Append(taken, Head(ready))
    /\ ready' = Tail(ready)
    /\ UNCHANGED working

Next == Take \/ \E x \in Items : Submit(x) \/ Complete(x)

Spec == Init /\ [][Next]_vars
=============================================================================
