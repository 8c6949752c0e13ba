----------------------------- MODULE FunctionHolder -----------------------------
(***************************************************************************)
(* core::function: a callable in the storage of the object, with a pointer *)
(* that calls it and a manager that copies, moves and destroys it.  Every  *)
(* combination of properties of the callables is an initial state.  What   *)
(* is undefined in C++ ends the behaviour with "bad".                      *)
(***************************************************************************)
EXTENDS Integers

CONSTANTS
    Objs,       \* the functions
    Callables,      \* the types of callables
    Nums        \* the values of a callable

FunctionAssumption == 0 \notin Nums /\ "none" \notin Callables

None == "none"
Moved == 0

VARIABLES
    traits,     \* of each type: nothrow copy, a move of its own, trivial destruction
    made,       \* the functions that exist
    call, mgr,  \* _funcs: the types they are set up for, or none
    mem,        \* _holder: the callable that lives there, its type and value
    spent,      \* history: set up for a callable that was destroyed or never built
    bad         \* history: a callable was destroyed or read that does not live, or overwritten

vars == <<traits, made, call, mgr, mem, spent, bad>>

Dead == <<None, Moved>>
Traits == [copy : BOOLEAN, move : BOOLEAN, dtor : BOOLEAN]

TypeOK ==
    /\ traits \in [Callables -> Traits] /\ made \subseteq Objs /\ spent \subseteq Objs /\ bad \in BOOLEAN
    /\ {call, mgr} \subseteq [Objs -> Callables \cup {None}]
    /\ mem \in [Objs -> Callables \X (Nums \cup {Moved}) \cup {Dead}]
    /\ \A o \in Objs : call[o] \in {None, mgr[o]}

Init ==
    /\ traits \in [Callables -> Traits] /\ made = {} /\ spent = {} /\ bad = FALSE
    /\ call = [o \in Objs |-> None] /\ mgr = call /\ mem = [o \in Objs |-> Dead]

-----------------------------------------------------------------------------
Trivial(t) == t \notin {u \in Callables : ~traits[u].dtor}

\* _delete(): the manager destroys the callable of the type it is set up for.
Deleted(o) == IF Trivial(mgr[o]) THEN mem ELSE [mem EXCEPT ![o] = Dead]
DeleteBad(o) == ~Trivial(mgr[o]) /\ mem[o][1] # mgr[o]

\* Mutant: the pointers are set before the old callable is deleted.
ReplaceLate(o, t, x, m) ==
    /\ mem' = [m EXCEPT ![o] = x] /\ mgr' = [mgr EXCEPT ![o] = t]
    /\ bad' = (bad \/ (~Trivial(t) /\ mem[o][1] # t) \/ x[1] # t)
    /\ spent' = IF DeleteBad(o) THEN spent ELSE spent \ {o}
\* _delete(), _set_impl() and the construction of x, a callable of type t.
Replace(o, t, x, m) ==
    /\ mem' = [m EXCEPT ![o] = x] /\ mgr' = [mgr EXCEPT ![o] = t]
    /\ bad' = (bad \/ DeleteBad(o) \/ ~Trivial(Deleted(o)[o][1]) \/ x[1] # t)
    /\ spent' = IF DeleteBad(o) THEN spent ELSE spent \ {o}

\* The construction throws: the old callable is gone, and the pointers are
\* those of the new one, which is not there.
Half(o, c, t) ==
    /\ spent' = spent \cup {o} /\ mem' = [Deleted(o) EXCEPT ![o] = Dead]
    /\ bad' = (bad \/ DeleteBad(o)) /\ call' = [call EXCEPT ![o] = c] /\ mgr' = [mgr EXCEPT ![o] = t]

Content(p) == IF mgr[p] = None THEN Dead ELSE mem[p]
\* The memory after the callable of p was moved, or copied for want of a move.
MovedOut(p) ==
    IF mgr[p] # None /\ traits[mgr[p]].move THEN [mem EXCEPT ![p] = <<mgr[p], Moved>>] ELSE mem

-----------------------------------------------------------------------------
\* The constructors; one that throws leaves no function.
Construct(o) ==
    /\ o \notin made /\ made' = made \cup {o}
    /\ \/ UNCHANGED <<call, mgr, mem, spent, bad>>
       \/ \E t \in Callables, n \in Nums :
            Replace(o, t, <<t, n>>, mem) /\ call' = [call EXCEPT ![o] = t]
       \/ \E p \in made :
            Replace(o, mgr[p], Content(p), mem) /\ call' = [call EXCEPT ![o] = call[p]]
    /\ UNCHANGED traits

\* A move that throws, for want of a nothrow copy, terminates the program.
ConstructMoved(o, p) ==
    /\ o \notin made /\ p \in made /\ made' = made \cup {o}
    /\ Replace(o, mgr[p], Content(p), MovedOut(p))
    /\ call' = [call EXCEPT ![o] = call[p], ![p] = None]
    /\ UNCHANGED traits

\* ~function: _delete(), whatever was done to the function before.
Destroy(o) ==
    /\ o \in made /\ made' = made \ {o} /\ bad' = (bad \/ DeleteBad(o))
    /\ mem' = [Deleted(o) EXCEPT ![o] = Dead] /\ spent' = (IF DeleteBad(o) THEN spent ELSE spent \ {o})
    /\ call' = [call EXCEPT ![o] = None] /\ mgr' = [mgr EXCEPT ![o] = None]
    /\ UNCHANGED traits

\* operator=(const function&).
AssignCopy(o, p) ==
    /\ {o, p} \subseteq made /\ o # p
    /\ \/ Replace(o, mgr[p], Content(p), mem) /\ call' = [call EXCEPT ![o] = call[p]]
       \/ /\ mgr[p] # None /\ mem[p][1] = mgr[p] /\ ~traits[mgr[p]].copy
          /\ Half(o, call[p], mgr[p])
    /\ UNCHANGED <<traits, made>>

\* operator=(function&&).
\* Mutant: the source can still be called.
AssignMoveCallable(o, p) ==
    /\ {o, p} \subseteq made /\ o # p
    /\ Replace(o, mgr[p], Content(p), MovedOut(p)) /\ call' = [call EXCEPT ![o] = call[p]]
    /\ UNCHANGED <<traits, made>>
AssignMove(o, p) ==
    /\ {o, p} \subseteq made /\ o # p
    /\ Replace(o, mgr[p], Content(p), MovedOut(p))
    /\ call' = [call EXCEPT ![o] = call[p], ![p] = None]
    /\ UNCHANGED <<traits, made>>

\* operator=(F&&) and emplace().
Emplace(o) ==
    /\ o \in made
    /\ \E t \in Callables :
        \/ \E n \in Nums : Replace(o, t, <<t, n>>, mem) /\ call' = [call EXCEPT ![o] = t]
        \/ Half(o, t, t)
    /\ UNCHANGED <<traits, made>>

\* reset() and operator=(null): the callable is destroyed, the manager stays.
Reset(o) ==
    /\ o \in made /\ mem' = Deleted(o) /\ bad' = (bad \/ DeleteBad(o))
    /\ call' = [call EXCEPT ![o] = None]
    /\ spent' = IF Trivial(mgr[o]) THEN spent ELSE spent \cup {o}
    /\ UNCHANGED <<traits, made, mgr>>

Next == ~bad /\ \E o \in Objs :
    \/ Construct(o) \/ Destroy(o) \/ Emplace(o) \/ Reset(o)
    \/ \E p \in Objs : ConstructMoved(o, p) \/ AssignCopy(o, p) \/ AssignMove(o, p)

Spec == Init /\ [][Next]_vars

-----------------------------------------------------------------------------
\* Every callable is destroyed once: none is destroyed or copied that does not
\* live, and none is lost under another, unless a function exists that was reset
\* or that a construction left by an exception.
DestroyedOnce == bad => spent # {}

\* A function that can be called has the callable to call, alive and not moved
\* from; only an exception in an assignment or emplace leaves one without.
Callable == ~bad => \A o \in made : call[o] # None =>
    (mem[o][1] = call[o] /\ mem[o][2] # Moved) \/ (mem[o] = Dead /\ o \in spent)

\* What tests/core/function.cpp counts: as many destructions as constructions.
AsDocumented == ~bad

\* An operation gives its callable to the target alone, and a moved function is
\* empty.  An assignment that throws changes no other function, and its target
\* has lost its callable.
H == INSTANCE Holder WITH
    Vals <- (Callables \X Nums) \cup {Dead}, Gone <- <<None, -1>>, Lost <- <<None, -2>>, Residues <- {Dead},
    content <- [o \in Objs |-> IF o \notin made THEN <<None, -1>> ELSE IF call[o] = None THEN Dead
                               ELSE IF mem[o] = Dead THEN <<None, -2>> ELSE mem[o]]
IsHolder == H!Spec
=============================================================================
