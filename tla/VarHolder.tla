------------------------------- MODULE VarHolder -------------------------------
(***************************************************************************)
(* core::var, a variant meant never to be empty: it keeps two storages when *)
(* a type may throw in its move constructor and one otherwise.  Every      *)
(* combination of properties of the types is an initial state.  What is    *)
(* undefined in C++ ends the behaviour with "bad".                         *)
(***************************************************************************)
EXTENDS Integers

CONSTANTS
    Objs,       \* the variables
    Types,      \* the positive indexes of the alternatives
    Nums        \* the values of each alternative

VarAssumption == Types \subseteq Nat \ {0} /\ 0 \notin Nums

VARIABLES
    traits,     \* of each type: nothrow copy and move, trivial destruction and assignment
    mem,        \* _storage: the alternative that lives there and its value
    idx, bpos,  \* _idx, 0 for none, and _bpos
    made,       \* the objects that exist
    spent,      \* history: objects of a call the code does not carry through, see below
    bad         \* history: an object was destroyed or read that does not live, or not destroyed

vars == <<traits, mem, idx, bpos, made, spent, bad>>

None == <<0, 0>>
Moved == 0
\* A type may be assigned bytewise and still have a destructor.
Traits == [copy : BOOLEAN, move : BOOLEAN, dtor : BOOLEAN, assign : BOOLEAN]

Doubled == \E t \in Types : ~traits[t].move
Trivial == \A t \in Types : traits[t].dtor      \* no destructor is called
Bytewise == \A t \in Types : traits[t].assign
\* Every constructor builds over the value in use.
InPlace == ~Doubled /\ Trivial

TypeOK ==
    /\ traits \in [Types -> Traits]
    /\ mem \in [Objs -> [0..1 -> Types \X (Nums \cup {Moved}) \cup {None}]]
    /\ idx \in [Objs -> Types \cup {0}] /\ bpos \in [Objs -> 0..1]
    /\ made \subseteq Objs /\ spent \subseteq Objs /\ bad \in BOOLEAN
    /\ \A o \in Objs : ~Doubled => bpos[o] = 0

Init ==
    /\ traits \in [Types -> Traits]
    /\ mem = [o \in Objs |-> [b \in 0..1 |-> None]] /\ idx = [o \in Objs |-> 0]
    /\ bpos = [o \in Objs |-> 0] /\ made = {} /\ spent = {} /\ bad = FALSE

-----------------------------------------------------------------------------
Put(m, o, b, x) == [m EXCEPT ![o][b] = x]
Drop(m, o) == Put(m, o, bpos[o], None)      \* _destroy()
DropBad(o) == ~Trivial /\ mem[o][bpos[o]][1] # idx[o]
Value(o) == mem[o][bpos[o]][2]
Lives(o) == mem[o][bpos[o]] # None
\* The memory after a move out of the objects in ps.
MovedFrom(ps) == [p \in Objs |-> IF p \in ps THEN [mem[p] EXCEPT ![bpos[p]] = <<idx[p], Moved>>] ELSE mem[p]]

\* The value of o, in src, is destroyed and then read for the new one.
ReadsDropped(o, nothrow, src) == nothrow /\ ~Trivial /\ o \in src

EmplaceKeeps(o, t, v, nothrow, src, ps) ==
    LET at == IF Doubled /\ ~nothrow THEN 1 - bpos[o] ELSE bpos[o]
    IN  /\ mem' = Put(MovedFrom(ps), o, at, <<t, v>>)
        /\ idx' = [idx EXCEPT ![o] = t] /\ bpos' = [bpos EXCEPT ![o] = at]
        /\ spent' = (spent \ ({o} \ src)) \cup {q \in src : ReadsDropped(o, nothrow, src)}
        /\ bad' = (bad \/ DropBad(o) \/ ReadsDropped(o, nothrow, src) \/ \E q \in src : ~Lives(q))
EmplaceFirst(o, t, v, nothrow, src, ps) ==
    LET at == IF Doubled /\ ~nothrow THEN 1 - bpos[o] ELSE bpos[o]
    IN  /\ mem' = Put(Drop(MovedFrom(ps), o), o, at, <<t, v>>)
        /\ idx' = [idx EXCEPT ![o] = t] /\ bpos' = [bpos EXCEPT ![o] = at]
        /\ spent' = (spent \ ({o} \ src)) \cup {q \in src : ReadsDropped(o, nothrow, src)}
        /\ bad' = (bad \/ DropBad(o) \/ ReadsDropped(o, TRUE, src) \/ \E q \in src : ~Lives(q))

\* _emplace of a value read from the object in src, none if it comes from
\* outside, and moved out of those in ps.  A constructor
\* that cannot throw follows the destruction of the old value; any other one
\* goes first, to the other storage or to a temporary.
Emplace(o, t, v, nothrow, src, ps) ==
    LET at == IF Doubled /\ ~nothrow THEN 1 - bpos[o] ELSE bpos[o]
    IN  /\ mem' = Put(Drop(MovedFrom(ps), o), o, at, <<t, v>>)
        /\ idx' = [idx EXCEPT ![o] = t] /\ bpos' = [bpos EXCEPT ![o] = at]
        /\ spent' = (spent \ ({o} \ src)) \cup {q \in src : ReadsDropped(o, nothrow, src)}
        /\ bad' = (bad \/ DropBad(o) \/ ReadsDropped(o, nothrow, src) \/ \E q \in src : ~Lives(q))

\* The constructor throws.  One that builds in the storage in use has
\* overwritten the old value, and the index still names it.
ThrowsFlipped(o) ==
    /\ mem' = (IF InPlace THEN Drop(mem, o) ELSE mem) /\ spent' = (IF InPlace THEN spent \cup {o} ELSE spent)
    /\ bpos' = [bpos EXCEPT ![o] = IF Doubled THEN 1 - @ ELSE @] /\ UNCHANGED <<idx, bad>>
Throws(o) ==
    /\ mem' = (IF InPlace THEN Drop(mem, o) ELSE mem) /\ spent' = (IF InPlace THEN spent \cup {o} ELSE spent)
    /\ UNCHANGED <<idx, bpos, bad>>

-----------------------------------------------------------------------------
\* The constructors: storage 0, and _init after the default constructor of
\* the base for a copy or a move.
Make(o, t, v, ps) ==
    /\ o \notin made /\ made' = made \cup {o} /\ spent' = spent \ {o}
    /\ mem' = [MovedFrom(ps) EXCEPT ![o] = [b \in 0..1 |-> IF b = 0 THEN <<t, v>> ELSE None]]
    /\ idx' = [idx EXCEPT ![o] = t] /\ bpos' = [bpos EXCEPT ![o] = 0]
    /\ UNCHANGED traits

\* The copy of a whole variant throws: the base exists, and its destructor, if
\* there is one, dispatches on the index -1 of no alternative.
MakeThrows(o, t, move) ==
    /\ o \notin made /\ ~(IF move THEN traits[t].move ELSE traits[t].copy)
    /\ bad' = (bad \/ ~Trivial) /\ spent' = (IF Trivial THEN spent ELSE spent \cup {o})
    /\ UNCHANGED <<traits, mem, idx, bpos, made>>

MakeValue(o, t, n) == Make(o, t, n, {}) /\ UNCHANGED bad
MakeFrom(o, p, move) ==
    /\ p \in made
    /\ \/ Make(o, idx[p], Value(p), IF move THEN {p} ELSE {}) /\ bad' = (bad \/ ~Lives(p))
       \/ Lives(p) /\ MakeThrows(o, idx[p], move)

Destroy(o) ==
    /\ o \in made /\ made' = made \ {o} /\ mem' = Drop(mem, o)
    /\ bad' = (bad \/ DropBad(o)) /\ spent' = spent \ {o}
    /\ UNCHANGED <<traits, idx, bpos>>

\* operator=(T&&) and emplace().
EmplaceValue(o, t, n, nothrow) ==
    /\ o \in made /\ Emplace(o, t, n, nothrow, {}, {}) /\ UNCHANGED <<traits, made>>

EmplaceThrows(o) == o \in made /\ Throws(o) /\ UNCHANGED <<traits, made>>

\* operator=(const var&) and operator=(var&&) as bytes.  An alternative with a
\* destructor is overwritten by another one and not destroyed, and that of
\* the source has two owners.
Bytes(o, p) ==
    LET skips == ~Trivial /\ idx[o] # idx[p]
    IN  /\ mem' = [mem EXCEPT ![o] = mem[p]] /\ idx' = [idx EXCEPT ![o] = idx[p]]
        /\ bpos' = [bpos EXCEPT ![o] = bpos[p]] /\ bad' = (bad \/ skips)
        /\ spent' = IF skips \/ p \in spent THEN spent \cup {o} ELSE spent \ {o}

\* operator=(const var&) and operator=(var&&): bytes, or _emplace with the
\* constructor of the alternative of the source.
Assign(o, p, move) ==
    /\ {o, p} \subseteq made
    /\ LET nothrow == IF move THEN traits[idx[p]].move ELSE traits[idx[p]].copy
       IN IF Bytewise THEN Bytes(o, p)
          ELSE \/ Emplace(o, idx[p], Value(p), nothrow, {p}, IF move THEN {p} ELSE {})
               \/ ~nothrow /\ Lives(p) /\ Throws(o)
    /\ UNCHANGED <<traits, made>>

Next == ~bad /\ \E o \in Objs :
    \/ \E t \in Types, n \in Nums : MakeValue(o, t, n) \/ \E nothrow \in BOOLEAN : EmplaceValue(o, t, n, nothrow)
    \/ \E p \in Objs, move \in BOOLEAN : MakeFrom(o, p, move) \/ Assign(o, p, move)
    \/ Destroy(o) \/ EmplaceThrows(o)

Spec == Init /\ [][Next]_vars

-----------------------------------------------------------------------------
\* A variant that exists holds exactly the value its index names, and no
\* other storage holds one: each value is destroyed once and none is left
\* behind, whichever constructor throws.  One is without a value only after an
\* exception in a construction in place, and not when it was assigned since.
OneLives == \A o \in Objs :
    IF o \in made THEN /\ mem[o][1 - bpos[o]] = None
                       /\ mem[o][bpos[o]][1] = idx[o] \/ (~Lives(o) /\ InPlace /\ o \in spent)
                  ELSE \A b \in 0..1 : mem[o][b] = None

\* No destroyed value is read, no value that was never made is destroyed and
\* none stays undestroyed, unless one of four calls was made that the code does
\* not carry through: a construction in place that threw, a copy or move
\* construction of a whole variant with destructors that threw, a variant with
\* destructors assigned to itself without a temporary, or to another
\* alternative as bytes.
OnlyLiving == bad => spent # {}

\* What tests/core/var.cpp and valueless_by_exception() say: a variant that
\* exists holds a value, after an exception too.
AsDocumented == \A o \in made : Lives(o)

\* A copy or a move gives the value of its source to the target alone; an
\* assignment or emplace that throws changes nothing or loses the value of its
\* target.
H == INSTANCE Holder WITH
    Vals <- Types \X Nums, Gone <- None, Lost <- <<-1, Moved>>, Residues <- Types \X {Moved},
    content <- [o \in Objs |-> IF o \notin made THEN None
                               ELSE IF Lives(o) THEN <<idx[o], Value(o)>> ELSE <<-1, Moved>>]
IsHolder == H!Spec
=============================================================================
