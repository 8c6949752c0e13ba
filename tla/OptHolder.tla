------------------------------- MODULE OptHolder -------------------------------
(***************************************************************************)
(* core::opt: a value and a flag that says whether it lives.  The four     *)
(* layers opt_cctor, opt_mctor, opt_casgn and opt_masgn copy bytes where   *)
(* the type allows it and go through init_from and assign_from otherwise.   *)
(***************************************************************************)
CONSTANTS Objs, Nums

OptAssumption == {"gone", "moved", "empty"} \cap Nums = {}

VARIABLES
    bytes,      \* the operations of T that copy bytes
    throws,     \* the copies of T may throw; a move that throws ends the program
    value,      \* _value, "gone" when nothing lives there
    has_value,  \* _has_value
    made,       \* the objects that exist
    bad         \* a value was built over, read or destroyed that (does not) live

vars == <<bytes, throws, value, has_value, made, bad>>

\* A type that is assigned as bytes is also constructed as bytes.
ByteWays == {{}, {"ctor"}, {"ctor", "assign"}}

TypeOK ==
    /\ bytes \in ByteWays /\ throws \in BOOLEAN
    /\ value \in [Objs -> Nums \cup {"gone", "moved"}] /\ has_value \in [Objs -> BOOLEAN]
    /\ made \subseteq Objs /\ bad \in BOOLEAN

Init ==
    /\ bytes \in ByteWays /\ throws \in BOOLEAN
    /\ value = [o \in Objs |-> "gone"] /\ has_value = [o \in Objs |-> FALSE]
    /\ made = {} /\ bad = FALSE

-----------------------------------------------------------------------------
Lives(o) == value[o] # "gone"
Flag(o, x) == has_value' = [has_value EXCEPT ![o] = x]
Nothing == UNCHANGED <<value, has_value, bad>>

\* get() of p as an lvalue or an rvalue, whose value goes to o.
Take(o, p, move) ==
    value' = [value EXCEPT ![p] = IF move THEN "moved" ELSE @, ![o] = value[p]]

\* init(): the flag follows the construction, so one that throws leaves none.
Built(o) == Flag(o, TRUE) /\ bad' = (bad \/ Lives(o))
BuildThrows == throws /\ "ctor" \notin bytes /\ Nothing

\* An assignment to the value; one of T that throws is taken to keep it.
Assigned(o) == bad' = (bad \/ ~Lives(o)) /\ UNCHANGED has_value
AssignThrows == throws /\ "assign" \notin bytes /\ Nothing

\* reset(), the destructor of T with it.
ResetKeeps(o) == Flag(o, FALSE) /\ UNCHANGED <<value, bad>>
Reset(o) ==
    /\ value' = IF has_value[o] THEN [value EXCEPT ![o] = "gone"] ELSE value
    /\ Flag(o, FALSE) /\ bad' = (bad \/ (has_value[o] /\ ~Lives(o)))

\* init_from(), and the end of it by an exception.
InitFrom(o, p, move) == IF has_value[p] THEN Take(o, p, move) /\ Built(o) ELSE Nothing
InitThrows(p, move) == has_value[p] /\ ~move /\ BuildThrows

\* Mutation: the value is built although one lives there.
AssignBuilds(o, p, move) ==
    \/ o = p /\ Nothing
    \/ o # p /\ InitFrom(o, p, move)
\* Mutation: the two objects change their values.
AssignSwaps(o, p, move) ==
    /\ value' = [value EXCEPT ![o] = value[p], ![p] = value[o]]
    /\ has_value' = [has_value EXCEPT ![o] = has_value[p], ![p] = has_value[o]] /\ UNCHANGED bad

\* assign_from() of another object; of itself it does nothing.
AssignFrom(o, p, move) ==
    \/ o = p /\ Nothing
    \/ o # p /\ has_value[o] /\ has_value[p] /\ Take(o, p, move) /\ Assigned(o)
    \/ o # p /\ has_value[o] /\ has_value[p] /\ ~move /\ AssignThrows
    \/ o # p /\ has_value[o] /\ ~has_value[p] /\ Reset(o)
    \/ o # p /\ ~has_value[o] /\ (InitFrom(o, p, move) \/ InitThrows(p, move))

AsBytes(o, p) == Take(o, p, FALSE) /\ Flag(o, has_value[p]) /\ UNCHANGED bad

-----------------------------------------------------------------------------
Make(o) == o \notin made /\ made' = made \cup {o} /\ UNCHANGED <<bytes, throws>>
On(o) == o \in made /\ UNCHANGED <<bytes, throws, made>>

\* opt() and opt(null); opt(T) and opt(init, ...), which exist or throw.
MakeEmpty(o) == Make(o) /\ Nothing
MakeValue(o, n) == Make(o) /\ value' = [value EXCEPT ![o] = n] /\ Built(o)

\* opt(const opt&) through opt_cctor: when T throws there is no object.
MakeCopy(o, p) ==
    /\ p \in made
    /\ \/ Make(o) /\ IF "ctor" \in bytes THEN AsBytes(o, p) ELSE InitFrom(o, p, FALSE)
       \/ o \notin made /\ InitThrows(p, FALSE) /\ UNCHANGED <<bytes, throws, made>>
\* opt(opt&&) through opt_mctor.
MakeMove(o, p) ==
    /\ p \in made /\ Make(o)
    /\ IF "ctor" \in bytes THEN AsBytes(o, p) ELSE InitFrom(o, p, TRUE)

\* operator=(const opt&) through opt_casgn and operator=(opt&&) through opt_masgn.
AssignCopy(o, p) ==
    /\ p \in made /\ On(o)
    /\ IF "assign" \in bytes THEN AsBytes(o, p) ELSE AssignFrom(o, p, FALSE)
AssignMove(o, p) ==
    /\ p \in made /\ On(o)
    /\ IF "assign" \in bytes THEN AsBytes(o, p) ELSE AssignFrom(o, p, TRUE)

\* operator=(null), and operator= of a value.
AssignNull(o) == On(o) /\ Reset(o)
AssignValue(o, n) ==
    /\ On(o)
    /\ \/ value' = [value EXCEPT ![o] = n] /\ IF has_value[o] THEN Assigned(o) ELSE Built(o)
       \/ IF has_value[o] THEN AssignThrows ELSE BuildThrows

\* The destructor of the base.
Destroy(o) == o \in made /\ made' = made \ {o} /\ Reset(o) /\ UNCHANGED <<bytes, throws>>

Next == \E o \in Objs :
    \/ MakeEmpty(o) \/ AssignNull(o) \/ Destroy(o)
    \/ \E n \in Nums : MakeValue(o, n) \/ AssignValue(o, n)
    \/ \E p \in Objs : MakeCopy(o, p) \/ MakeMove(o, p) \/ AssignCopy(o, p) \/ AssignMove(o, p)

Spec == Init /\ [][Next]_vars

-----------------------------------------------------------------------------
\* A value lives in an object exactly when the object exists and its flag says
\* so, whichever copy has thrown: it is destroyed once and never leaks.
OneLives == \A o \in Objs : Lives(o) <=> (o \in made /\ has_value[o])

\* No value is built over a living one, and none is assigned to or destroyed
\* that does not live.
OnlyLiving == ~bad

\* An operation gives its value to one object, and one that throws changes
\* nothing: none has lost its value.
H == INSTANCE Holder WITH
    Vals <- Nums \cup {"empty"}, Gone <- "gone", Lost <- "gone", Residues <- {"moved"},
    content <- [o \in Objs |-> IF o \notin made THEN "gone"
                               ELSE IF has_value[o] THEN value[o] ELSE "empty"]
IsHolder == H!Spec
=============================================================================
