------------------------------- MODULE VkHandles -------------------------------
(***************************************************************************)
(* The classes that the Vulkan generator writes around handles: a handle   *)
(* has one owner, which finds what it needs to destroy it through the      *)
(* address of the object that created it.                                  *)
(***************************************************************************)
EXTENDS Integers

CONSTANTS
    Devices,        \* the objects of device_t
    Children,       \* the objects of the classes a device creates
    Defaulted,      \* those among them whose move assignment is defaulted
    MaxHandles,     \* bound: the handles the driver makes in a behaviour
    Careful         \* the program keeps a device in place while it has children

Objects == Devices \cup Children
Null == 0
NoParent == "no parent"

HandlesAssumption ==
    /\ Devices \cap Children = {} /\ Defaulted \subseteq Children /\ NoParent \notin Devices
    /\ MaxHandles \in Nat /\ Careful \in BOOLEAN

Handles == 1..MaxHandles

VARIABLES
    made,       \* the objects that exist
    handle,     \* of an object, Null for the default
    parent,     \* of an object: the address of the device it was created by
    alive,      \* the driver: the handles that live
    creator,    \* the driver: of a handle, the handle of its device, Null for a device
    count,      \* the driver: the handles made
    misused     \* the driver was given a handle that does not live, or a wrong device

vars == <<made, handle, parent, alive, creator, count, misused>>

TypeOK ==
    /\ made \subseteq Objects /\ count \in 0..MaxHandles /\ alive \subseteq 1..count
    /\ handle \in [Objects -> Handles \cup {Null}] /\ parent \in [Objects -> Devices \cup {NoParent}]
    /\ creator \in [Handles -> Handles \cup {Null}] /\ misused \in BOOLEAN
    /\ \A o \in Objects : o \notin made => handle[o] = Null
    /\ \A o \in Children : handle[o] # Null => parent[o] # NoParent

Init ==
    /\ made = {} /\ handle = [o \in Objects |-> Null] /\ parent = [o \in Objects |-> NoParent]
    /\ alive = {} /\ creator = [h \in Handles |-> Null] /\ count = 0 /\ misused = FALSE

-----------------------------------------------------------------------------
\* What has the address of o, and what the driver knows it by.
Users(o) == {c \in Children \cap made : handle[c] # Null /\ parent[c] = o}
Leave(o) == Careful => Users(o) = {}

\* The destroy function is called on a device without living children, or on a
\* child for the device that made it.
WrongCall(o, up) ==
    \/ handle[o] \notin alive
    \/ o \in Devices /\ \E h \in alive : creator[h] = handle[o]
    \/ o \in Children /\ (up \notin made \/ handle[up] # creator[handle[o]])

GivesUpLate(o, up, new) ==
    /\ alive' = IF handle[o] = Null THEN alive \cup new ELSE (alive \cup new) \ {handle[o]}
    /\ misused' = (misused \/ (handle[o] # Null /\ WrongCall(o, up)))
\* o gives up its handle, through the address it has, after the driver made
\* those in new; up is the address it takes over.
GivesUp(o, up, new) ==
    /\ alive' = IF handle[o] = Null THEN alive \cup new ELSE (alive \cup new) \ {handle[o]}
    /\ misused' = (misused \/ (handle[o] # Null /\ WrongCall(o, parent[o])))

\* The move assignment of the class; a defaulted one destroys nothing.
Replaces(o, up, new) ==
    IF o \in Defaulted THEN alive' = alive \cup new /\ UNCHANGED misused ELSE GivesUp(o, up, new)
MayReplace(o) == Leave(o) /\ (Careful /\ o \in Defaulted => handle[o] = Null)

\* The members of p go to o.
\* Mutants: p keeps its handle; its address stays behind.
TakesCopy(o, p) == handle' = [handle EXCEPT ![o] = handle[p]] /\ parent' = [parent EXCEPT ![o] = parent[p]]
Takes(o, p) ==
    /\ handle' = [[handle EXCEPT ![o] = handle[p]] EXCEPT ![p] = Null]
    /\ parent' = [parent EXCEPT ![o] = parent[p]]

-----------------------------------------------------------------------------
\* The default constructor, and the destructor.
Default(o) == o \notin made /\ made' = made \cup {o} /\ UNCHANGED <<handle, parent, alive, creator, count, misused>>
Destroy(o) ==
    /\ o \in made /\ Leave(o) /\ GivesUp(o, parent[o], {})
    /\ made' = made \ {o} /\ handle' = [handle EXCEPT ![o] = Null] /\ parent' = [parent EXCEPT ![o] = NoParent]
    /\ UNCHANGED <<creator, count>>

\* o = p.create(): the driver makes a handle, the object that is returned owns
\* it and is o itself or is assigned to o.  A result with an error throws.
Create(o, from, by) ==
    LET h == count + 1
    IN /\ count < MaxHandles /\ count' = h /\ MayReplace(o) /\ Replaces(o, from, {h})
       /\ handle' = [handle EXCEPT ![o] = h] /\ parent' = [parent EXCEPT ![o] = from]
       /\ creator' = [creator EXCEPT ![h] = by] /\ made' = made \cup {o}
CreateDevice(o) == o \in Devices /\ Create(o, NoParent, Null)
CreateChild(o, d) == o \in Children /\ d \in made \cap Devices /\ handle[d] # Null /\ Create(o, d, handle[d])

SameClass(o, p) == {o, p} \subseteq Devices \/ {o, p} \subseteq Defaulted \/ {o, p} \subseteq Children \ Defaulted

\* The move constructor.
MoveConstruct(o, p) ==
    /\ o \notin made /\ p \in made /\ SameClass(o, p) /\ Leave(p)
    /\ made' = made \cup {o} /\ Takes(o, p)
    /\ UNCHANGED <<alive, creator, count, misused>>

\* The move assignment, of an object to itself as well.
MoveAssign(o, p) ==
    /\ {o, p} \subseteq made /\ SameClass(o, p) /\ MayReplace(o) /\ Leave(p)
    /\ Replaces(o, parent[p], {}) /\ Takes(o, p)
    /\ UNCHANGED <<made, creator, count>>

Next == \E o \in Objects :
    \/ Default(o) \/ Destroy(o) \/ CreateDevice(o)
    \/ \E p \in Objects : CreateChild(o, p) \/ MoveConstruct(o, p) \/ MoveAssign(o, p)

Spec == Init /\ [][Next]_vars

-----------------------------------------------------------------------------
\* Every living handle has one owner and every owner a living handle: nothing
\* is destroyed twice and nothing is left to the driver.
OneOwner ==
    /\ \A o \in made : handle[o] # Null => handle[o] \in alive
    /\ \A h \in alive : \E o \in made : handle[o] = h
    /\ \A o, p \in made : o # p /\ handle[o] = handle[p] => handle[o] = Null

\* Each handle is destroyed by the device that made it, and a device after all
\* of its children.
DestroyedRight == ~misused
=============================================================================
