------------------------------- MODULE VkInstance -------------------------------
(***************************************************************************)
(* vk::instance_t and the tables behind it: the instance manager gives out *)
(* the few ids there are, and each function loader keeps a block of        *)
(* function pointers for every id, cleared when the instance is destroyed. *)
(***************************************************************************)
EXTENDS Integers, FiniteSets, FiniteSetsExt

CONSTANTS
    Objects,        \* the instance_t objects of the program
    Loaders,        \* the instantiations of function_loader, which share a function
    MaxInstances,   \* cfg::vk::max_instances
    MaxHandles      \* bound: the instances the driver makes in a behaviour

InstanceAssumption == MaxInstances \in Nat \ {0} /\ MaxHandles \in Nat

Ids == 0..(MaxInstances - 1)
NoId == -1      \* no_id
Null == 0       \* no handle, and the function pointer before a load
Handles == 1..MaxHandles

VARIABLES
    ids,        \* instance_manager: the free ids by slot
    handlers,   \* instance_manager: the loaders with a destroy handler, by id
    blocks,     \* of a loader and an id: loaded, and the handle its functions are of
    object,     \* of an object: its id, its handle and what its func_cache is of
    made,       \* the handles the driver made
    refused     \* the last operation threw instances_limit_reached

vars == <<ids, handlers, blocks, object, made, refused>>

Empty == [id |-> NoId, inst |-> Null, cache |-> Null]
Live == {o \in Objects : object[o].inst # Null}

TypeOK ==
    /\ ids \in [Ids -> Ids \cup {NoId}] /\ handlers \in [Ids -> SUBSET Loaders]
    /\ blocks \in [Loaders \X Ids -> [loaded : BOOLEAN, f : Handles \cup {Null}]]
    /\ object \in [Objects -> [id : Ids \cup {NoId}, inst : Handles \cup {Null}, cache : Handles \cup {Null}]]
    /\ \A o \in Objects \ Live : object[o] = Empty
    /\ made \in 0..MaxHandles /\ refused \in BOOLEAN

Init ==
    /\ ids = [s \in Ids |-> s] /\ handlers = [i \in Ids |-> {}]
    /\ blocks = [b \in Loaders \X Ids |-> [loaded |-> FALSE, f |-> Null]]
    /\ object = [o \in Objects |-> Empty] /\ made = 0 /\ refused = FALSE

-----------------------------------------------------------------------------
\* alloc(): the first slot that holds an id.
\* Mutant: the slot keeps the id.
AllocKeeps(slot) == slot = Min({s \in Ids : ids[s] # NoId}) /\ UNCHANGED ids
Alloc(slot) == slot = Min({s \in Ids : ids[s] # NoId}) /\ ids' = [ids EXCEPT ![slot] = NoId]
Full == \A s \in Ids : ids[s] = NoId

\* free(): the handlers clear the blocks, and the first empty slot gets the id.
\* Mutant: the handlers are dropped and not called.
FreeUncleared(id) ==
    /\ UNCHANGED blocks /\ handlers' = [handlers EXCEPT ![id] = {}]
    /\ ids' = [ids EXCEPT ![Min({s \in Ids : ids[s] = NoId})] = id]
Free(id) ==
    /\ blocks' = [b \in Loaders \X Ids |->
                     IF b[2] = id /\ b[1] \in handlers[id] THEN [loaded |-> FALSE, f |-> Null] ELSE blocks[b]]
    /\ handlers' = [handlers EXCEPT ![id] = {}]
    /\ ids' = [ids EXCEPT ![Min({s \in Ids : ids[s] = NoId})] = id]

\* The constructor: the id comes first, and when the driver refuses the
\* instance the exception leaves without it.
Construct(o) ==
    /\ object[o] = Empty /\ ~Full /\ refused' = FALSE
    /\ \E slot \in Ids :
        /\ Alloc(slot)
        /\ \/ /\ made < MaxHandles /\ made' = made + 1
              /\ object' = [object EXCEPT ![o] = [id |-> ids[slot], inst |-> made + 1, cache |-> Null]]
           \/ UNCHANGED <<made, object>>
    /\ UNCHANGED <<handlers, blocks>>

ConstructRefused(o) ==
    /\ object[o] = Empty /\ Full /\ refused' = TRUE
    /\ UNCHANGED <<ids, handlers, blocks, object, made>>

\* The destructor.  An object that was moved from has no handle to destroy.
Destroy(o) ==
    /\ o \in Live /\ Free(object[o].id) /\ object' = [object EXCEPT ![o] = Empty]
    /\ refused' = FALSE /\ UNCHANGED made

Moved(to, from) == object' = [object EXCEPT ![to] = object[from], ![from] = Empty]
Move(to, from) ==
    /\ to # from /\ from \in Live /\ Moved(to, from)
    /\ IF to \in Live THEN Free(object[to].id) ELSE UNCHANGED <<ids, handlers, blocks>>
    /\ refused' = FALSE /\ UNCHANGED made

\* get_functions(): a block that is not loaded takes the function from the
\* object's cache, which takes it from the driver the first time.
GetFunctions(o, l) ==
    LET b == <<l, object[o].id>>
        f == IF object[o].cache = Null THEN object[o].inst ELSE object[o].cache
    IN /\ o \in Live /\ ~blocks[b].loaded
       /\ blocks' = [blocks EXCEPT ![b] = [loaded |-> TRUE, f |-> f]]
       /\ object' = [object EXCEPT ![o].cache = f]
       /\ handlers' = [handlers EXCEPT ![object[o].id] = @ \cup {l}]
       /\ refused' = FALSE /\ UNCHANGED <<ids, made>>

Next == \E o \in Objects :
    \/ Construct(o) \/ ConstructRefused(o) \/ Destroy(o)
    \/ \E p \in Objects : Move(o, p)
    \/ \E l \in Loaders : GetFunctions(o, l)

Spec == Init /\ [][Next]_vars

-----------------------------------------------------------------------------
\* An id is in one slot or has one object, never both, and free() always finds
\* the slot its assertion is about.
IdsDistinct ==
    /\ \A s \in Ids, o \in Live : ids[s] # object[o].id
    /\ \A s, t \in Ids : s # t /\ ids[s] = ids[t] => ids[s] = NoId
    /\ \A o, p \in Live : o # p => object[o].id # object[p].id
    /\ Live # {} => \E s \in Ids : ids[s] = NoId

\* A loaded block has the functions of the instance that has the id now, not
\* those of one that had it before.
FunctionsCurrent == \A l \in Loaders, i \in Ids :
    blocks[<<l, i>>].loaded => \E o \in Live : object[o].id = i /\ blocks[<<l, i>>].f = object[o].inst

=============================================================================
