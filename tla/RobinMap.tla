------------------------------- MODULE RobinMap -------------------------------
(***************************************************************************)
(* core::robin_map_impl over a static array: open addressing in which a    *)
(* bucket remembers its distance from the home of its key, an insertion    *)
(* takes the place of an element that is nearer to its home (Robin Hood)   *)
(* and relocates it, and an erase shifts the followers back.  The loops of  *)
(* emplace and erase are modelled one iteration per step.                    *)
(***************************************************************************)
EXTENDS Integers, FiniteSets, TLC

CONSTANTS
    Cap,        \* capacity(): the array has one more cell, the end of iteration
    Keys,       \* the keys, as the numbers that Hash gives for them
    Vals,       \* the values, the default one of operator[] among them
    DefaultVal

RobinAssumption ==
    /\ Cap \in Nat \ {0} /\ Keys \subseteq Nat
    /\ DefaultVal \in Vals

\* max_distance(), which depends on the cells of the array and not on capacity().
DistLimit == Cap + 2

Idxs == 0..(Cap - 1)
Bucket == [key : Keys, dist : 1..Cap, val : Vals]
Hole == [key |-> 0, dist |-> 0, val |-> DefaultVal]     \* a header of 0

VARIABLES
    data,       \* _data
    occupied,   \* _occupied
    pc,         \* the loop that runs: none, of emplace, of erase, of clear
    carry,      \* new_bucket with dist, Hole outside the loop of emplace
    at,         \* the index of the loop
    ret,        \* the index of the iterator that the last emplace returned
    assign      \* what operator[] is to store through it, {} for nothing

vars == <<data, occupied, pc, carry, at, ret, assign>>

IsEmpty(i) == data[i].dist = 0
NextIdx(i) == (i + 1) % Cap
ToIdx(k) == k % Cap

\* The cell of the d-th probe for a key, and the probe that ends the search:
\* the first that meets an element nearer to its home, or the limit
\* (mutation: also an element that is as far from its own).
Probe(k, d) == (ToIdx(k) + d - 1) % Cap
StopsAtEqual(k, d) == d = DistLimit \/ data[Probe(k, d)].dist <= d
Stops(k, d) == d = DistLimit \/ data[Probe(k, d)].dist < d
StopDist(k) == CHOOSE d \in 1..DistLimit : Stops(k, d) /\ \A e \in 1..(d - 1) : ~Stops(k, e)

\* find: the cells that hold the key before the search ends.
Hits(k) == {Probe(k, d) : d \in {e \in 1..(StopDist(k) - 1) : data[Probe(k, e)].key = k}}
Find(k) == IF Hits(k) = {} THEN Cap ELSE CHOOSE i \in Hits(k) : TRUE

Place(i, b, table) == [table EXCEPT ![i] = b]

Init == /\ data = [i \in Idxs |-> Hole] /\ occupied = 0
        /\ pc = "idle" /\ carry = Hole /\ at = 0 /\ ret = Cap /\ assign = {}

\* An insertion at the end of an unsuccessful search: into an empty cell, or in
\* place of an element that has to be relocated from the next cell on.
InsertAt(i, b) ==
    /\ data' = Place(i, b, data)
    /\ IF IsEmpty(i)
       THEN occupied' = occupied + 1 /\ ret' = i /\ UNCHANGED <<pc, carry, at>>
       ELSE /\ pc' = "relocate" /\ at' = NextIdx(i)
            /\ carry' = [data[i] EXCEPT !.dist = @ + 1]
            /\ UNCHANGED <<occupied, ret>>

\* emplace of a key that is absent; it throws when all cells are occupied.
EmplaceNew(k, v) ==
    /\ Find(k) = Cap /\ occupied # Cap
    /\ InsertAt(Probe(k, StopDist(k)), [key |-> k, dist |-> StopDist(k), val |-> v])

Emplace(k, v) == pc = "idle" /\ assign = {} /\ EmplaceNew(k, v) /\ UNCHANGED assign

\* insert_or_assign of a key that is present.
AssignExisting(k, v) ==
    /\ pc = "idle" /\ assign = {} /\ Find(k) # Cap
    /\ ret' = Find(k)
    /\ data' = [data EXCEPT ![Find(k)].val = v]
    /\ UNCHANGED <<occupied, pc, carry, at, assign>>

\* m[k] = v: an emplace of a default value, then an assignment through the
\* iterator that it returns.
Subscript(k, v) ==
    /\ pc = "idle" /\ assign = {}
    /\ assign' = {[key |-> k, val |-> v]}
    /\ \/ EmplaceNew(k, DefaultVal)
       \/ Find(k) # Cap /\ ret' = Find(k) /\ UNCHANGED <<data, occupied, pc, carry, at>>

AssignThrough ==
    /\ pc = "idle"
    /\ \E a \in assign : data' = [data EXCEPT ![ret].val = a.val]
    /\ assign' = {}
    /\ UNCHANGED <<occupied, pc, carry, at, ret>>

\* One turn of the loop that relocates: into an empty cell, which ends it, in
\* place of an element that is nearer to its home, or on to the next cell.
RelocateEnds ==
    /\ IsEmpty(at)
    /\ data' = Place(at, carry, data)
    /\ occupied' = occupied + 1 /\ ret' = at
    /\ pc' = "idle" /\ carry' = Hole /\ UNCHANGED at

RelocateSwaps ==
    /\ ~IsEmpty(at) /\ data[at].dist < carry.dist
    /\ data' = Place(at, carry, data)
    /\ carry' = [data[at] EXCEPT !.dist = @ + 1]
    /\ at' = NextIdx(at) /\ UNCHANGED <<occupied, ret, pc>>

GoesOn ==
    /\ carry' = [carry EXCEPT !.dist = @ + 1]
    /\ at' = NextIdx(at) /\ UNCHANGED <<data, occupied, ret, pc>>

RelocatePasses == data[at].dist >= carry.dist /\ GoesOn

\* Mutations: only an empty cell is taken; the loop does not pass a cell.
RelocateToEmpty == pc = "relocate" /\ (RelocateEnds \/ (~IsEmpty(at) /\ GoesOn)) /\ UNCHANGED assign
RelocateNoPass ==
    /\ pc = "relocate"
    /\ RelocateEnds \/ RelocateSwaps \/ (data[at].dist >= carry.dist /\ UNCHANGED vars)
    /\ UNCHANGED assign

Relocate ==
    /\ pc = "relocate"
    /\ RelocateEnds \/ RelocateSwaps \/ RelocatePasses
    /\ UNCHANGED assign

\* erase at an iterator: the element is destroyed, its followers are shifted.
EraseAt(i) ==
    /\ data' = Place(i, Hole, data)
    /\ occupied' = occupied - 1
    /\ at' = i

Erase(k) ==
    /\ pc = "idle" /\ assign = {} /\ Find(k) # Cap
    /\ EraseAt(Find(k)) /\ pc' = "shift"
    /\ UNCHANGED <<carry, ret, assign>>

MayShift(i) == data[i].dist > 1

\* Mutation: the element keeps its distance.
Unmoved(b) == b

ShiftedBack(b) == [b EXCEPT !.dist = @ - 1]

\* One turn of the loop that shifts.
ShiftTurn ==
    LET next == NextIdx(at)
    IN  /\ MayShift(next)
        /\ data' = Place(next, Hole, Place(at, ShiftedBack(data[next]), data))
        /\ at' = next
        /\ UNCHANGED <<occupied, pc>>

Shift ==
    /\ pc = "shift"
    /\ \/ ShiftTurn
       \/ ~MayShift(NextIdx(at)) /\ pc' = "idle" /\ UNCHANGED <<data, occupied, at>>
    /\ UNCHANGED <<carry, ret, assign>>

\* Mutation: the count is kept.
ClearData ==
    /\ pc = "idle" /\ assign = {} /\ occupied # 0
    /\ data' = [i \in Idxs |-> Hole]
    /\ UNCHANGED <<occupied, pc, carry, at, ret, assign>>

\* robin_map_impl::clear destroys all buckets but the one that ends iteration.
Clear ==
    /\ pc = "idle" /\ assign = {} /\ occupied # 0
    /\ data' = [i \in Idxs |-> Hole] /\ occupied' = 0
    /\ UNCHANGED <<pc, carry, at, ret, assign>>

Next == \/ \E k \in Keys, v \in Vals : Emplace(k, v) \/ AssignExisting(k, v)
        \/ \E k \in Keys : Erase(k)
        \/ Relocate \/ Shift \/ Clear

Spec == Init /\ [][Next]_vars /\ WF_vars(Relocate) /\ WF_vars(Shift)

\* The same with operator[].
SubscriptSpec ==
    Init /\ [][Next \/ AssignThrough \/ \E k \in Keys, v \in Vals : Subscript(k, v)]_vars

-----------------------------------------------------------------------------
Stored == {i \in Idxs : ~IsEmpty(i)}

TypeOK ==
    /\ data \in [Idxs -> Bucket \cup {Hole}] /\ occupied \in 0..Cap
    /\ pc \in {"idle", "relocate", "shift"} /\ carry \in Bucket \cup {Hole}
    /\ at \in Idxs /\ ret \in 0..Cap
    /\ assign \in SUBSET [key : Keys, val : Vals]

\* Between two calls find meets every stored element: displacing and shifting
\* never leave an element behind a cell at which the search for it ends, and
\* no relocation, wrap or limit of the distance leaves a key in two cells.
EveryKeyFound == pc = "idle" => \A i \in Stored : Hits(data[i].key) = {i}

\* At every step a stored element is where its distance says, seen from the
\* home of its key: the distance is kept when an element is moved.
DistanceTrue == \A i \in Stored : Probe(data[i].key, data[i].dist) = i

\* The size is the number of elements, and a full map has no element in hand.
OccupiedCounts == occupied = Cardinality(Stored)

\* Every call of emplace and erase ends: there is a cell for the element in
\* hand, and the shifting stops before it comes round to the erased cell.
LoopsEnd == [](pc # "idle" => <>(pc = "idle"))

\* The elements, with the one in hand, are the map that the callers see.
InHand == IF carry = Hole THEN {} ELSE {carry}
Elements == {data[i] : i \in Stored} \cup InHand
Contents == [k \in {b.key : b \in Elements} |-> (CHOOSE b \in Elements : b.key = k).val]
M == INSTANCE StaticMap WITH map <- Contents
IsMap == M!Spec

\* What the test of operator[] says: after m[k] = v, m[k] is v.
SubscriptStores ==
    [][AssignThrough => \A a \in assign : data'[Find(a.key)].val = a.val]_vars
=============================================================================
