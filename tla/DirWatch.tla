------------------------------- MODULE DirWatch -------------------------------
(***************************************************************************)
(* dir_watch_singleton: one inotify watch for a directory, whatever the     *)
(* number of dir_watcher objects that use it, because the kernel refuses a  *)
(* second watch of an inode.  The watchers count as its users.             *)
(***************************************************************************)
EXTENDS Integers, FiniteSets, Functions

CONSTANTS
    Watchers,   \* the places in which a dir_watcher can live
    Dirs,       \* the identities of the directories, as statx gives them
    NoDir,      \* the default of id
    MakeFails   \* whether inotify_add_watch can fail after a successful statx

DirWatchAssumption ==
    IsFiniteSet(Watchers) /\ NoDir \notin Dirs /\ MakeFails \in BOOLEAN

VARIABLES
    ws,         \* _ws: from directories to the number of users and the watch
    alive,      \* the watchers that are constructed
    id,         \* id of each of them
    failed      \* an assertion or an invalid pointer has ended the program

vars == <<ws, alive, id, failed>>

Entry == [users : 0..Cardinality(Watchers), made : BOOLEAN]

Init == /\ ws = [d \in {} |-> {}] /\ alive = {} /\ failed = FALSE
        /\ id = [w \in Watchers |-> NoDir]

\* Mutation: the entry stays when its last user goes.
UnrefKept(d, map) ==
    IF d \notin DOMAIN map THEN map
    ELSE [map EXCEPT ![d].users = @ - 1]

\* unref_watch, within _destroy, which leaves id as it is.
Unref(d, map) ==
    IF d \notin DOMAIN map THEN map
    ELSE IF map[d].users = 1 THEN Restrict(map, DOMAIN map \ {d})
    ELSE [map EXCEPT ![d].users = @ - 1]

\* ref_watch: of a path, and of the identity that another watcher holds.
WithNew(d, map, entry) == [e \in DOMAIN map \cup {d} |-> IF e = d THEN entry ELSE map[e]]
WithEntry(d, map) == IF d \in DOMAIN map THEN map
                     ELSE WithNew(d, map, [users |-> 0, made |-> TRUE])
RefPath(d, map) == [WithEntry(d, map) EXCEPT ![d].users = @ + 1]
RefId(d, map) == [map EXCEPT ![d].users = @ + 1]

\* A new watcher of a directory, moved into w: the new directory is referenced
\* before the old one is given up.  The poller of an entry whose watch was
\* never made follows a null pointer.
Open(w, d) ==
    /\ w \in alive
    /\ failed' = (d \in DOMAIN ws /\ ~ws[d].made)
    /\ IF failed' THEN UNCHANGED <<ws, id>>
       ELSE /\ ws' = Unref(id[w], RefPath(d, ws))
            /\ id' = [id EXCEPT ![w] = d]
    /\ UNCHANGED alive

\* The watch cannot be made: the exception leaves the new entry behind.
OpenFails(d) ==
    /\ MakeFails /\ d \notin DOMAIN ws
    /\ ws' = WithNew(d, ws, [users |-> 0, made |-> FALSE])
    /\ UNCHANGED <<alive, id, failed>>

Construct(w) ==
    /\ w \notin alive
    /\ alive' = alive \cup {w} /\ id' = [id EXCEPT ![w] = NoDir]
    /\ UNCHANGED <<ws, failed>>

\* The copy constructor: the assertion of ref_watch ends the program.
CopyConstruct(w, v) ==
    /\ w \notin alive /\ v \in alive
    /\ alive' = alive \cup {w} /\ id' = [id EXCEPT ![w] = id[v]]
    /\ failed' = (id[v] # NoDir /\ id[v] \notin DOMAIN ws)
    /\ ws' = IF id[v] = NoDir \/ failed' THEN ws ELSE RefId(id[v], ws)

\* Mutation: the identity stays in the watcher that is moved from.
MoveAssignShared(w, v) ==
    /\ {w, v} \subseteq alive /\ w # v
    /\ ws' = Unref(id[w], ws)
    /\ id' = [id EXCEPT ![w] = id[v]]
    /\ UNCHANGED <<alive, failed>>

MoveAssign(w, v) ==
    /\ {w, v} \subseteq alive /\ w # v
    /\ ws' = Unref(id[w], ws)
    /\ id' = [id EXCEPT ![w] = id[v], ![v] = NoDir]
    /\ UNCHANGED <<alive, failed>>

\* The copy assignment: neither branch leaves the count of the old directory
\* right.  An empty watcher gives it up but keeps its identity in w, another
\* one overwrites the identity without giving it up.
CopyAssign(w, v) ==
    /\ {w, v} \subseteq alive /\ w # v
    /\ IF id[v] = NoDir
       THEN ws' = Unref(id[w], ws) /\ UNCHANGED <<id, failed>>
       ELSE /\ failed' = (id[v] \notin DOMAIN ws)
            /\ ws' = IF failed' THEN ws ELSE RefId(id[v], ws)
            /\ id' = [id EXCEPT ![w] = id[v]]
    /\ UNCHANGED alive

Destroy(w) ==
    /\ w \in alive
    /\ ws' = Unref(id[w], ws) /\ alive' = alive \ {w} /\ id' = [id EXCEPT ![w] = NoDir]
    /\ UNCHANGED failed

Next ==
    /\ ~failed
    /\ \/ \E w \in Watchers : Construct(w) \/ Destroy(w) \/ \E d \in Dirs : Open(w, d)
       \/ \E w, v \in Watchers : CopyConstruct(w, v) \/ MoveAssign(w, v)
       \/ \E d \in Dirs : OpenFails(d)

Spec == Init /\ [][Next]_vars

\* The public interface as a whole.
CopyingSpec == Init /\ [][~failed /\ (Next \/ \E w, v \in Watchers : CopyAssign(w, v))]_vars

-----------------------------------------------------------------------------
Users(d) == {w \in alive : id[w] = d}

TypeOK == /\ Range(ws) \subseteq Entry /\ DOMAIN ws \subseteq Dirs
          /\ alive \subseteq Watchers /\ id \in [Watchers -> Dirs \cup {NoDir}]

\* Construction, moves and destruction of any number of watchers keep the count
\* of each directory at the number of the watchers that hold it, also when a
\* watch cannot be made: no watch is removed under a user or kept without one,
\* but for the entry of a failure.
UsersCounted ==
    /\ \A d \in DOMAIN ws : ws[d].users = Cardinality(Users(d))
    /\ \A w \in alive : id[w] # NoDir => id[w] \in DOMAIN ws
    /\ \A d \in DOMAIN ws : ws[d].users = 0 => ~ws[d].made

\* As long as every watch can be made no watcher meets an entry without a
\* watch, and the assertion of ref_watch holds.
EndsAfterFailure == failed => \E d \in DOMAIN ws : ~ws[d].made

\* tbc_r_assert(it != _ws.end()): a watcher holds a directory that is watched.
HeldIsWatched == ~failed
=============================================================================
