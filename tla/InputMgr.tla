-------------------------------- MODULE InputMgr --------------------------------
(***************************************************************************)
(* The input manager over the epoller thread: one thread attaches mice and *)
(* starts and stops the epoller's thread, which waits for events, copies   *)
(* of the handlers in hand, and reads the mice.  Events are edge triggered.*)
(***************************************************************************)
EXTENDS Integers

CONSTANTS
    Mice,           \* a mouse is its own descriptor
    max_mouses,
    NoMouse,
    Stop,           \* stands for shutdown_fd_in among the events
    Careful         \* the manager is attached and detached while no thread runs

InputAssumption ==
    max_mouses \in Nat /\ NoMouse \notin Mice /\ Stop \notin Mice /\ Careful \in BOOLEAN

Slots == 0..(max_mouses - 1)
NoSlot == -1

VARIABLES
    registered,     \* external: the slot each descriptor was added with
    armed,          \* external: the descriptors the next epoll_wait reports
    readable,       \* external: the mice with unread events
    stopByte,       \* external: whether the stop pipe holds a byte
    running, wpc,   \* the flag, and the part of the thread that comes next
    handler, copy,  \* whether the group has a handler, and the thread's copy
    batch, keep,    \* the events to dispatch, and the result of the wait so far
    handling,       \* the mouse in the hands of the handler
    attached,       \* whether the manager has an epoller
    mouses,         \* the mouse in each slot
    joining         \* whether stop() waits for the thread

vars == <<registered, armed, readable, stopByte, running, wpc, handler, copy,
          batch, keep, handling, attached, mouses, joining>>
kernel == <<registered, armed, readable, stopByte>>
thread == <<running, wpc, copy, batch, keep, handling>>
manager == <<attached, mouses>>

Plugged == {mouses[s] : s \in Slots} \ {NoMouse}
SlotOf(m) == CHOOSE s \in Slots : mouses[s] = m

Init ==
    /\ registered = [m \in Mice |-> NoSlot] /\ armed = {} /\ readable = {} /\ stopByte = FALSE
    /\ running = FALSE /\ wpc = "none" /\ handler = FALSE /\ copy = FALSE
    /\ batch = {} /\ keep = TRUE /\ handling = NoMouse
    /\ attached = FALSE /\ mouses = [s \in Slots |-> NoMouse] /\ joining = FALSE

-----------------------------------------------------------------------------
\* External: epoll_ctl, and the device.  An added descriptor is reported when
\* it is readable already.
Register(slots) ==
    /\ registered' = [m \in Mice |-> IF m \in DOMAIN slots THEN slots[m] ELSE registered[m]]
    /\ armed' = armed \cup (DOMAIN slots \cap readable)

Unregister(ms) ==
    /\ registered' = [m \in Mice |-> IF m \in ms THEN NoSlot ELSE registered[m]]
    /\ armed' = armed \ ms

Move(m) ==
    /\ readable' = readable \cup {m}
    /\ armed' = IF registered[m] = NoSlot THEN armed ELSE armed \cup {m}
    /\ UNCHANGED <<registered, stopByte, thread, handler, manager, joining>>

-----------------------------------------------------------------------------
\* The thread that owns the manager.
Idle == ~joining
NoThread == wpc \in {"none", "ended"}

\* Mutation: mice that came before the epoller are not added to it.
AttachToEpollerLate ==
    /\ Idle /\ ~attached /\ (Careful => NoThread)
    /\ attached' = TRUE /\ handler' = TRUE
    /\ UNCHANGED <<kernel, thread, mouses, joining>>

AttachToEpoller ==
    /\ Idle /\ ~attached /\ (Careful => NoThread)
    /\ attached' = TRUE /\ handler' = TRUE
    /\ Register([m \in Plugged |-> SlotOf(m)])
    /\ UNCHANGED <<readable, stopByte, thread, mouses, joining>>

DetachEpoller ==
    /\ Idle /\ attached /\ (Careful => NoThread)
    /\ attached' = FALSE /\ handler' = FALSE
    /\ Unregister(Plugged)
    /\ UNCHANGED <<readable, stopByte, thread, mouses, joining>>

\* Attaching to the first free slot; without one it throws.
AttachMouse(m, s) ==
    /\ Idle /\ m \notin Plugged
    /\ mouses[s] = NoMouse /\ \A r \in Slots : mouses[r] = NoMouse => r >= s
    /\ mouses' = [mouses EXCEPT ![s] = m]
    /\ IF attached THEN Register([x \in {m} |-> s]) ELSE UNCHANGED <<registered, armed>>
    /\ UNCHANGED <<readable, stopByte, thread, handler, attached, joining>>

DetachMouse(m) ==
    /\ Idle /\ m \in Plugged
    /\ mouses' = [mouses EXCEPT ![SlotOf(m)] = NoMouse]
    /\ IF attached THEN Unregister({m}) ELSE UNCHANGED <<registered, armed>>
    /\ UNCHANGED <<readable, stopByte, thread, handler, attached, joining>>

\* start(): the assignment to the jthread joins the previous thread, which has
\* nothing left to do once it has reset the flag.
Start ==
    /\ Idle /\ ~running
    /\ running' = TRUE /\ wpc' = "copy"
    /\ UNCHANGED <<kernel, handler, copy, batch, keep, handling, manager, joining>>

StopThread ==
    /\ Idle /\ running
    /\ stopByte' = TRUE /\ armed' = armed \cup {Stop} /\ joining' = TRUE
    /\ UNCHANGED <<registered, readable, thread, handler, manager>>

Joined ==
    /\ joining /\ wpc = "ended"
    /\ joining' = FALSE
    /\ UNCHANGED <<kernel, thread, handler, manager>>

-----------------------------------------------------------------------------
\* The epoller's thread.
CopyHandlers ==
    /\ wpc = "copy"
    /\ copy' = handler /\ keep' = TRUE /\ wpc' = "wait"
    /\ UNCHANGED <<kernel, running, batch, handling, handler, manager, joining>>

\* epoll_wait has room for every descriptor of the manager and the pipe.
Collect ==
    /\ wpc = "wait" /\ armed # {}
    /\ batch' = {[fd |-> f, id |-> IF f = Stop THEN NoSlot ELSE registered[f]] : f \in armed}
    /\ armed' = {} /\ wpc' = "dispatch"
    /\ UNCHANGED <<registered, readable, stopByte, running, copy, keep, handling,
                   handler, manager, joining>>

\* Mutation: the byte stays in the pipe.
DispatchStopUnread ==
    /\ wpc = "dispatch" /\ handling = NoMouse
    /\ \E e \in batch : e.fd = Stop /\ batch' = batch \ {e}
    /\ keep' = FALSE
    /\ UNCHANGED <<kernel, running, wpc, copy, handling, handler, manager, joining>>

DispatchStop ==
    /\ wpc = "dispatch" /\ handling = NoMouse
    /\ \E e \in batch : e.fd = Stop /\ batch' = batch \ {e}
    /\ stopByte' = FALSE /\ keep' = FALSE
    /\ UNCHANGED <<registered, armed, readable, running, wpc, copy, handling,
                   handler, manager, joining>>

\* Mutation: the result is that of the last handler.
DispatchLastResult ==
    /\ wpc = "dispatch" /\ handling = NoMouse
    /\ \E e \in batch :
        /\ e.fd # Stop /\ batch' = batch \ {e}
        /\ handling' = mouses[e.id] /\ keep' = TRUE
    /\ UNCHANGED <<kernel, running, wpc, copy, handler, manager, joining>>

\* A device event is for the mouse that is in the slot by now; an event of a
\* group without a handler takes its descriptor out of the epoller.
Dispatch ==
    /\ wpc = "dispatch" /\ handling = NoMouse
    /\ \E e \in batch :
        /\ e.fd # Stop /\ batch' = batch \ {e}
        /\ IF copy THEN handling' = mouses[e.id] /\ UNCHANGED <<registered, armed>>
           ELSE Unregister({e.fd}) /\ UNCHANGED handling
    /\ UNCHANGED <<readable, stopByte, running, wpc, copy, keep, handler, manager, joining>>

\* Mutation: one read, which may leave events behind.
ReadMouseOnce ==
    /\ handling # NoMouse /\ handling' = NoMouse
    /\ readable' \in {readable, readable \ {handling}}
    /\ UNCHANGED <<registered, armed, stopByte, running, wpc, copy, batch, keep,
                   handler, manager, joining>>

\* The mouse is read until there is nothing more.
ReadMouse ==
    /\ handling # NoMouse /\ handling' = NoMouse
    /\ readable' = readable \ {handling}
    /\ UNCHANGED <<registered, armed, stopByte, running, wpc, copy, batch, keep,
                   handler, manager, joining>>

Waited ==
    /\ wpc = "dispatch" /\ batch = {} /\ handling = NoMouse
    /\ wpc' = IF keep THEN "copy" ELSE "clear"
    /\ UNCHANGED <<kernel, running, copy, batch, keep, handling, handler, manager, joining>>

ClearRunning ==
    /\ wpc = "clear" /\ wpc' = "ended" /\ running' = FALSE
    /\ UNCHANGED <<kernel, copy, batch, keep, handling, handler, manager, joining>>

Worker == CopyHandlers \/ Collect \/ DispatchStop \/ Dispatch \/ ReadMouse \/ Waited \/ ClearRunning

Next == \/ Worker \/ AttachToEpoller \/ DetachEpoller \/ Start \/ StopThread \/ Joined
        \/ \E m \in Mice : Move(m) \/ DetachMouse(m) \/ \E s \in Slots : AttachMouse(m, s)

\* The threads are scheduled; nobody has to call the manager or move a mouse.
Spec == Init /\ [][Next]_vars /\ WF_vars(Worker) /\ WF_vars(Joined)

-----------------------------------------------------------------------------
TypeOK ==
    /\ registered \in [Mice -> Slots \cup {NoSlot}] /\ mouses \in [Slots -> Mice \cup {NoMouse}]
    /\ armed \subseteq Mice \cup {Stop} /\ readable \subseteq Mice
    /\ handling \in Mice \cup {NoMouse}
    /\ wpc \in {"none", "copy", "wait", "dispatch", "clear", "ended"}
    /\ {running, handler, copy, keep, attached, joining, stopByte} \subseteq BOOLEAN

\* A mouse of an attached manager is in the epoller with the slot it is in,
\* however its slot was used before: the thread never takes it for a
\* descriptor that nobody handles.
MiceRegistered ==
    attached => \A m \in Plugged : registered[m] = SlotOf(m)

\* No edge is lost: the unread events of a mouse in the epoller will be
\* reported, are reported and not yet dispatched, or are about to be read.
EdgeKept ==
    \A m \in readable : registered[m] # NoSlot =>
        \/ m \in armed \/ handling = m
        \/ [fd |-> m, id |-> registered[m]] \in batch

\* A finished stop leaves nothing behind that would end the next thread.
StopConsumed == ~running => Stop \notin armed /\ ~stopByte

\* The events of a mouse are read unless it is unplugged or the thread stopped.
Unread(m) == m \in readable /\ running /\ registered[m] # NoSlot
Settles(m) == m \notin readable \/ m \notin Plugged \/ joining
=============================================================================
