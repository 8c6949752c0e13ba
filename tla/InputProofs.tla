---------------------------- MODULE InputProofs ----------------------------
(***************************************************************************)
(* Proofs about MCInput, for any number of mice, slots, keys, events and   *)
(* widths: MiceRegistered and Settled.  Each part has an inductive         *)
(* invariant of its own.                                                   *)
(***************************************************************************)
EXTENDS MCInput, TLAPS

-----------------------------------------------------------------------------
(* The input manager and its thread.                                       *)

\* A registered mouse is in the slot it was registered for, each in one, and
\* without an epoller none is registered.
SlotsInv ==
    /\ \A r, s \in Manager!Slots : mouses[r] = mouses[s] => r = s \/ mouses[r] = NoMouse
    /\ \A m \in Mice : registered[m] # Manager!NoSlot => mouses[registered[m]] = m
    /\ \A s \in Manager!Slots : attached /\ mouses[s] # NoMouse => registered[mouses[s]] = s
    /\ ~attached => \A m \in Mice : registered[m] = Manager!NoSlot

\* What the epoller may report, and what it has reported: a mouse that is
\* registered, for the slot it has.
EventsInv ==
    /\ \A m \in armed : m # Stop => registered[m] # Manager!NoSlot
    /\ batch \subseteq [fd : Mice \cup {Stop}, id : Manager!Slots \cup {Manager!NoSlot}]
    /\ batch # {} => wpc = "dispatch"
    /\ handling # NoMouse => wpc = "dispatch"
    /\ \A e \in batch : e.fd # Stop => e.id \in Manager!Slots /\ attached

\* The thread works on the handlers as they are: nobody changes them while it runs.
ThreadInv ==
    /\ handler = attached
    /\ wpc \in {"wait", "dispatch"} => copy = handler
    /\ running <=> wpc \in {"copy", "wait", "dispatch", "clear"}

\* The request to stop is in one place at a time, while stop() waits for the thread.
StopPending == Stop \in armed \/ stopByte \/ \E e \in batch : e.fd = Stop
StopInv ==
    /\ StopPending => joining /\ wpc \in {"copy", "wait", "dispatch"} /\ (wpc = "dispatch" => keep)
    /\ ~(Stop \in armed /\ \E e \in batch : e.fd = Stop)
    /\ stopByte => Stop \in armed \/ \E e \in batch : e.fd = Stop
    /\ \A e, f \in batch : e.fd = Stop /\ f.fd = Stop => e = f
    /\ wpc = "wait" => keep
    /\ wpc = "dispatch" /\ ~keep => joining
    /\ wpc = "clear" => joining

ManagerInv == Manager!TypeOK /\ SlotsInv /\ EventsInv /\ ThreadInv /\ StopInv /\ Manager!EdgeKept

LEMMA ManagerStarts == ASSUME Manager!InputAssumption, Manager!Init PROVE ManagerInv
BY DEF ManagerInv, Manager!TypeOK, SlotsInv, EventsInv, ThreadInv, StopInv, StopPending,
   Manager!EdgeKept, Manager!Init

LEMMA SlotFound ==
    ASSUME ManagerInv, NEW m \in Manager!Plugged
    PROVE  Manager!SlotOf(m) \in Manager!Slots /\ mouses[Manager!SlotOf(m)] = m
BY DEF Manager!Plugged, Manager!SlotOf

LEMMA AttachToEpollerKeeps ==
    ASSUME Manager!InputAssumption, ManagerInv, Manager!AttachToEpoller
    PROVE  ManagerInv'
<1>0. \A m \in Manager!Plugged : Manager!SlotOf(m) \in Manager!Slots /\ mouses[Manager!SlotOf(m)] = m
  BY SlotFound
<1>1. Manager!TypeOK'
  BY <1>0 DEF ManagerInv, Manager!TypeOK, Manager!thread, Manager!Register, Manager!AttachToEpoller
<1>2. SlotsInv'
  BY <1>0 DEF ManagerInv, Manager!TypeOK, SlotsInv, Manager!thread, Manager!Register,
     Manager!Plugged, Manager!AttachToEpoller
<1>3. EventsInv'
  BY <1>0 DEF ManagerInv, Manager!TypeOK, EventsInv, Manager!Slots, Manager!NoSlot, Manager!thread,
     Manager!Register, Manager!AttachToEpoller
<1>4. ThreadInv'
  BY DEF ManagerInv, ThreadInv, Manager!thread, Manager!NoThread, Manager!AttachToEpoller
<1>5. StopInv'
  BY DEF ManagerInv, Manager!TypeOK, Manager!InputAssumption, StopInv, StopPending, Manager!thread,
     Manager!Register, Manager!AttachToEpoller
<1>6. Manager!EdgeKept'
  BY DEF ManagerInv, Manager!TypeOK, SlotsInv, Manager!EdgeKept, Manager!Register,
     Manager!AttachToEpoller
<1> QED BY <1>1, <1>2, <1>3, <1>4, <1>5, <1>6 DEF ManagerInv

LEMMA DetachEpollerKeeps ==
    ASSUME Manager!InputAssumption, ManagerInv, Manager!DetachEpoller
    PROVE  ManagerInv'
<1>1. Manager!TypeOK'
  BY DEF ManagerInv, Manager!TypeOK, Manager!thread, Manager!Unregister, Manager!DetachEpoller
<1>2. SlotsInv'
  BY DEF ManagerInv, Manager!TypeOK, Manager!InputAssumption, SlotsInv, Manager!Unregister,
     Manager!Plugged, Manager!DetachEpoller
<1>3. EventsInv'
  BY DEF ManagerInv, Manager!TypeOK, EventsInv, Manager!thread, Manager!NoThread,
     Manager!Unregister, Manager!DetachEpoller
<1>4. ThreadInv'
  BY DEF ManagerInv, ThreadInv, Manager!thread, Manager!NoThread, Manager!DetachEpoller
<1>5. StopInv'
  BY DEF ManagerInv, StopInv, StopPending, Manager!thread, Manager!Idle, Manager!Unregister,
     Manager!DetachEpoller
<1>6. Manager!EdgeKept'
  BY DEF ManagerInv, Manager!TypeOK, Manager!EdgeKept, Manager!thread, Manager!Unregister,
     Manager!DetachEpoller
<1> QED BY <1>1, <1>2, <1>3, <1>4, <1>5, <1>6 DEF ManagerInv

LEMMA StartKeeps ==
    ASSUME Manager!InputAssumption, ManagerInv, Manager!Start
    PROVE  ManagerInv'
<1>1. Manager!TypeOK'
  BY DEF ManagerInv, Manager!TypeOK, Manager!kernel, Manager!manager, Manager!Start
<1>2. SlotsInv'
  BY DEF ManagerInv, SlotsInv, Manager!kernel, Manager!manager, Manager!Start
<1>3. EventsInv'
  BY DEF ManagerInv, EventsInv, ThreadInv, Manager!kernel, Manager!Start
<1>4. ThreadInv'
  BY DEF ManagerInv, ThreadInv, Manager!manager, Manager!Start
<1>5. StopInv'
  BY DEF ManagerInv, StopInv, StopPending, Manager!kernel, Manager!Start
<1>6. Manager!EdgeKept'
  BY DEF ManagerInv, Manager!EdgeKept, Manager!kernel, Manager!Start
<1> QED BY <1>1, <1>2, <1>3, <1>4, <1>5, <1>6 DEF ManagerInv

LEMMA StopThreadKeeps ==
    ASSUME Manager!InputAssumption, ManagerInv, Manager!StopThread
    PROVE  ManagerInv'
<1>1. Manager!TypeOK'
  BY DEF ManagerInv, Manager!TypeOK, Manager!thread, Manager!manager, Manager!StopThread
<1>2. SlotsInv'
  BY DEF ManagerInv, SlotsInv, Manager!manager, Manager!StopThread
<1>3. EventsInv'
  BY DEF ManagerInv, EventsInv, Manager!thread, Manager!manager, Manager!StopThread
<1>4. ThreadInv'
  BY DEF ManagerInv, ThreadInv, Manager!thread, Manager!manager, Manager!StopThread
<1>5. StopInv'
  BY DEF ManagerInv, ThreadInv, StopInv, StopPending, Manager!thread, Manager!Idle,
     Manager!StopThread
<1>6. Manager!EdgeKept'
  BY DEF ManagerInv, Manager!EdgeKept, Manager!thread, Manager!StopThread
<1> QED BY <1>1, <1>2, <1>3, <1>4, <1>5, <1>6 DEF ManagerInv

LEMMA JoinedKeeps ==
    ASSUME Manager!InputAssumption, ManagerInv, Manager!Joined
    PROVE  ManagerInv'
<1>1. Manager!TypeOK'
  BY DEF ManagerInv, Manager!TypeOK, Manager!kernel, Manager!thread, Manager!manager, Manager!Joined
<1>2. SlotsInv'
  BY DEF ManagerInv, SlotsInv, Manager!kernel, Manager!manager, Manager!Joined
<1>3. EventsInv'
  BY DEF ManagerInv, EventsInv, Manager!kernel, Manager!thread, Manager!Joined
<1>4. ThreadInv'
  BY DEF ManagerInv, ThreadInv, Manager!thread, Manager!manager, Manager!Joined
<1>5. StopInv'
  BY DEF ManagerInv, StopInv, StopPending, Manager!kernel, Manager!thread, Manager!Joined
<1>6. Manager!EdgeKept'
  BY DEF ManagerInv, Manager!TypeOK, Manager!InputAssumption, EventsInv, Manager!EdgeKept,
     Manager!kernel, Manager!Joined
<1> QED BY <1>1, <1>2, <1>3, <1>4, <1>5, <1>6 DEF ManagerInv

LEMMA CopyHandlersKeeps ==
    ASSUME Manager!InputAssumption, ManagerInv, Manager!CopyHandlers
    PROVE  ManagerInv'
<1>1. Manager!TypeOK'
  BY DEF ManagerInv, Manager!TypeOK, Manager!kernel, Manager!manager, Manager!CopyHandlers
<1>2. SlotsInv'
  BY DEF ManagerInv, SlotsInv, Manager!kernel, Manager!manager, Manager!CopyHandlers
<1>3. EventsInv'
  BY DEF ManagerInv, EventsInv, Manager!kernel, Manager!CopyHandlers
<1>4. ThreadInv'
  BY DEF ManagerInv, ThreadInv, Manager!manager, Manager!CopyHandlers
<1>5. StopInv'
  BY DEF ManagerInv, StopInv, StopPending, Manager!kernel, Manager!CopyHandlers
<1>6. Manager!EdgeKept'
  BY DEF ManagerInv, Manager!EdgeKept, Manager!kernel, Manager!CopyHandlers
<1> QED BY <1>1, <1>2, <1>3, <1>4, <1>5, <1>6 DEF ManagerInv

LEMMA CollectKeeps ==
    ASSUME Manager!InputAssumption, ManagerInv, Manager!Collect
    PROVE  ManagerInv'
<1>1. Manager!TypeOK'
  BY DEF ManagerInv, Manager!TypeOK, Manager!manager, Manager!Collect
<1>2. SlotsInv'
  BY DEF ManagerInv, SlotsInv, Manager!manager, Manager!Collect
<1>3. EventsInv'
  BY DEF ManagerInv, Manager!TypeOK, SlotsInv, EventsInv, Manager!manager, Manager!Collect
<1>4. ThreadInv'
  BY DEF ManagerInv, ThreadInv, Manager!manager, Manager!Collect
<1>5. StopInv'
  <2>1. /\ armed' = {} /\ batch = {} /\ wpc = "wait" /\ wpc' = "dispatch"
        /\ batch' = {[fd |-> f, id |-> IF f = Stop THEN Manager!NoSlot ELSE registered[f]] : f \in armed}
        /\ UNCHANGED <<stopByte, joining, keep>>
    BY DEF Manager!Collect, ManagerInv, EventsInv, Manager!NoSlot
  <2>2. (\E e \in batch' : e.fd = Stop) <=> Stop \in armed
    <3>1. ASSUME Stop \in armed PROVE [fd |-> Stop, id |-> Manager!NoSlot] \in batch'
      BY <2>1, <3>1
    <3>2. ASSUME NEW e \in batch', e.fd = Stop PROVE Stop \in armed
      BY <2>1, <3>2
    <3> QED BY <3>1, <3>2
  <2>3. \A e, f \in batch' : e.fd = Stop /\ f.fd = Stop => e = f
    BY <2>1
  <2> QED BY <2>1, <2>2, <2>3 DEF ManagerInv, StopInv, StopPending
<1>6. Manager!EdgeKept'
  BY DEF ManagerInv, Manager!TypeOK, Manager!InputAssumption, EventsInv, Manager!EdgeKept,
     Manager!kernel, Manager!thread, Manager!manager, Manager!Idle, Manager!NoThread,
     Manager!Register, Manager!Unregister, Manager!Plugged, Manager!Collect
<1> QED BY <1>1, <1>2, <1>3, <1>4, <1>5, <1>6 DEF ManagerInv

LEMMA DispatchStopKeeps ==
    ASSUME Manager!InputAssumption, ManagerInv, Manager!DispatchStop
    PROVE  ManagerInv'
<1>1. Manager!TypeOK'
  BY DEF ManagerInv, Manager!TypeOK, Manager!manager, Manager!DispatchStop
<1>2. SlotsInv'
  BY DEF ManagerInv, SlotsInv, Manager!manager, Manager!DispatchStop
<1>3. EventsInv'
  BY DEF ManagerInv, EventsInv, Manager!manager, Manager!DispatchStop
<1>4. ThreadInv'
  BY DEF ManagerInv, ThreadInv, Manager!manager, Manager!DispatchStop
<1>5. StopInv'
  BY DEF ManagerInv, StopInv, StopPending, Manager!DispatchStop
<1>6. Manager!EdgeKept'
  BY DEF ManagerInv, Manager!TypeOK, Manager!InputAssumption, Manager!EdgeKept, Manager!DispatchStop
<1> QED BY <1>1, <1>2, <1>3, <1>4, <1>5, <1>6 DEF ManagerInv

LEMMA DispatchKeeps ==
    ASSUME Manager!InputAssumption, ManagerInv, Manager!Dispatch
    PROVE  ManagerInv'
<1>1. Manager!TypeOK'
  BY DEF ManagerInv, Manager!TypeOK, EventsInv, ThreadInv, Manager!manager, Manager!Dispatch
<1>2. SlotsInv'
  BY DEF ManagerInv, SlotsInv, EventsInv, ThreadInv, Manager!manager, Manager!Dispatch
<1>3. EventsInv'
  BY DEF ManagerInv, EventsInv, ThreadInv, Manager!manager, Manager!Dispatch
<1>4. ThreadInv'
  BY DEF ManagerInv, ThreadInv, Manager!manager, Manager!Dispatch
<1>5. StopInv'
  BY DEF ManagerInv, EventsInv, ThreadInv, StopInv, StopPending, Manager!Dispatch
<1>6. Manager!EdgeKept'
  BY DEF ManagerInv, Manager!TypeOK, Manager!InputAssumption, SlotsInv, EventsInv, ThreadInv,
     Manager!EdgeKept, Manager!Dispatch
<1> QED BY <1>1, <1>2, <1>3, <1>4, <1>5, <1>6 DEF ManagerInv

LEMMA ReadMouseKeeps ==
    ASSUME Manager!InputAssumption, ManagerInv, Manager!ReadMouse
    PROVE  ManagerInv'
<1>1. Manager!TypeOK'
  BY DEF ManagerInv, Manager!TypeOK, Manager!manager, Manager!ReadMouse
<1>2. SlotsInv'
  BY DEF ManagerInv, SlotsInv, Manager!manager, Manager!ReadMouse
<1>3. EventsInv'
  BY DEF ManagerInv, EventsInv, Manager!manager, Manager!ReadMouse
<1>4. ThreadInv'
  BY DEF ManagerInv, ThreadInv, Manager!manager, Manager!ReadMouse
<1>5. StopInv'
  BY DEF ManagerInv, StopInv, StopPending, Manager!ReadMouse
<1>6. Manager!EdgeKept'
  BY DEF ManagerInv, Manager!EdgeKept, Manager!ReadMouse
<1> QED BY <1>1, <1>2, <1>3, <1>4, <1>5, <1>6 DEF ManagerInv

LEMMA WaitedKeeps ==
    ASSUME Manager!InputAssumption, ManagerInv, Manager!Waited
    PROVE  ManagerInv'
<1>1. Manager!TypeOK'
  BY DEF ManagerInv, Manager!TypeOK, Manager!kernel, Manager!manager, Manager!Waited
<1>2. SlotsInv'
  BY DEF ManagerInv, SlotsInv, Manager!kernel, Manager!manager, Manager!Waited
<1>3. EventsInv'
  BY DEF ManagerInv, EventsInv, Manager!kernel, Manager!Waited
<1>4. ThreadInv'
  BY DEF ManagerInv, ThreadInv, Manager!manager, Manager!Waited
<1>5. StopInv'
  BY DEF ManagerInv, StopInv, StopPending, Manager!kernel, Manager!Waited
<1>6. Manager!EdgeKept'
  BY DEF ManagerInv, Manager!EdgeKept, Manager!kernel, Manager!Waited
<1> QED BY <1>1, <1>2, <1>3, <1>4, <1>5, <1>6 DEF ManagerInv

LEMMA ClearRunningKeeps ==
    ASSUME Manager!InputAssumption, ManagerInv, Manager!ClearRunning
    PROVE  ManagerInv'
<1>1. Manager!TypeOK'
  BY DEF ManagerInv, Manager!TypeOK, Manager!kernel, Manager!manager, Manager!ClearRunning
<1>2. SlotsInv'
  BY DEF ManagerInv, SlotsInv, Manager!kernel, Manager!manager, Manager!ClearRunning
<1>3. EventsInv'
  BY DEF ManagerInv, EventsInv, Manager!kernel, Manager!ClearRunning
<1>4. ThreadInv'
  BY DEF ManagerInv, ThreadInv, Manager!manager, Manager!ClearRunning
<1>5. StopInv'
  BY DEF ManagerInv, StopInv, StopPending, Manager!kernel, Manager!ClearRunning
<1>6. Manager!EdgeKept'
  BY DEF ManagerInv, Manager!EdgeKept, Manager!kernel, Manager!ClearRunning
<1> QED BY <1>1, <1>2, <1>3, <1>4, <1>5, <1>6 DEF ManagerInv

LEMMA MoveKeeps ==
    ASSUME Manager!InputAssumption, ManagerInv, NEW m \in Mice, Manager!Move(m)
    PROVE  ManagerInv'
<1>1. Manager!TypeOK'
  BY DEF ManagerInv, Manager!TypeOK, Manager!thread, Manager!manager, Manager!Move
<1>2. SlotsInv'
  BY DEF ManagerInv, SlotsInv, Manager!manager, Manager!Move
<1>3. EventsInv'
  BY DEF ManagerInv, EventsInv, Manager!thread, Manager!manager, Manager!Move
<1>4. ThreadInv'
  BY DEF ManagerInv, ThreadInv, Manager!thread, Manager!manager, Manager!Move
<1>5. StopInv'
  BY DEF ManagerInv, Manager!InputAssumption, StopInv, StopPending, Manager!thread, Manager!Move
<1>6. Manager!EdgeKept'
  BY DEF ManagerInv, Manager!EdgeKept, Manager!thread, Manager!Move
<1> QED BY <1>1, <1>2, <1>3, <1>4, <1>5, <1>6 DEF ManagerInv

LEMMA DetachMouseKeeps ==
    ASSUME Manager!InputAssumption, ManagerInv, NEW m \in Mice, Manager!DetachMouse(m)
    PROVE  ManagerInv'
<1>0. Manager!SlotOf(m) \in Manager!Slots /\ mouses[Manager!SlotOf(m)] = m
  BY SlotFound DEF Manager!DetachMouse
<1>1. Manager!TypeOK'
  BY <1>0 DEF ManagerInv, Manager!TypeOK, Manager!thread, Manager!Unregister, Manager!DetachMouse
<1>2. SlotsInv'
  BY <1>0 DEF ManagerInv, Manager!TypeOK, SlotsInv, Manager!Unregister, Manager!DetachMouse
<1>3. EventsInv'
  BY <1>0 DEF ManagerInv, Manager!TypeOK, EventsInv, Manager!thread, Manager!Unregister,
     Manager!DetachMouse
<1>4. ThreadInv'
  BY DEF ManagerInv, ThreadInv, Manager!thread, Manager!DetachMouse
<1>5. StopInv'
  BY DEF ManagerInv, Manager!InputAssumption, StopInv, StopPending, Manager!thread,
     Manager!Unregister, Manager!DetachMouse
<1>6. Manager!EdgeKept'
  BY DEF ManagerInv, Manager!TypeOK, Manager!EdgeKept, Manager!thread, Manager!Unregister,
     Manager!DetachMouse
<1> QED BY <1>1, <1>2, <1>3, <1>4, <1>5, <1>6 DEF ManagerInv

LEMMA AttachMouseKeeps ==
    ASSUME Manager!InputAssumption, ManagerInv, NEW m \in Mice, NEW s \in Manager!Slots, Manager!AttachMouse(m, s)
    PROVE  ManagerInv'
<1>1. Manager!TypeOK'
  BY DEF ManagerInv, Manager!TypeOK, Manager!thread, Manager!Register, Manager!AttachMouse
<1>2. SlotsInv'
  BY DEF ManagerInv, Manager!TypeOK, Manager!InputAssumption, SlotsInv, Manager!Register,
     Manager!Plugged, Manager!AttachMouse
<1>3. EventsInv'
  BY DEF ManagerInv, Manager!TypeOK, EventsInv, Manager!Slots, Manager!NoSlot, Manager!thread,
     Manager!Register, Manager!AttachMouse
<1>4. ThreadInv'
  BY DEF ManagerInv, ThreadInv, Manager!thread, Manager!AttachMouse
<1>5. StopInv'
  BY DEF ManagerInv, Manager!InputAssumption, StopInv, StopPending, Manager!thread,
     Manager!Register, Manager!AttachMouse
<1>6. Manager!EdgeKept'
  BY DEF ManagerInv, Manager!TypeOK, Manager!EdgeKept, Manager!thread, Manager!Register,
     Manager!AttachMouse
<1> QED BY <1>1, <1>2, <1>3, <1>4, <1>5, <1>6 DEF ManagerInv

LEMMA ManagerKeeps ==
    ASSUME Manager!InputAssumption, ManagerInv, Manager!Next
    PROVE  ManagerInv'
<1>1. CASE Manager!Worker
  BY <1>1, CopyHandlersKeeps, CollectKeeps, DispatchStopKeeps, DispatchKeeps, ReadMouseKeeps, WaitedKeeps,
     ClearRunningKeeps DEF Manager!Worker
<1>2. CASE Manager!AttachToEpoller \/ Manager!DetachEpoller \/ Manager!Start \/ Manager!StopThread \/ Manager!Joined
  BY <1>2, AttachToEpollerKeeps, DetachEpollerKeeps, StartKeeps, StopThreadKeeps, JoinedKeeps
<1>3. ASSUME NEW m \in Mice, Manager!Move(m) \/ Manager!DetachMouse(m) \/ \E s \in Manager!Slots : Manager!AttachMouse(m, s)
      PROVE  ManagerInv'
  BY <1>3, MoveKeeps, DetachMouseKeeps, AttachMouseKeeps
<1> QED BY <1>1, <1>2, <1>3 DEF Manager!Next

LEMMA ManagerSafe ==
    ASSUME Manager!InputAssumption, ManagerInv
    PROVE  Manager!TypeOK /\ Manager!MiceRegistered /\ Manager!EdgeKept /\ Manager!StopConsumed
<1>1. ASSUME attached, NEW m \in Manager!Plugged
      PROVE  registered[m] = Manager!SlotOf(m)
  <2>1. Manager!SlotOf(m) \in Manager!Slots /\ mouses[Manager!SlotOf(m)] = m
    BY SlotFound
  <2>2. m # NoMouse
    BY DEF Manager!Plugged, Manager!InputAssumption
  <2> QED BY <1>1, <2>1, <2>2 DEF ManagerInv, SlotsInv
<1>2. Manager!StopConsumed
  BY DEF ManagerInv, StopInv, ThreadInv, StopPending, Manager!StopConsumed
<1> QED BY <1>1, <1>2 DEF ManagerInv, Manager!MiceRegistered
-----------------------------------------------------------------------------
(* The state of a mouse.                                                   *)

Bits == 0..(BlockBits - 1)
Pos(k, v) == Mouse!GetPos(k, v)

\* The motion in the block is what the events since the last take can sum up to.
MotionInv ==
    /\ rel \in 0..(2 * RelHalf - 1) /\ moved \in Int /\ shown \in Int /\ events \in 0..MaxMoves
    /\ Mouse!MotionKept
    /\ -(MaxStep * events) <= Mouse!Signed(rel) /\ Mouse!Signed(rel) <= MaxStep * events

KeysInv ==
    /\ blocks \in [Mouse!Blocks -> SUBSET Bits] /\ state \in [rel : Int, bits : [Mouse!Blocks -> SUBSET Bits]]
    /\ taking \in -1..Mouse!BlockCount /\ switch_state \subseteq Mouse!Keys /\ down \subseteq Mouse!Keys
    /\ since \in [Mouse!Keys -> SUBSET Mouse!Values] /\ mixed \subseteq Mouse!Keys
    /\ Mouse!ChangesKept

\* What was introduced of a key fits the device: with the one change since,
\* or, between the take and the update, with what was taken.
OneChange(S, k) == \A v \in S : S = {v} => (k \in down <=> v = 1)
ShownKey(k) == IF k \in mixed THEN k \notin switch_state ELSE k \in switch_state <=> k \in down
TakenKey(k) ==
    since[k] = {} => IF Mouse!Test(state.bits, k) = {} THEN ShownKey(k)
                     ELSE OneChange(Mouse!Test(state.bits, k), k)
SettledInv ==
    Mouse!BlockCount = 1 => \A k \in Mouse!Keys :
        /\ OneChange(since[k], k)
        /\ IF taking = 1 THEN TakenKey(k) ELSE since[k] = {} => ShownKey(k)

MouseInv == MotionInv /\ KeysInv /\ SettledInv

LEMMA DivMod ==
    ASSUME NEW n \in Nat \ {0}, NEW x \in Nat
    PROVE  /\ x \div n \in Nat /\ x % n \in 0..(n - 1)
           /\ x = n * (x \div n) + (x % n)
  BY SMT

LEMMA QuotientLess ==
    ASSUME NEW n \in Nat \ {0}, NEW q \in Nat, NEW r \in Nat, NEW w \in Nat, n * q + r < n * w
    PROVE  q < w
  BY SMT

LEMMA SumWraps ==
    ASSUME NEW h \in Nat \ {0}, NEW n \in 0..(2 * h - 1), NEW v \in Int, NEW s \in Int,
           s = IF n >= h THEN n - 2 * h ELSE n, -h < s + v, s + v < h
    PROVE  /\ (n + v) % (2 * h) \in 0..(2 * h - 1)
           /\ s + v = IF (n + v) % (2 * h) >= h THEN ((n + v) % (2 * h)) - 2 * h ELSE (n + v) % (2 * h)
<1>1. PICK d \in Nat \ {0} : d = 2 * h
  OBVIOUS
<1>2. PICK z \in Int : z = s + v
  OBVIOUS
<1>3. PICK x \in 0..(d - 1) : (n + v = x \/ n + v = x + d \/ n + v = x - d) /\ s + v = IF x >= h THEN x - d ELSE x
  <2>1. CASE z < 0
    <3>1. z + d \in 0..(d - 1) /\ z + d >= h /\ z = (z + d) - d
      BY <1>1, <1>2, <2>1
    <3>2. n + v = z + d \/ n + v = (z + d) + d \/ n + v = (z + d) - d
      BY <1>1, <1>2
    <3> QED BY <1>2, <3>1, <3>2
  <2>2. CASE z >= 0
    <3>1. z \in 0..(d - 1) /\ ~(z >= h)
      BY <1>1, <1>2, <2>2
    <3>2. n + v = z \/ n + v = z + d \/ n + v = z - d
      BY <1>1, <1>2
    <3> QED BY <1>2, <3>1, <3>2
  <2> QED BY <1>2, <2>1, <2>2
<1>4. x % d = x /\ (x + d) % d = x /\ (x - d) % d = x
  BY <1>1, SMT
<1> QED BY <1>1, <1>3, <1>4

LEMMA StepsGrow ==
    ASSUME NEW a \in Nat, NEW e \in Nat, NEW f \in Nat, e + 1 <= f
    PROVE  a * (e + 1) = a * e + a /\ a * (e + 1) <= a * f /\ a * e \in Nat /\ a * f \in Nat
  BY SMT

LEMMA BlockCounted == ASSUME Mouse!MouseAssumption PROVE Mouse!BlockCount \in Nat \ {0}
<1>1. 2 * KeyCount - 1 \in Nat /\ BlockBits \in Nat \ {0}
  BY DEF Mouse!MouseAssumption
<1>2. (2 * KeyCount - 1) \div BlockBits \in Nat
  BY ONLY <1>1, DivMod, Zenon
<1> QED BY <1>2 DEF Mouse!BlockCount

LEMMA PosFits ==
    ASSUME Mouse!MouseAssumption, NEW k \in Mouse!Keys, NEW v \in Mouse!Values
    PROVE  Pos(k, v).block \in Mouse!Blocks /\ Pos(k, v).bit \in Bits
<1> DEFINE n == k * 2 + v
           bc == Mouse!BlockCount
           w == 2 * KeyCount - 1
<1>1. n \in 0..w /\ n \in Nat /\ w \in Nat /\ BlockBits \in Nat \ {0}
  BY DEF Mouse!MouseAssumption, Mouse!Keys, Mouse!Values
<1>2. bc \in Nat \ {0} /\ w < bc * BlockBits
  <2>1. /\ w \div BlockBits \in Nat /\ w % BlockBits \in 0..(BlockBits - 1)
        /\ w = BlockBits * (w \div BlockBits) + (w % BlockBits)
    BY ONLY <1>1, DivMod, Zenon
  <2>2. PICK q \in Nat : q = w \div BlockBits
    BY <2>1
  <2>3. bc = q + 1
    BY <2>2 DEF Mouse!BlockCount
  <2>4. (q + 1) * BlockBits = BlockBits * q + BlockBits
    BY <1>1
  <2> HIDE DEF bc, w
  <2> QED BY <1>1, <2>1, <2>2, <2>3, <2>4
<1> HIDE DEF n, bc, w
<1>3. n \div bc \in Nat /\ n % bc \in 0..(bc - 1) /\ n = bc * (n \div bc) + (n % bc)
  BY ONLY <1>1, <1>2, DivMod, Zenon
<1>4. n \div bc < BlockBits
  <2>1. PICK q \in Nat, r \in Nat : q = n \div bc /\ r = n % bc /\ n = bc * q + r
    BY <1>2, <1>3
  <2>2. bc * q + r < bc * BlockBits /\ BlockBits \in Nat
    BY <1>1, <1>2, <2>1
  <2> QED BY ONLY <1>2, <2>1, <2>2, QuotientLess, Zenon
<1>5. Pos(k, v).block = n % bc /\ Pos(k, v).bit = n \div bc
  BY DEF Pos, Mouse!GetPos, n, bc
<1> QED BY <1>1, <1>2, <1>3, <1>4, <1>5 DEF Mouse!Blocks, Bits, bc

LEMMA PosDiffers ==
    ASSUME Mouse!MouseAssumption, NEW k \in Mouse!Keys, NEW v \in Mouse!Values,
           NEW l \in Mouse!Keys, NEW u \in Mouse!Values, Pos(k, v) = Pos(l, u)
    PROVE  k = l /\ v = u
<1> DEFINE n == k * 2 + v
           m == l * 2 + u
           bc == Mouse!BlockCount
<1>1. n \in Nat /\ m \in Nat /\ k \in Nat /\ l \in Nat /\ v \in 0..1 /\ u \in 0..1
  BY DEF Mouse!MouseAssumption, Mouse!Keys, Mouse!Values
<1>2. bc \in Nat \ {0}
  BY BlockCounted
<1>3. n % bc = m % bc /\ n \div bc = m \div bc
  BY DEF Pos, Mouse!GetPos
<1>4. n = m
  <2> HIDE DEF n, m, bc
  <2>1. n = bc * (n \div bc) + (n % bc) /\ m = bc * (m \div bc) + (m % bc)
    BY ONLY <1>1, <1>2, DivMod, Zenon
  <2> QED BY <1>3, <2>1
<1> QED BY <1>1, <1>4

LEMMA MouseStarts == ASSUME Mouse!MouseAssumption, Mouse!Init PROVE MouseInv
<1>1. MaxMoves \in Nat /\ MaxStep \in Nat /\ RelHalf \in Nat \ {0} /\ MaxStep * 0 = 0
  BY DEF Mouse!MouseAssumption
<1>2. MotionInv
  BY <1>1 DEF Mouse!Init, MotionInv, Mouse!MotionKept, Mouse!Signed
<1>3. -1 \in -1..Mouse!BlockCount
  BY BlockCounted
<1>4. KeysInv
  <2>1. \A k \in Mouse!Keys, v \in Mouse!Values : Pos(k, v).block \in Mouse!Blocks
    BY PosFits
  <2> QED BY <1>3, <2>1 DEF Mouse!Init, KeysInv, Mouse!ChangesKept, Mouse!Test, Pos
<1>5. SettledInv
  BY DEF Mouse!Init, SettledInv, OneChange, ShownKey
<1> QED BY <1>2, <1>4, <1>5 DEF MouseInv

LEMMA HandleMotionKeeps ==
    ASSUME Mouse!MouseAssumption, MouseInv, NEW value \in -MaxStep..MaxStep, Mouse!HandleMotion(value)
    PROVE  MouseInv'
<1>1. PICK s \in Int : s = Mouse!Signed(rel)
  BY DEF Mouse!Signed, MouseInv, MotionInv, Mouse!MouseAssumption
<1>2. PICK low \in Nat, one \in Nat, top \in Nat :
        low = MaxStep * events /\ one = MaxStep * (events + 1) /\ top = MaxStep * MaxMoves
        /\ one = low + MaxStep /\ one <= top /\ top < RelHalf
  <2>1. MaxStep \in Nat /\ events \in Nat /\ MaxMoves \in Nat /\ events + 1 \in Nat /\ events + 1 <= MaxMoves
        /\ MaxStep * MaxMoves < RelHalf
    BY DEF Mouse!HandleMotion, MouseInv, MotionInv, Mouse!MouseAssumption
  <2>2. /\ MaxStep * (events + 1) = MaxStep * events + MaxStep /\ MaxStep * (events + 1) <= MaxStep * MaxMoves
        /\ MaxStep * events \in Nat /\ MaxStep * MaxMoves \in Nat
    BY <2>1, StepsGrow
  <2>3. MaxStep * (events + 1) \in Nat
    BY <2>1, <2>2
  <2> QED BY <2>1, <2>2, <2>3
<1>3. /\ RelHalf \in Nat \ {0} /\ rel \in 0..(2 * RelHalf - 1) /\ value \in Int /\ MaxStep \in Nat
      /\ s = (IF rel >= RelHalf THEN rel - 2 * RelHalf ELSE rel)
      /\ -low <= s /\ s <= low /\ -MaxStep <= value /\ value <= MaxStep
  BY <1>1, <1>2 DEF Mouse!Signed, MouseInv, MotionInv, Mouse!MouseAssumption
<1>4. -RelHalf < s + value /\ s + value < RelHalf /\ -one <= s + value /\ s + value <= one
  BY <1>2, <1>3
<1>5. /\ rel' = (rel + value) % (2 * RelHalf) /\ events' = events + 1 /\ events' \in 0..MaxMoves
      /\ moved' = moved + value /\ UNCHANGED <<blocks, state, switch_state, taking, down, shown, since, mixed>>
  BY DEF Mouse!HandleMotion, Mouse!Unsigned, MouseInv, MotionInv, Mouse!MouseAssumption
<1>6. rel' \in 0..(2 * RelHalf - 1) /\ s + value = Mouse!Signed(rel)'
  BY <1>3, <1>4, <1>5, SumWraps DEF Mouse!Signed
<1>7. MotionInv'
  <2>1. moved \in Int /\ shown \in Int /\ shown + s = moved
    BY <1>1 DEF MouseInv, MotionInv, Mouse!MotionKept
  <2> QED BY <1>2, <1>3, <1>4, <1>5, <1>6, <2>1 DEF MotionInv, Mouse!MotionKept
<1>8. KeysInv'
  BY <1>5 DEF MouseInv, KeysInv, Mouse!ChangesKept, Mouse!Test
<1>9. SettledInv'
  BY <1>5 DEF MouseInv, SettledInv, OneChange, ShownKey, TakenKey, Mouse!Test
<1> QED BY <1>7, <1>8, <1>9 DEF MouseInv

LEMMA HandleKeyKeeps ==
    ASSUME Mouse!MouseAssumption, MouseInv, NEW key \in Mouse!Keys, NEW value \in 0..2, Mouse!HandleKey(key, value)
    PROVE  MouseInv'
<1>1. /\ events' = events + 1 /\ events < MaxMoves /\ UNCHANGED <<rel, moved, shown, state, switch_state, taking, mixed>>
      /\ IF value = 1 THEN key \notin down ELSE key \in down
      /\ down' = IF value = 0 THEN down \ {key} ELSE IF value = 1 THEN down \cup {key} ELSE down
      /\ IF value \in Mouse!Values
         THEN /\ blocks' = [blocks EXCEPT ![Pos(key, value).block] = @ \cup {Pos(key, value).bit}]
              /\ since' = [since EXCEPT ![key] = @ \cup {value}]
         ELSE UNCHANGED <<blocks, since>>
  BY DEF Mouse!HandleKey, Pos
<1>2. MotionInv'
  <2>1. MaxStep \in Nat /\ events \in Nat /\ MaxMoves \in Nat /\ events + 1 <= MaxMoves
    BY <1>1 DEF MouseInv, MotionInv, Mouse!MouseAssumption
  <2>2. MaxStep * (events + 1) = MaxStep * events + MaxStep /\ MaxStep * events \in Nat
    BY <2>1, StepsGrow
  <2>3. Mouse!Signed(rel) \in Int /\ Mouse!Signed(rel)' = Mouse!Signed(rel)
    BY <1>1 DEF MouseInv, MotionInv, Mouse!Signed, Mouse!MouseAssumption
  <2>4. PICK low \in Nat, one \in Nat, s \in Int : low = MaxStep * events /\ one = MaxStep * (events + 1)
          /\ one = low + MaxStep /\ s = Mouse!Signed(rel)
    <3>1. MaxStep * events \in Nat /\ MaxStep * (events + 1) \in Nat
      BY <2>1, <2>2
    <3> QED BY ONLY <2>2, <2>3, <3>1, Zenon
  <2>5. -one <= s /\ s <= one
    BY <2>1, <2>4 DEF MouseInv, MotionInv
  <2> QED BY <1>1, <2>1, <2>3, <2>4, <2>5 DEF MouseInv, MotionInv, Mouse!MotionKept
<1>3. \A k \in Mouse!Keys, v \in Mouse!Values : Pos(k, v).block \in Mouse!Blocks /\ Pos(k, v).bit \in Bits
  BY PosFits
<1>4. value \in Mouse!Values => \A k \in Mouse!Keys, v \in Mouse!Values : Pos(k, v) = Pos(key, value) => k = key /\ v = value
  BY PosDiffers
<1>5. \A k \in Mouse!Keys, v \in Mouse!Values : Pos(k, v) = [block |-> Pos(k, v).block, bit |-> Pos(k, v).bit]
  BY DEF Pos, Mouse!GetPos
<1>6. KeysInv'
  <2>1. /\ blocks' \in [Mouse!Blocks -> SUBSET Bits] /\ down' \subseteq Mouse!Keys
        /\ since' \in [Mouse!Keys -> SUBSET Mouse!Values]
    BY <1>1, <1>3 DEF MouseInv, KeysInv
  <2>2. ASSUME NEW k \in Mouse!Keys, NEW v \in Mouse!Values
        PROVE  Pos(k, v).bit \in blocks'[Pos(k, v).block] <=> v \in since'[k]
    <3>1. Pos(k, v).bit \in blocks[Pos(k, v).block] <=> v \in since[k]
      BY DEF MouseInv, KeysInv, Mouse!ChangesKept, Mouse!Test, Pos
    <3>2. CASE value \notin Mouse!Values
      BY <1>1, <3>1, <3>2
    <3>3. CASE value \in Mouse!Values
      <4>1. CASE k = key /\ v = value
        BY <1>1, <1>3, <3>3, <4>1 DEF MouseInv, KeysInv
      <4>2. CASE ~(k = key /\ v = value)
        <5>1. Pos(k, v).block # Pos(key, value).block \/ Pos(k, v).bit # Pos(key, value).bit
          BY <1>4, <1>5, <3>3, <4>2
        <5> QED BY <1>1, <1>3, <3>1, <3>3, <4>2, <5>1 DEF MouseInv, KeysInv
      <4> QED BY <4>1, <4>2
    <3> QED BY <3>2, <3>3
  <2>3. Mouse!ChangesKept'
    BY <2>1, <2>2 DEF Mouse!ChangesKept, Mouse!Test, Pos
  <2> QED BY <1>1, <2>1, <2>3 DEF MouseInv, KeysInv
<1>7. SettledInv'
  BY <1>1 DEF MouseInv, KeysInv, SettledInv, OneChange, ShownKey, TakenKey, Mouse!Test, Mouse!Values
<1> QED BY <1>2, <1>6, <1>7 DEF MouseInv

LEMMA TakeMotionKeeps ==
    ASSUME Mouse!MouseAssumption, MouseInv, Mouse!TakeMotion
    PROVE  MouseInv'
<1>1. /\ taking = -1 /\ taking' = 0 /\ rel' = 0 /\ shown' = shown + Mouse!Signed(rel)
      /\ state' = [state EXCEPT !.rel = Mouse!Signed(rel)]
      /\ UNCHANGED <<blocks, switch_state, down, events, moved, since, mixed>>
  BY DEF Mouse!TakeMotion
<1>2. Mouse!Signed(rel) \in Int
  BY DEF MouseInv, MotionInv, Mouse!Signed, Mouse!MouseAssumption
<1>3. MotionInv'
  <2>1. MaxStep * events \in Nat
    BY DEF MouseInv, MotionInv, Mouse!MouseAssumption
  <2>2. Mouse!Signed(rel)' = 0
    BY <1>1 DEF Mouse!Signed, Mouse!MouseAssumption
  <2>3. 0 \in 0..(2 * RelHalf - 1)
    BY DEF Mouse!MouseAssumption
  <2> QED BY <1>1, <1>2, <2>1, <2>2, <2>3 DEF MouseInv, MotionInv, Mouse!MotionKept
<1>4. 0 \in -1..Mouse!BlockCount /\ Mouse!BlockCount \in Nat \ {0}
  BY BlockCounted
<1>5. KeysInv'
  BY <1>1, <1>2, <1>4 DEF MouseInv, KeysInv, Mouse!ChangesKept, Mouse!Test
<1>6. SettledInv'
  BY <1>1 DEF MouseInv, SettledInv, OneChange, ShownKey, TakenKey, Mouse!Test
<1> QED BY <1>3, <1>5, <1>6 DEF MouseInv

LEMMA TakeBlockKeeps ==
    ASSUME Mouse!MouseAssumption, MouseInv, Mouse!TakeBlock
    PROVE  MouseInv'
<1>1. /\ taking \in Mouse!Blocks /\ taking' = taking + 1
      /\ state' = [state EXCEPT !.bits[taking] = blocks[taking]] /\ blocks' = [blocks EXCEPT ![taking] = {}]
      /\ since' = [k \in Mouse!Keys |-> {v \in since[k] : Pos(k, v).block # taking}]
      /\ UNCHANGED <<rel, switch_state, down, events, moved, shown, mixed>>
  BY DEF Mouse!TakeBlock, Pos
<1>2. MotionInv'
  BY <1>1 DEF MouseInv, MotionInv, Mouse!MotionKept, Mouse!Signed
<1>3. \A k \in Mouse!Keys, v \in Mouse!Values : Pos(k, v).block \in Mouse!Blocks
  BY PosFits
<1>4. KeysInv'
  <2>1. /\ blocks' \in [Mouse!Blocks -> SUBSET Bits] /\ since' \in [Mouse!Keys -> SUBSET Mouse!Values]
        /\ state' \in [rel : Int, bits : [Mouse!Blocks -> SUBSET Bits]]
    BY <1>1 DEF MouseInv, KeysInv
  <2>2. taking' \in -1..Mouse!BlockCount
    <3>1. Mouse!BlockCount \in Nat
      BY BlockCounted
    <3>2. taking \in 0..(Mouse!BlockCount - 1)
      BY <1>1 DEF Mouse!Blocks
    <3> QED BY <1>1, <3>1, <3>2
  <2>3. ASSUME NEW k \in Mouse!Keys, NEW v \in Mouse!Values
        PROVE  Pos(k, v).bit \in blocks'[Pos(k, v).block] <=> v \in since'[k]
    <3>1. Pos(k, v).bit \in blocks[Pos(k, v).block] <=> v \in since[k]
      BY DEF MouseInv, KeysInv, Mouse!ChangesKept, Mouse!Test, Pos
    <3> QED BY <1>1, <1>3, <3>1 DEF MouseInv, KeysInv
  <2>4. Mouse!ChangesKept'
    BY <2>1, <2>3 DEF Mouse!ChangesKept, Mouse!Test, Pos
  <2> QED BY <1>1, <2>1, <2>2, <2>4 DEF MouseInv, KeysInv
<1>5. SettledInv'
  <2> SUFFICES ASSUME Mouse!BlockCount = 1, NEW k \in Mouse!Keys
               PROVE  OneChange(since[k], k)' /\ TakenKey(k)' /\ taking' = 1
    BY DEF SettledInv
  <2>1. Mouse!Blocks = {0} /\ taking = 0 /\ taking' = 1
    BY <1>1 DEF Mouse!Blocks
  <2>2. since'[k] = {}
    BY <1>1, <1>3, <2>1 DEF MouseInv, KeysInv
  <2>3. Mouse!Test(state.bits, k)' = since[k]
    <3>1. state'.bits[0] = blocks[0]
      BY <1>1, <2>1 DEF MouseInv, KeysInv
    <3>2. \A v \in Mouse!Values : Mouse!GetPos(k, v).block = 0
      BY <1>3, <2>1 DEF Pos
    <3>3. Mouse!Test(blocks, k) = since[k]
      BY DEF MouseInv, KeysInv, Mouse!ChangesKept
    <3> QED BY <3>1, <3>2, <3>3 DEF Mouse!Test
  <2>4. OneChange(since[k], k) /\ (since[k] = {} => ShownKey(k))
    BY <2>1 DEF MouseInv, SettledInv
  <2> QED BY <1>1, <2>1, <2>2, <2>3, <2>4 DEF OneChange, ShownKey, TakenKey
<1> QED BY <1>2, <1>4, <1>5 DEF MouseInv

LEMMA UpdateSwitchesKeeps ==
    ASSUME Mouse!MouseAssumption, MouseInv, Mouse!UpdateSwitches
    PROVE  MouseInv'
<1>1. /\ taking = Mouse!BlockCount /\ taking' = -1
      /\ switch_state' = {k \in Mouse!Keys : Mouse!Test(state.bits, k) = {1}}
            \cup {k \in switch_state : Mouse!Test(state.bits, k) = {}}
      /\ mixed' = {k \in Mouse!Keys : Mouse!Test(state.bits, k) = {0, 1}}
            \cup {k \in mixed : Mouse!Test(state.bits, k) = {}}
      /\ UNCHANGED <<rel, blocks, state, down, events, moved, shown, since>>
  BY DEF Mouse!UpdateSwitches
<1>2. MotionInv'
  BY <1>1 DEF MouseInv, MotionInv, Mouse!MotionKept, Mouse!Signed
<1>3. KeysInv'
  BY <1>1 DEF MouseInv, KeysInv, Mouse!ChangesKept, Mouse!Test
<1>4. SettledInv'
  <2> SUFFICES ASSUME Mouse!BlockCount = 1, NEW k \in Mouse!Keys
               PROVE  OneChange(since[k], k)' /\ (since'[k] = {} => ShownKey(k)')
    BY <1>1 DEF SettledInv
  <2> DEFINE F == Mouse!Test(state.bits, k)
  <2>1. OneChange(since[k], k) /\ TakenKey(k)
    BY <1>1 DEF MouseInv, SettledInv
  <2>2. F \subseteq {0, 1}
    BY DEF Mouse!Test, Mouse!Values
  <2>3. F = {} \/ F = {0} \/ F = {1} \/ F = {0, 1}
    BY <2>2
  <2>4. /\ k \in switch_state' <=> F = {1} \/ (k \in switch_state /\ F = {})
        /\ k \in mixed' <=> F = {0, 1} \/ (k \in mixed /\ F = {})
    BY <1>1 DEF MouseInv, KeysInv
  <2>5. since[k] = {} => IF F = {} THEN ShownKey(k) ELSE OneChange(F, k)
    BY <2>1 DEF TakenKey
  <2> HIDE DEF F
  <2>6. F = {1} => F # {0, 1} /\ F # {0} /\ F # {}
    OBVIOUS
  <2>7. F = {0} => F # {0, 1} /\ F # {}
    OBVIOUS
  <2> QED BY <1>1, <2>1, <2>3, <2>4, <2>5, <2>6, <2>7 DEF OneChange, ShownKey
<1> QED BY <1>2, <1>3, <1>4 DEF MouseInv

LEMMA MouseKeeps ==
    ASSUME Mouse!MouseAssumption, MouseInv, Mouse!Next
    PROVE  MouseInv'
BY HandleMotionKeeps, HandleKeyKeeps, TakeMotionKeeps, TakeBlockKeeps, UpdateSwitchesKeeps DEF Mouse!Next

LEMMA MouseSafe ==
    ASSUME Mouse!MouseAssumption, MouseInv
    PROVE  Mouse!TypeOK /\ Mouse!MotionKept /\ Mouse!ChangesKept /\ Mouse!Settled
<1>1. Mouse!TypeOK
  BY DEF MouseInv, MotionInv, KeysInv, Mouse!TypeOK, Bits
<1>2. Mouse!Settled
  BY DEF MouseInv, SettledInv, ShownKey, Mouse!Settled
<1> QED BY <1>1, <1>2 DEF MouseInv, MotionInv, KeysInv
-----------------------------------------------------------------------------
(* The union of the parts.                                                 *)

InputInv ==
    /\ part = "manager" => ManagerInv
    /\ part = "mouse" => MouseInv

LEMMA Bounds == Manager!InputAssumption /\ Mouse!MouseAssumption
BY MCInputAssumption

\* Every part keeps its invariant from its first state on, for any mice, slots,
\* keys and blocks, and any steps of the thread, the device and the program.
THEOREM InputCorrect == Spec => []InputInv
<1>1. Init => InputInv
  BY Bounds, ManagerStarts, MouseStarts DEF Init, InputInv
<1>2. InputInv /\ [Next]_vars => InputInv'
  <2> SUFFICES ASSUME InputInv, [Next]_vars
               PROVE  InputInv'
    OBVIOUS
  <2>1. CASE ManagerStep
    BY <2>1, Bounds, ManagerKeeps DEF ManagerStep, InputInv
  <2>2. CASE MouseStep
    BY <2>2, Bounds, MouseKeeps DEF MouseStep, InputInv
  <2>3. CASE StreamStep \/ LogStep \/ AnyStep \/ RaceStep \/ FileStep \/ ScreenStep \/ PlainStep
    BY <2>3 DEF StreamStep, LogStep, AnyStep, RaceStep, FileStep, ScreenStep, PlainStep, InputInv
  <2>4. CASE UNCHANGED vars
    <3>1. ManagerInv => ManagerInv'
      BY <2>4 DEF vars, ManagerInv, Manager!TypeOK, SlotsInv, EventsInv, ThreadInv, StopInv,
         StopPending, Manager!EdgeKept
    <3>2. MotionInv => MotionInv'
      BY <2>4 DEF vars, MotionInv, Mouse!MotionKept
    <3>3. KeysInv => KeysInv'
      BY <2>4 DEF vars, KeysInv, Mouse!ChangesKept
    <3>4. SettledInv => SettledInv'
      BY <2>4 DEF vars, SettledInv, OneChange, TakenKey, ShownKey
    <3> QED BY <2>4, <3>1, <3>2, <3>3, <3>4 DEF vars, InputInv, MouseInv
  <2> QED BY <2>1, <2>2, <2>3, <2>4 DEF Next, Rests
<1> QED BY <1>1, <1>2, PTL DEF Spec

\* The attached mice are the ones the epoller has, no edge is lost between a
\* handler and the next wait, and the byte that stops the thread is read before
\* the next start, wherever attach, detach, start and stop fall.
THEOREM MiceStayRegistered == Spec => []MiceRegistered
<1>1. InputInv => MiceRegistered
  BY Bounds, ManagerSafe DEF InputInv, MiceRegistered
<1> QED BY <1>1, InputCorrect, PTL

\* No motion and no change of a key is lost between the handler of the events
\* and the program that takes them, and the shown keys are those of the device
\* once all is taken, for any number of keys and events and any width.
THEOREM MouseSettles == Spec => []Settled
<1>1. InputInv => Settled
  BY Bounds, MouseSafe DEF InputInv, Settled
<1> QED BY <1>1, InputCorrect, PTL
=============================================================================
