------------------------------ MODULE WdEvents ------------------------------
(***************************************************************************)
(* wd_event_buffer, the events of one inotify watch, and the event_pollers *)
(* that read them: each poller remembers how many events there were when   *)
(* it looked last, and sees what the ring still holds of the later ones.   *)
(* The k-th event that is pushed is the number k.                          *)
(***************************************************************************)
EXTENDS Integers, Sequences

CONSTANTS
    RingSize,   \* the capacity of the ring
    Pollers,
    MaxPush     \* bound on the events

WdAssumption == RingSize \in Nat \ {0} /\ MaxPush \in Nat

VARIABLES
    data, start, insert, size,  \* wd_event_buffer::events
    push_count,                 \* wd_event_buffer::push_count
    last                        \* [Pollers -> _last_push_count]

ring == <<data, start, insert, size>>
vars == <<ring, push_count, last>>

R == INSTANCE RingBuffer WITH
        Vals <- 1..MaxPush, Default <- 0, Caps <- {RingSize}

Init ==
    /\ R!Init
    /\ push_count = 0
    /\ last \in [Pollers -> {0}]

Push ==
    /\ push_count < MaxPush
    /\ push_count' = push_count + 1
    /\ R!Push(push_count')
    /\ UNCHANGED last

\* Mutation: the view starts "count" after the oldest event.
ViewFromOldest(count) ==
    LET new   == push_count - count
        first == IF new < size THEN R!Begin + new ELSE R!Begin
    IN  [k \in 1..(R!End - first) |-> R!At(first + k - 1)]

\* view_from: the range of the events after the first "count" ones.
ViewFrom(count) ==
    LET new   == push_count - count
        first == IF new < size THEN R!Begin + (size - new) ELSE R!Begin
    IN  [k \in 1..(R!End - first) |-> R!At(first + k - 1)]

\* A poller is made from the watch, and sees only what comes later.
NewPoller(p) ==
    /\ last' = [last EXCEPT ![p] = push_count]
    /\ UNCHANGED <<ring, push_count>>

\* poll and poll_view: the view is handed out and the count is remembered.
Poll(p) ==
    /\ last' = [last EXCEPT ![p] = push_count]
    /\ UNCHANGED <<ring, push_count>>

Next == Push \/ \E p \in Pollers : NewPoller(p) \/ Poll(p)

Spec == Init /\ [][Next]_vars

-----------------------------------------------------------------------------
TypeOK ==
    /\ R!TypeOK
    /\ push_count \in 0..MaxPush
    /\ last \in [Pollers -> 0..push_count]

\* A poll returns every event since the one before, in order and each once;
\* when more came than the ring holds, exactly the newest of them.
PollsNewest ==
    \A p \in Pollers :
       LET new == push_count - last[p]
           n   == IF new < RingSize THEN new ELSE RingSize
       IN  ViewFrom(last[p]) = [k \in 1..n |-> push_count - n + k]
=============================================================================
