------------------------------- MODULE EventStream -------------------------------
(***************************************************************************)
(* The mouse streamer and its client: a poller reads the events of a mouse *)
(* and of a keyboard in batches, each batch is one datagram, and the       *)
(* client plays what arrives on an X display.                              *)
(***************************************************************************)
EXTENDS Integers, Sequences, SequencesExt

CONSTANTS
    Keys, Buttons,          \* of the keyboard and of the mouse
    KeyBatch, MouseBatch,   \* the events of one read
    MaxEvents, MaxFaults,   \* bounds: the events and the faults of a behaviour
    Quick                   \* no button changes twice within one read

StreamAssumption ==
    /\ Keys \cap Buttons = {} /\ {KeyBatch, MouseBatch} \subseteq Nat \ {0}
    /\ {MaxEvents, MaxFaults} \subseteq Nat /\ Quick \in BOOLEAN

VARIABLES
    held,       \* external: what is held down
    queues,     \* the events of a device that are not read
    ready,      \* the devices of which the poll reported input
    pc,         \* where the poller is
    channel,    \* the datagrams under way
    shown,      \* what the display takes for held down
    events, faults, \* so far
    changed,    \* history: what was pressed or released since the last fault
    owed        \* history: the presses that were made and not shown

vars == <<held, queues, ready, pc, channel, shown, events, faults, changed, owed>>

Codes == Keys \cup Buttons
DeviceOf(code) == IF code \in Keys THEN "keyboard" ELSE "mouse"
Devices == {"keyboard", "mouse"}
Event == [code : Codes, value : 0..2]

TypeOK ==
    /\ {held, shown, changed} \subseteq SUBSET Codes /\ ready \subseteq Devices
    /\ queues \in [Devices -> Seq(Event)] /\ pc \in {"poll", "mouse", "again", "keyboard"}
    /\ channel \in Seq(Seq(Event)) /\ <<>> \notin ToSet(channel)

Init ==
    /\ held = {} /\ queues = [d \in Devices |-> <<>>] /\ ready = {} /\ pc = "poll"
    /\ channel = <<>> /\ shown = {} /\ events = 0 /\ faults = 0
    /\ changed = Codes /\ owed = [c \in Codes |-> 0]

-----------------------------------------------------------------------------
\* A press, a release or, of a key that is held, a repetition.
Change == \E e \in Event :
    /\ events < MaxEvents /\ events' = events + 1
    /\ IF e.value = 1 THEN e.code \notin held ELSE e.code \in held
    /\ e.value = 2 => e.code \in Keys
    /\ Quick /\ e.code \in Buttons => \A x \in ToSet(queues["mouse"]) : x.code # e.code
    /\ held' = IF e.value = 0 THEN held \ {e.code} ELSE held \cup {e.code}
    /\ queues' = [queues EXCEPT ![DeviceOf(e.code)] = Append(@, e)]
    /\ changed' = IF e.value = 2 THEN changed ELSE changed \cup {e.code}
    /\ owed' = IF e.value = 1 THEN [owed EXCEPT ![e.code] = @ + 1] ELSE owed
    /\ UNCHANGED <<ready, pc, channel, shown, faults>>

Sent(batch) == channel' = IF batch = <<>> THEN channel ELSE Append(channel, batch)

Taken(d, n) == SubSeq(queues[d], 1, IF Len(queues[d]) < n THEN Len(queues[d]) ELSE n)
Read(d, n) == queues' = [queues EXCEPT ![d] = SubSeq(@, n + 1, Len(@))]

\* Mutant: the repetitions pass as well.
KeyFilterNot(batch) == batch
\* Only press and release pass.
KeyFilter(batch) == SelectSeq(batch, LAMBDA e : e.value < 2)

\* Mutant: the poller waits for input from every device.
PollAll ==
    /\ pc = "poll" /\ pc' = "mouse"
    /\ ready' = {d \in Devices : queues[d] # <<>>} /\ ready' = Devices
    /\ UNCHANGED <<held, queues, channel, shown, events, faults, changed, owed>>
Poll ==
    /\ pc = "poll" /\ pc' = "mouse"
    /\ ready' = {d \in Devices : queues[d] # <<>>} /\ ready' # {}
    /\ UNCHANGED <<held, queues, channel, shown, events, faults, changed, owed>>

HandleMouse ==
    /\ pc = "mouse"
    /\ IF "mouse" \in ready
         THEN Read("mouse", MouseBatch) /\ Sent(Taken("mouse", MouseBatch)) /\ pc' = "again"
         ELSE pc' = "keyboard" /\ UNCHANGED <<queues, channel>>
    /\ UNCHANGED <<held, ready, shown, events, faults, changed, owed>>

\* The handler reads once more, and sends what it reads as it is.
\* Mutant: the second batch is left in the buffer.
HandleMouseAgainUnsent ==
    /\ pc = "again" /\ pc' = "keyboard"
    /\ Read("mouse", MouseBatch)
    /\ UNCHANGED <<held, ready, channel, shown, events, faults, changed, owed>>
HandleMouseAgain ==
    /\ pc = "again" /\ pc' = "keyboard"
    /\ Read("mouse", MouseBatch) /\ Sent(Taken("mouse", MouseBatch))
    /\ UNCHANGED <<held, ready, shown, events, faults, changed, owed>>

HandleKeyboard ==
    /\ pc = "keyboard" /\ pc' = "poll"
    /\ IF "keyboard" \in ready
         THEN Read("keyboard", KeyBatch) /\ Sent(KeyFilter(Taken("keyboard", KeyBatch)))
         ELSE UNCHANGED <<queues, channel>>
    /\ UNCHANGED <<held, ready, shown, events, faults, changed, owed>>

-----------------------------------------------------------------------------
Values(batch, code) == {e.value : e \in {x \in ToSet(batch) : x.code = code}}
LastValue(batch, code) ==
    batch[CHOOSE n \in DOMAIN batch :
            batch[n].code = code /\ \A m \in (n + 1)..Len(batch) : batch[m].code # code].value
Presses(batch, code) == Len(SelectSeq(batch, LAMBDA e : e.code = code /\ e.value # 0))

\* immediate(): a key event is played as it comes.  The buttons are played
\* after the batch, and one that changed both ways is not played at all.
Pressed(batch) ==
    {k \in Keys : Values(batch, k) # {} /\ LastValue(batch, k) # 0}
        \cup {b \in Buttons : Values(batch, b) = {1}}
Released(batch) ==
    {k \in Keys : Values(batch, k) # {} /\ LastValue(batch, k) = 0}
        \cup {b \in Buttons : Values(batch, b) = {0}}
Immediate(batch) ==
    /\ shown' = (shown \ Released(batch)) \cup Pressed(batch)
    /\ owed' = [c \in Codes |->
                   owed[c] - IF c \in Keys THEN Presses(batch, c)
                             ELSE IF c \in Pressed(batch) THEN 1 ELSE 0]

\* The client's loop takes the oldest datagram.
Receive ==
    /\ channel # <<>> /\ Immediate(Head(channel)) /\ channel' = Tail(channel)
    /\ UNCHANGED <<held, queues, ready, pc, events, faults, changed>>

\* The network, or a send that fails, which is not looked at.
Fault == faults < MaxFaults /\ faults' = faults + 1 /\ changed' = {}
Lose == \E n \in DOMAIN channel :
    /\ Fault /\ channel' = RemoveAt(channel, n)
    /\ UNCHANGED <<held, queues, ready, pc, shown, events, owed>>
Repeat == \E n \in DOMAIN channel :
    /\ Fault /\ channel' = Append(channel, channel[n])
    /\ UNCHANGED <<held, queues, ready, pc, shown, events, owed>>
Reorder == \E n \in 2..Len(channel) :
    /\ Fault /\ channel' = <<channel[n]>> \o RemoveAt(channel, n)
    /\ UNCHANGED <<held, queues, ready, pc, shown, events, owed>>

Poller == Poll \/ HandleMouse \/ HandleMouseAgain \/ HandleKeyboard
Next == Change \/ Poller \/ Receive \/ Lose \/ Repeat \/ Reorder

Spec == Init /\ [][Next]_vars /\ WF_vars(Poller) /\ WF_vars(Receive)

-----------------------------------------------------------------------------
Played == channel = <<>> /\ \A d \in Devices : queues[d] = <<>>
Idle == Played /\ pc = "poll"

\* What was pressed or released since the last fault of the network is, when
\* everything was played, held on the display just when it is held on the device.
Heals == Played => \A c \in changed : c \in shown <=> c \in held

\* Without a fault every press is played once and nothing else is.
PressesPlayed == Played /\ faults = 0 => \A c \in Codes : owed[c] = 0

=============================================================================
