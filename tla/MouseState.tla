-------------------------------- MODULE MouseState --------------------------------
(***************************************************************************)
(* inp::mouse: the thread of the epoller accumulates motion and button     *)
(* changes in atomic blocks, and the thread that draws takes them with     *)
(* introduce(), one block at a time, and derives which buttons are down.   *)
(***************************************************************************)
EXTENDS Integers, FiniteSets

CONSTANTS
    KeyCount,   \* the buttons from left to extra
    BlockBits,  \* the bits of a block of buttons
    RelHalf,    \* half the range of the accumulated motion
    MaxStep,    \* bound: the motion of one event
    MaxEvents   \* bound: the events of a behaviour

MouseAssumption ==
    /\ {KeyCount, BlockBits, RelHalf} \subseteq Nat \ {0}
    /\ {MaxStep, MaxEvents} \subseteq Nat /\ MaxStep * MaxEvents < RelHalf

Keys == 0..(KeyCount - 1)
Values == {0, 1}        \* released and pressed
BlockCount == (2 * KeyCount - 1) \div BlockBits + 1
Blocks == 0..(BlockCount - 1)

VARIABLES
    rel, blocks,        \* rt_state: the motion, and the bits set in each block
    state,              \* what the last introduce took: the motion and key changes
    switch_state,       \* the keys that are down, as introduced
    taking,             \* the next block introduce() takes, -1 outside of it
    down,               \* external: the keys that are down
    events,             \* the events so far
    moved, shown,       \* history: the motion reported, and introduced
    since, mixed        \* history: the changes of a key since its block was taken,
                        \* the keys whose last introduced changes were both

vars == <<rel, blocks, state, switch_state, taking, down, events, moved, shown, since, mixed>>

Init ==
    /\ rel = 0 /\ blocks = [b \in Blocks |-> {}]
    /\ state = [rel |-> 0, bits |-> [b \in Blocks |-> {}]] /\ switch_state = {}
    /\ taking = -1 /\ down = {} /\ events = 0 /\ moved = 0 /\ shown = 0
    /\ since = [k \in Keys |-> {}] /\ mixed = {}

Unsigned(n) == n % (2 * RelHalf)
\* Mutation: the motion is taken as the unsigned number it is stored as.
SignedNot(n) == n

Signed(n) == IF n >= RelHalf THEN n - 2 * RelHalf ELSE n

\* Mutation: the bit is the rest and the block the quotient of the other size.
GetPosSwapped(key, value) ==
    LET k == key * 2 + value IN [block |-> k % BlockCount, bit |-> k % BlockBits \div 2]

GetPos(key, value) ==
    LET k == key * 2 + value IN [block |-> k % BlockCount, bit |-> k \div BlockCount]

\* The changes of a key within bits.
Test(bits, key) ==
    {v \in Values : GetPos(key, v).bit \in bits[GetPos(key, v).block]}

HandleMotion(value) ==
    /\ events < MaxEvents /\ events' = events + 1
    /\ rel' = Unsigned(rel + value) /\ moved' = moved + value
    /\ UNCHANGED <<blocks, state, switch_state, taking, down, shown, since, mixed>>

\* A key event of the device: 0 and 1 change the key, 2 repeats it and is not
\* a valid value.
HandleKey(key, value) ==
    /\ events < MaxEvents /\ events' = events + 1
    /\ IF value = 1 THEN key \notin down ELSE key \in down
    /\ down' = CASE value = 0 -> down \ {key} [] value = 1 -> down \cup {key} [] OTHER -> down
    /\ IF value \in Values
       THEN /\ blocks' = [blocks EXCEPT ![GetPos(key, value).block] =
                             @ \cup {GetPos(key, value).bit}]
            /\ since' = [since EXCEPT ![key] = @ \cup {value}]
       ELSE UNCHANGED <<blocks, since>>
    /\ UNCHANGED <<rel, state, switch_state, taking, moved, shown, mixed>>

TakeMotion ==
    /\ taking = -1 /\ taking' = 0
    /\ state' = [state EXCEPT !.rel = Signed(rel)]
    /\ shown' = shown + Signed(rel) /\ rel' = 0
    /\ UNCHANGED <<blocks, switch_state, down, events, moved, since, mixed>>

TakeBlock ==
    /\ taking \in Blocks
    /\ state' = [state EXCEPT !.bits[taking] = blocks[taking]]
    /\ blocks' = [blocks EXCEPT ![taking] = {}]
    /\ taking' = taking + 1
    /\ since' = [k \in Keys |->
                    {v \in since[k] : GetPos(k, v).block # taking}]
    /\ UNCHANGED <<rel, switch_state, down, events, moved, shown, mixed>>

\* Mutation: a key with both changes keeps its state.
UpdateSwitchesKept ==
    /\ taking = BlockCount /\ taking' = -1
    /\ switch_state' =
        {k \in Keys : Test(state.bits, k) = {1}}
            \cup {k \in switch_state : Test(state.bits, k) \in {{}, {0, 1}}}
    /\ mixed' = {k \in Keys : Test(state.bits, k) = {0, 1}}
            \cup {k \in mixed : Test(state.bits, k) = {}}
    /\ UNCHANGED <<rel, blocks, state, down, events, moved, shown, since>>

\* key_switch_state::update: a key with both changes counts as released.
UpdateSwitches ==
    /\ taking = BlockCount /\ taking' = -1
    /\ switch_state' =
        {k \in Keys : Test(state.bits, k) = {1}}
            \cup {k \in switch_state : Test(state.bits, k) = {}}
    /\ mixed' = {k \in Keys : Test(state.bits, k) = {0, 1}}
            \cup {k \in mixed : Test(state.bits, k) = {}}
    /\ UNCHANGED <<rel, blocks, state, down, events, moved, shown, since>>

Next == \/ \E value \in -MaxStep..MaxStep : HandleMotion(value)
        \/ \E key \in Keys, value \in 0..2 : HandleKey(key, value)
        \/ TakeMotion \/ TakeBlock \/ UpdateSwitches

Spec == Init /\ [][Next]_vars

-----------------------------------------------------------------------------
TypeOK ==
    /\ rel \in 0..(2 * RelHalf - 1) /\ blocks \in [Blocks -> SUBSET (0..(BlockBits - 1))]
    /\ taking \in -1..BlockCount /\ switch_state \subseteq Keys

\* Every motion is introduced once: what was introduced and what is still in
\* the block add up to what the device reported, negative motions included.
MotionKept == shown + Signed(rel) = moved

\* A change of a key is in the blocks until its block is taken, and no key's
\* change looks like another's.
ChangesKept == \A k \in Keys : Test(blocks, k) = since[k]

\* When every change of a key was introduced, the key is down as it is on the
\* device, unless one introduce saw it change both ways: then it is up.  The
\* changes of a mouse fit one block; with more a press could be introduced
\* before the release that came first.
Settled ==
    taking = -1 /\ BlockCount = 1 => \A k \in Keys : since[k] = {} =>
        IF k \in mixed THEN k \notin switch_state ELSE k \in switch_state <=> k \in down
=============================================================================
