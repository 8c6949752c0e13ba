------------------------------- MODULE MCAsync -------------------------------
(*****************************************************************************)
(* The parts of the asynchronous library beside the runner, for TLC. A       *)
(* behaviour is of one of them, and the specification is the union of        *)
(* theirs.                                                                   *)
(*****************************************************************************)
EXTENDS Concurrent

CONSTANT Unused   \* the value of the variables of the parts that do not run

CONSTANTS
    Disciplined, MaxWds, MaxEvents, Undisciplined, SharedWds, SharedEvents, \* the dispatcher
    RingSize, Pollers, MaxPush,                     \* the events of a watch
    Entries, Chunk,                                 \* the generator
    Ctx, Root, Parent, Nested, Source, MaxSignals   \* the tree of contexts

ParentInTree == [a |-> "b", b |-> "r", c |-> "b", d |-> "a", e |-> "d"]
SourceInTree == [r |-> "r", a |-> "a", b |-> "r", c |-> "r", d |-> "a", e |-> "a"]

VARIABLES
    part,   \* the part that runs in this behaviour
    kernel, queue, events, open, made, alive, read, buf, canceled, consumers, buff, waiters,
    count, st, on, since, stack, bad, data, start, insert, size, push_count, last, cons, gen,
    waiter, value, failed, next, seen, result, phase, busy, op, sig, kill, info, kev, pipes,
    blocked, task, sent

asyncVars == <<part, kernel, queue, events, open, made, alive, read, buf, canceled, consumers, buff,
          waiters, count, st, on, since, stack, bad, data, start, insert, size, push_count,
          last, finished, pushed, item, bg, ready, awaiting, remaining, sel, got, taken, cons,
          gen, waiter, value, failed, next, seen, result, phase, busy, op, sig, kill, info, kev,
          pipes, blocked, task, sent>>

\* Tasks that keep to the discipline, and the dispatcher stopped at any time.
InotifyStop == INSTANCE InotifyCtx WITH
    Tasks <- Disciplined, MaxWds <- MaxWds, MaxEvents <- MaxEvents, Careful <- TRUE

\* Tasks that use watches in any way, whose files may be deleted.
Unrestricted == INSTANCE InotifyCtx WITH
    Tasks <- Undisciplined, MaxWds <- SharedWds, MaxEvents <- SharedEvents, Careful <- FALSE

\* The ring of a watch and its pollers.
Watch == INSTANCE WdEvents WITH
    RingSize <- RingSize, Pollers <- Pollers, MaxPush <- MaxPush

\* The entries of a directory, by chunks.
Gen == INSTANCE AsyncGenerator WITH
    Entries <- Entries, Chunk <- Chunk

\* A tree of contexts, in threads and nested ones.
Tree == INSTANCE ChildContexts WITH
    Ctx <- Ctx, Root <- Root, Parent <- Parent, Nested <- Nested, Source <- Source, Careful <- TRUE,
    MaxSignals <- MaxSignals

ASSUME MCAsyncAssumption ==
    /\ InotifyStop!InotifyAssumption /\ Unrestricted!InotifyAssumption /\ Watch!WdAssumption
    /\ ConcurrentAssumption /\ Gen!GeneratorAssumption /\ Tree!ChildAssumption

-----------------------------------------------------------------------------

NotInotifyCtx == <<data, start, insert, size, push_count, last, finished, pushed, item, bg,
                   ready, awaiting, remaining, sel, got, taken, cons, gen, waiter, value,
                   failed, next, seen, result, phase, busy, op, sig, kill, info, kev, pipes,
                   blocked, task, sent>>
NoInotifyCtx ==
    /\ kernel = Unused /\ queue = Unused /\ events = Unused /\ open = Unused /\ made = Unused
    /\ alive = Unused /\ read = Unused /\ buf = Unused /\ canceled = Unused /\ consumers = Unused
    /\ buff = Unused /\ waiters = Unused /\ count = Unused /\ st = Unused /\ on = Unused
    /\ since = Unused /\ stack = Unused /\ bad = Unused
NotWdEvents == <<kernel, queue, events, open, made, alive, read, buf, canceled, consumers, buff,
                 waiters, count, st, on, since, stack, bad, finished, pushed, item, bg, ready,
                 awaiting, remaining, sel, got, taken, cons, gen, waiter, value, failed, next,
                 seen, result, phase, busy, op, sig, kill, info, kev, pipes, blocked, task, sent>>
NoWdEvents ==
    /\ data = Unused /\ start = Unused /\ insert = Unused /\ size = Unused /\ push_count = Unused
    /\ last = Unused
NotConcurrent == <<kernel, queue, events, open, made, alive, read, buf, canceled, consumers,
                   buff, waiters, count, st, on, since, stack, bad, data, start, insert, size,
                   push_count, last, cons, gen, waiter, value, failed, next, seen, result,
                   phase, busy, op, sig, kill, info, kev, pipes, blocked, task, sent>>
NotAsyncGenerator == <<kernel, queue, events, open, made, alive, read, canceled, consumers,
                       buff, waiters, count, st, on, since, bad, data, start, insert, size,
                       push_count, last, finished, pushed, item, bg, ready, awaiting, remaining,
                       sel, got, taken, phase, busy, op, sig, kill, info, kev, pipes, blocked,
                       task, sent>>
NoAsyncGenerator ==
    /\ stack = Unused /\ cons = Unused /\ gen = Unused /\ waiter = Unused /\ value = Unused
    /\ failed = Unused /\ next = Unused /\ buf = Unused /\ seen = Unused /\ result = Unused
NotChildContexts == <<kernel, queue, events, made, read, buf, canceled, consumers, buff,
                      waiters, count, st, on, since, stack, bad, data, start, insert, size,
                      push_count, last, finished, pushed, item, bg, ready, awaiting, remaining,
                      sel, got, taken, cons, gen, waiter, value, failed, next, seen, result>>
NoChildContexts ==
    /\ phase = Unused /\ busy = Unused /\ op = Unused /\ sig = Unused /\ kill = Unused
    /\ info = Unused /\ kev = Unused /\ pipes = Unused /\ blocked = Unused /\ task = Unused
    /\ open = Unused /\ sent = Unused /\ alive = Unused

AsyncInit ==
    \/ /\ part = "inotify stop" /\ InotifyStop!Init /\ NoWdEvents /\ Init /\ cons = Unused
       /\ gen = Unused /\ waiter = Unused /\ value = Unused /\ failed = Unused /\ next = Unused
       /\ seen = Unused /\ result = Unused /\ phase = Unused /\ busy = Unused /\ op = Unused
       /\ sig = Unused /\ kill = Unused /\ info = Unused /\ kev = Unused /\ pipes = Unused
       /\ blocked = Unused /\ task = Unused /\ sent = Unused
    \/ /\ part = "unrestricted" /\ Unrestricted!Init /\ NoWdEvents /\ Init /\ cons = Unused
       /\ gen = Unused /\ waiter = Unused /\ value = Unused /\ failed = Unused /\ next = Unused
       /\ seen = Unused /\ result = Unused /\ phase = Unused /\ busy = Unused /\ op = Unused
       /\ sig = Unused /\ kill = Unused /\ info = Unused /\ kev = Unused /\ pipes = Unused
       /\ blocked = Unused /\ task = Unused /\ sent = Unused
    \/ /\ part = "watch" /\ Watch!Init /\ NoInotifyCtx /\ Init /\ cons = Unused /\ gen = Unused
       /\ waiter = Unused /\ value = Unused /\ failed = Unused /\ next = Unused /\ seen = Unused
       /\ result = Unused /\ phase = Unused /\ busy = Unused /\ op = Unused /\ sig = Unused
       /\ kill = Unused /\ info = Unused /\ kev = Unused /\ pipes = Unused /\ blocked = Unused
       /\ task = Unused /\ sent = Unused
    \/ /\ part = "concurrent" /\ Init /\ NoInotifyCtx /\ NoWdEvents /\ cons = Unused
       /\ gen = Unused /\ waiter = Unused /\ value = Unused /\ failed = Unused /\ next = Unused
       /\ seen = Unused /\ result = Unused /\ phase = Unused /\ busy = Unused /\ op = Unused
       /\ sig = Unused /\ kill = Unused /\ info = Unused /\ kev = Unused /\ pipes = Unused
       /\ blocked = Unused /\ task = Unused /\ sent = Unused
    \/ /\ part = "generator" /\ Gen!Init /\ NoWdEvents /\ Init /\ NoChildContexts
       /\ kernel = Unused /\ queue = Unused /\ events = Unused /\ made = Unused /\ read = Unused
       /\ canceled = Unused /\ consumers = Unused /\ buff = Unused /\ waiters = Unused
       /\ count = Unused /\ st = Unused /\ on = Unused /\ since = Unused /\ bad = Unused
    \/ /\ part = "tree" /\ Tree!Init /\ NoWdEvents /\ Init /\ NoAsyncGenerator /\ kernel = Unused
       /\ queue = Unused /\ events = Unused /\ made = Unused /\ read = Unused /\ canceled = Unused
       /\ consumers = Unused /\ buff = Unused /\ waiters = Unused /\ count = Unused /\ st = Unused
       /\ on = Unused /\ since = Unused /\ bad = Unused

InotifyStopStep == part = "inotify stop" /\ InotifyStop!Next /\ UNCHANGED <<part, NotInotifyCtx>>
UnrestrictedStep == part = "unrestricted" /\ Unrestricted!Next /\ UNCHANGED <<part, NotInotifyCtx>>
WatchStep == part = "watch" /\ Watch!Next /\ UNCHANGED <<part, NotWdEvents>>
ConcurrentStep == part = "concurrent" /\ Next /\ UNCHANGED <<part, NotConcurrent>>
GenStep == part = "generator" /\ Gen!Next /\ UNCHANGED <<part, NotAsyncGenerator>>
TreeStep == part = "tree" /\ Tree!Next /\ UNCHANGED <<part, NotChildContexts>>

\* These may stop; the others never do.
Rests == part \in {"generator", "tree"} /\ UNCHANGED asyncVars

AsyncNext == \/ InotifyStopStep \/ UnrestrictedStep \/ WatchStep \/ ConcurrentStep \/ GenStep
             \/ TreeStep \/ Rests

AsyncSpec ==
    /\ AsyncInit /\ [][AsyncNext]_asyncVars
    /\ SF_asyncVars(part = "inotify stop" /\ InotifyStop!Dispatch /\ UNCHANGED <<part, NotInotifyCtx>>)
    /\ \A t \in Disciplined : SF_asyncVars(part = "inotify stop" /\ InotifyStop!Leave(t) /\ UNCHANGED <<part, NotInotifyCtx>>)
    /\ WF_asyncVars(part = "concurrent" /\ Resume /\ UNCHANGED <<part, NotConcurrent>>)
    /\ WF_asyncVars(part = "concurrent" /\ Return /\ UNCHANGED <<part, NotConcurrent>>)
    /\ WF_asyncVars(part = "concurrent" /\ Select /\ UNCHANGED <<part, NotConcurrent>>)
    /\ WF_asyncVars(part = "generator" /\ Gen!Next /\ UNCHANGED <<part, NotAsyncGenerator>>)
    /\ SF_asyncVars(part = "generator" /\ Gen!AwaitNext /\ UNCHANGED <<part, NotAsyncGenerator>>)
    /\ \A x \in Ctx : WF_asyncVars(part = "tree" /\ Tree!Loop(x) /\ UNCHANGED <<part, NotChildContexts>>)

-----------------------------------------------------------------------------
\* Ring of a watch, generator and concurrent: a poll gives the newest events
\* its poller has not seen, the consumer of a generator gets the entries in
\* order, each once, and the transfers between the two coroutines do not pile
\* up on the stack; a slot is in the ready queue at most once and only with a
\* finished task, and the count that ends select is that of the tasks not yet
\* taken.
InOrder ==
    /\ part = "watch" => Watch!TypeOK /\ Watch!PollsNewest
    /\ part = "inotify stop" => InotifyStop!TypeOK
    /\ part = "generator" => Gen!TypeOK /\ Gen!InOrder /\ Gen!StackBounded
    /\ part = "concurrent" => TypeOK /\ ReadyOnce /\ RemainingCounts

\* inotify dispatcher: whatever the tasks do, none of them is resumed twice for
\* one wait.
NeverTwice ==
    part = "unrestricted" => Unrestricted!TypeOK /\ Unrestricted!ResumedOnce

\* Child contexts: a context tells its children to stop before it blocks until
\* they have ended, and a kill event is written only while its descriptor is
\* open.
TellsBeforeWaiting ==
    part = "tree" => Tree!TypeOK /\ Tree!TellsBeforeWaiting /\ Tree!EventOpen

\* Whoever waits is answered: after stop() every waiter of the inotify
\* dispatcher is woken and the dispatcher ends, the result of every task pushed
\* to a concurrent is taken, and the consumer of a generator that goes on
\* reaches the end of the directory, or the error.
EveryWaitEnds ==
    /\ (part = "inotify stop" /\ canceled)
       ~> (part = "inotify stop" => InotifyStop!AllWoken)
    /\ \A x \in Items :
          (part = "concurrent" /\ x \in pushed /\ x \in finished)
          ~> (part = "concurrent" => Taken(x))
    /\ part = "generator" => Gen!Ends

\* Child contexts: a signal to the main context ends it and so all of its
\* children.
SignalStopsAll ==
    (part = "tree" /\ sent > 0) ~> (part = "tree" => phase[Root] = "returned")
=============================================================================
