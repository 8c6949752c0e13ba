----------------------------- MODULE ChildContexts -----------------------------
(***************************************************************************)
(* A tree of contexts: async_run_io_ctx() runs a context on a thread of    *)
(* its own and polls an event descriptor for its end, run_io_ctx() called  *)
(* in a coroutine runs one inside the loop of the caller.  A signal is     *)
(* read by one loop and passed on by pipes (down) and kill events (up).    *)
(* What goes on inside one loop is the subject of Runner.                  *)
(***************************************************************************)
EXTENDS Integers, FiniteSets

CONSTANTS
    Ctx, Root,      \* the contexts, and the one of the main thread
    Parent,         \* Parent[c]: the context that starts c
    Nested,         \* the contexts started by run_io_ctx() in their parent
    Source,         \* Source[x]: the context whose *current_signalfd x reads
    Careful,        \* canceled tasks start no context, run_io_ctx() comes first
    MaxSignals      \* bound: SIGINT or SIGTERM sent to the process

Kids == Ctx \ {Root}
ChildAssumption ==
    /\ Root \in Ctx /\ Parent \in [Kids -> Ctx] /\ Nested \subseteq Kids
    /\ Source \in [Ctx -> Ctx]
    \* it belongs to the thread: nested contexts share it
    /\ \A x \in Ctx : Source[x] = IF x \in Nested THEN Source[Parent[x]] ELSE x
    /\ Careful \in BOOLEAN /\ MaxSignals \in Nat /\ "-" \notin Ctx

Threads == Kids \ Nested
KidsOf(x) == {c \in Kids : Parent[c] = x}

VARIABLES
    phase,      \* of each context's coroutines and thread
    busy,       \* the child inside whose run or result a loop is blocked
    op,         \* the operations of the user's tasks, taken together
    sig, kill,  \* the tasks stop_by_signal and stop_by_kill_event
    info,       \* siginfos in the signalfd or pipe of a thread
    kev,        \* _internal_kill_event: not made, "made" or "set"
    pipes,      \* _child_signalfd_pipes
    blocked,    \* _block_new_tasks
    task,       \* the task that runs a child, or its poll
    open,       \* the children whose event descriptor is open
    sent,       \* external: the number of signals sent
    alive       \* FALSE after std::terminate

vars == <<phase, busy, op, sig, kill, info, kev, pipes, blocked, task, open, sent, alive>>

TypeOK ==
    /\ phase \in [Ctx -> {"none", "first", "working", "closing", "returned", "written", "ended"}]
    /\ busy \in [Ctx -> Ctx \cup {"-"}] /\ op \in [Ctx -> {"pending", "done", "canceled"}]
    /\ {sig, kill} \subseteq [Ctx -> {"none", "reading", "read", "canceling", "done"}]
    /\ info \in [Ctx -> 0..MaxSignals] /\ kev \in [Ctx -> {"none", "made", "set"}]
    /\ pipes \in [Ctx -> SUBSET Threads] /\ blocked \in [Ctx -> BOOLEAN]
    /\ task \in [Kids -> {"none", "inside", "armed", "fired", "canceled", "getting", "done"}]
    /\ open = {c \in Threads : task[c] \notin {"none", "done"}}
    /\ \A c \in Kids : (task[c] \in {"inside", "getting"}) <=> (busy[Parent[c]] = c)
    /\ sent \in 0..MaxSignals /\ alive \in BOOLEAN

Init ==
    /\ phase = [x \in Ctx |-> IF x = Root THEN "first" ELSE "none"]
    /\ busy = [x \in Ctx |-> "-"] /\ op = [x \in Ctx |-> "pending"]
    /\ sig = [x \in Ctx |-> "none"] /\ kill = [x \in Ctx |-> "none"]
    /\ info = [x \in Ctx |-> 0] /\ kev = [x \in Ctx |-> "none"]
    /\ pipes = [x \in Ctx |-> {}] /\ blocked = [x \in Ctx |-> FALSE]
    /\ task = [c \in Kids |-> "none"] /\ open = {} /\ sent = 0 /\ alive = TRUE

Runs(x) == alive /\ busy[x] = "-" /\ phase[x] \in {"first", "working", "closing"}
\* The loop handles completions; the read of a kill event that is set needs no
\* wait and has completed by then, so that it cannot be canceled any more.
Handles(x) == Runs(x) /\ phase[x] # "first" /\ ~(kill[x] = "reading" /\ kev[x] = "set")

-----------------------------------------------------------------------------
\* Starting a context.
MayStart(x, c) ==
    /\ Runs(x) /\ phase[x] # "closing" /\ c \in KidsOf(x) /\ phase[c] = "none" /\ task[c] = "none"
    /\ op[x] = "pending" \/ (~Careful /\ op[x] = "canceled")

\* async_run_io_ctx(): the launcher throws ecanceled out of await_suspend,
\* which is noexcept, when new tasks are blocked.
LaunchThread(x, c) ==
    /\ MayStart(x, c) /\ c \in Threads
    /\ IF blocked[x]
         THEN alive' = FALSE /\ UNCHANGED <<phase, pipes, task, open>>
         ELSE /\ pipes' = [pipes EXCEPT ![x] = @ \cup {c}]
              /\ task' = [task EXCEPT ![c] = "armed"] /\ open' = open \cup {c}
              /\ phase' = [phase EXCEPT ![c] = "first"] /\ UNCHANGED alive
    /\ UNCHANGED <<busy, op, sig, kill, info, kev, blocked, sent>>

\* run_io_ctx() makes the caller's kill event, if there is none, and runs the
\* loop of the new context to its end.
EnterNested(x, c) ==
    /\ MayStart(x, c) /\ c \in Nested /\ (Careful => phase[x] = "first")
    /\ kev' = [kev EXCEPT ![x] = IF @ = "none" THEN "made" ELSE @]
    /\ task' = [task EXCEPT ![c] = "inside"] /\ busy' = [busy EXCEPT ![x] = c]
    /\ phase' = [phase EXCEPT ![c] = "first"]
    /\ UNCHANGED <<op, sig, kill, info, pipes, blocked, open, sent, alive>>

\* runner_launch() starts main first and then the tasks that stop the context;
\* the kill event is looked up once.
StartStops(x) ==
    /\ Runs(x) /\ phase[x] = "first"
    /\ phase' = [phase EXCEPT ![x] = "working"]
    /\ sig' = [sig EXCEPT ![x] = "reading"]
    /\ kill' = [kill EXCEPT ![x] = IF kev[x] = "none" THEN "done" ELSE "reading"]
    /\ UNCHANGED <<busy, op, info, kev, pipes, blocked, task, open, sent, alive>>

-----------------------------------------------------------------------------
\* External: a signal, the kernel that completes a read, the user's operations.
Signal ==
    /\ alive /\ sent < MaxSignals /\ sent' = sent + 1 /\ info' = [info EXCEPT ![Root] = @ + 1]
    /\ UNCHANGED <<phase, busy, op, sig, kill, kev, pipes, blocked, task, open, alive>>

SignalRead(x) ==
    /\ alive /\ sig[x] = "reading" /\ info[Source[x]] > 0
    /\ sig' = [sig EXCEPT ![x] = "read"] /\ info' = [info EXCEPT ![Source[x]] = @ - 1]
    /\ UNCHANGED <<phase, busy, op, kill, kev, pipes, blocked, task, open, sent, alive>>

KillRead(x) ==
    /\ alive /\ kill[x] = "reading" /\ kev[x] = "set"
    /\ kill' = [kill EXCEPT ![x] = "read"] /\ kev' = [kev EXCEPT ![x] = "made"]
    /\ UNCHANGED <<phase, busy, op, sig, info, pipes, blocked, task, open, sent, alive>>

OpEnds(x) ==
    /\ Handles(x) /\ op[x] = "pending" /\ op' = [op EXCEPT ![x] = "done"]
    /\ UNCHANGED <<phase, busy, sig, kill, info, kev, pipes, blocked, task, open, sent, alive>>

-----------------------------------------------------------------------------
\* The tasks stop_by_signal and stop_by_kill_event.
PassNone(x) == info
\* A siginfo to every child, whose pipe stays in the set after its end.
Pass(x) == [c \in Ctx |-> IF c \in pipes[x] /\ task[c] # "done" /\ info[c] < MaxSignals
                           THEN info[c] + 1 ELSE info[c]]
PassUpNever(x) == kev
\* The kill event of the context a nested one runs in.
PassUp(x) == IF x \in Nested THEN [kev EXCEPT ![Parent[x]] = "set"] ELSE kev

\* cancel_all() cancels the operations, the polls of the children and the
\* other of the two reads.
Stopping(x) ==
    /\ info' = Pass(x) /\ kev' = PassUp(x)
    /\ op' = [op EXCEPT ![x] = IF @ = "pending" THEN "canceled" ELSE @]
    /\ task' = [c \in Kids |-> IF c \in KidsOf(x) /\ task[c] = "armed" THEN "canceled" ELSE task[c]]
Quit(s, x) == IF s[x] = "reading" THEN [s EXCEPT ![x] = "done"] ELSE s

StopBySignal(x) ==
    /\ Handles(x) /\ sig[x] = "read" /\ Stopping(x)
    /\ sig' = [sig EXCEPT ![x] = "canceling"] /\ kill' = Quit(kill, x)
    /\ UNCHANGED <<phase, busy, pipes, blocked, open, sent, alive>>

StopByKillEvent(x) ==
    /\ Handles(x) /\ kill[x] = "read" /\ Stopping(x)
    /\ kill' = [kill EXCEPT ![x] = "canceling"] /\ sig' = Quit(sig, x)
    /\ UNCHANGED <<phase, busy, pipes, blocked, open, sent, alive>>

\* cancel_all() has completed: block_new_tasks().
Block(x) ==
    /\ Handles(x)
    /\ \/ sig[x] = "canceling" /\ sig' = [sig EXCEPT ![x] = "done"] /\ UNCHANGED kill
       \/ kill[x] = "canceling" /\ kill' = [kill EXCEPT ![x] = "done"] /\ UNCHANGED sig
    /\ blocked' = [blocked EXCEPT ![x] = TRUE]
    /\ UNCHANGED <<phase, busy, op, info, kev, pipes, task, open, sent, alive>>

-----------------------------------------------------------------------------
\* The end of a child, in its parent.
\* Mutants: erased before the resume, or not erased.
ErasePoll(x, c) ==
    /\ Handles(x) /\ c \in KidsOf(x) /\ task[c] \in {"fired", "canceled"}
    /\ task' = [task EXCEPT ![c] = "getting"] /\ busy' = [busy EXCEPT ![x] = c] /\ open' = open \ {c}
    /\ UNCHANGED <<phase, op, sig, kill, info, kev, pipes, blocked, sent, alive>>

\* handle_cq() resumes the coroutine, which waits for the result.
HandlePoll(x, c) ==
    /\ Handles(x) /\ c \in KidsOf(x) /\ task[c] \in {"fired", "canceled"}
    /\ task' = [task EXCEPT ![c] = "getting"] /\ busy' = [busy EXCEPT ![x] = c]
    /\ UNCHANGED <<phase, op, sig, kill, info, kev, pipes, blocked, open, sent, alive>>

\* The result is there; the thread task is erased with its event descriptor.
ResultGot(x, c) ==
    /\ alive /\ busy[x] = c /\ task[c] = "getting" /\ phase[c] = "ended"
    /\ task' = [task EXCEPT ![c] = "done"] /\ busy' = [busy EXCEPT ![x] = "-"]
    /\ open' = open \ {c}
    /\ UNCHANGED <<phase, op, sig, kill, info, kev, pipes, blocked, sent, alive>>

LeaveNested(x, c) ==
    /\ alive /\ busy[x] = c /\ task[c] = "inside" /\ phase[c] = "returned"
    /\ task' = [task EXCEPT ![c] = "done"] /\ busy' = [busy EXCEPT ![x] = "-"]
    /\ UNCHANGED <<phase, op, sig, kill, info, kev, pipes, blocked, open, sent, alive>>

\* The end of a context: main and its tasks end, the two reads are canceled,
\* the loop returns, its thread writes the event and makes the result ready.
MainEnds(x) ==
    /\ Handles(x) /\ phase[x] = "working" /\ op[x] # "pending"
    /\ \A c \in KidsOf(x) : task[c] \in {"none", "done"}
    /\ phase' = [phase EXCEPT ![x] = "closing"] /\ blocked' = [blocked EXCEPT ![x] = TRUE]
    /\ sig' = Quit(sig, x) /\ kill' = Quit(kill, x)
    /\ UNCHANGED <<busy, op, info, kev, pipes, task, open, sent, alive>>

Exit(x) ==
    /\ Handles(x) /\ phase[x] = "closing" /\ sig[x] = "done" /\ kill[x] = "done"
    /\ phase' = [phase EXCEPT ![x] = "returned"]
    /\ UNCHANGED <<busy, op, sig, kill, info, kev, pipes, blocked, task, open, sent, alive>>

WriteEvent(c) ==
    /\ alive /\ c \in Threads /\ phase[c] = "returned"
    /\ phase' = [phase EXCEPT ![c] = "written"]
    /\ task' = [task EXCEPT ![c] = IF @ = "armed" THEN "fired" ELSE @]
    /\ UNCHANGED <<busy, op, sig, kill, info, kev, pipes, blocked, open, sent, alive>>

ResultReady(c) ==
    /\ alive /\ phase[c] = "written" /\ phase' = [phase EXCEPT ![c] = "ended"]
    /\ UNCHANGED <<busy, op, sig, kill, info, kev, pipes, blocked, task, open, sent, alive>>

Loop(x) ==
    \/ StartStops(x) \/ SignalRead(x) \/ KillRead(x) \/ StopBySignal(x) \/ StopByKillEvent(x)
    \/ Block(x) \/ MainEnds(x) \/ Exit(x) \/ WriteEvent(x) \/ ResultReady(x)
    \/ \E c \in KidsOf(x) : HandlePoll(x, c) \/ ResultGot(x, c) \/ LeaveNested(x, c)

Next == Signal \/ \E x \in Ctx : Loop(x) \/ OpEnds(x) \/ \E c \in Kids : LaunchThread(x, c) \/ EnterNested(x, c)

Spec == Init /\ [][Next]_vars
\* Every loop runs, handles what has completed and each of its threads goes
\* on; the operations of the user may never end by themselves.
FairSpec == Spec /\ \A x \in Ctx : WF_vars(Loop(x))

-----------------------------------------------------------------------------
\* x has a signal to pass on: the siginfo was read, or its kill event is set,
\* which somebody reads, or was read.
Has(x) == sig[x] = "read" \/ kill[x] = "read" \/ (kev[x] = "set" /\ kill[x] # "done")

\* A siginfo is for the context, or it or a nested one in its thread has a
\* signal to pass on, or a stop task is at work or done.
Told(c) ==
    \/ info[c] > 0 \/ blocked[c] \/ "canceling" \in {sig[c], kill[c]}
    \/ \E x \in Ctx : Source[x] = c /\ Has(x)

\* A loop that is blocked in the result of a child (res.get() of
\* async_run_io_ctx) waits for one that has been told to stop or that ends by
\* itself; otherwise a canceled poll would hang the parent.
TellsBeforeWaiting ==
    \A x \in Ctx : \A c \in Threads : (busy[x] = c) =>
        Told(c) \/ phase[c] \in {"closing", "returned", "written", "ended"}

\* The event descriptor a thread writes to at its end is still its own: the
\* loop erases the thread task after the coroutine that waits for the thread.
EventOpen == \A c \in Threads : phase[c] \in {"first", "working", "closing", "returned"} => c \in open

\* A signal ends every context, whatever their operations do: the children
\* are told by their pipes before their polls are canceled, the parent of a
\* nested context by the kill event.
SignalStopsAll == (sent > 0) ~> (phase[Root] = "returned")

=============================================================================
