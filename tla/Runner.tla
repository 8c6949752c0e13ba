------------------------------- MODULE Runner -------------------------------
(***************************************************************************)
(* One io_uring context: the event loop of io::uring::ctx, the coroutines  *)
(* that run_io_ctx starts in it (runner_launch, inotify_ctx::run,          *)
(* stop_by_signal, final_task_waiter::wait_all) and the user's tasks.      *)
(*                                                                         *)
(* Everything runs on one thread, so a step is what one coroutine does     *)
(* between two calls that matter.  "stack" is the chain of coroutines that *)
(* are running: a task starts eagerly inside its creator (suspend_never)   *)
(* and returns to it at its first suspension; a task that ends continues   *)
(* its awaiter in its own place (task_awaitable_final).  The kernel is the *)
(* only concurrent party: it posts completions at any moment.              *)
(***************************************************************************)
EXTENDS Integers, Sequences

CONSTANTS
    NumWorkers,     \* tasks the user's program may create besides main
    MaxOps,         \* operations each of the user's tasks may start
    MaxEvents,      \* completions of the read of the inotify descriptor
    StopOnCancel    \* the user's tasks start nothing after an ecanceled

ASSUME RunnerAssumption ==
    /\ NumWorkers \in Nat /\ MaxOps \in Nat /\ MaxEvents \in Nat
    /\ StopOnCancel \in BOOLEAN

\* The tasks.  The user's are numbered in the order they are created.
Root     == -5      \* runner_launch, awaited by runner_coro_entry
Inotify  == -4      \* inotify_ctx::run
Signal   == -3      \* stop_by_signal
Canceler == -2      \* signal.cancel(), an argument of the last wait_all
Waiter   == -1      \* final_task_waiter::wait_all
Main     == 0       \* start_coro()
NoTask   == -6
Workers  == 1..NumWorkers
Users    == {Main} \cup Workers
Tasks    == Root..NumWorkers
NoPoint  == <<NoTask, 0>>

VARIABLES
    loop,       \* ctx::run: "wait" in io_uring_wait_cqe, "batch" in handle_cq
    running,    \* ctx::_running
    blocked,    \* ctx::_block_new_tasks
    canceled,   \* inotify_ctx::canceled
    closed,     \* inotify_ctx::fd was closed by stop()
    stack,      \* the running coroutines, innermost first
    st,         \* [Tasks -> state of the coroutine]
    rpc,        \* where runner_launch is
    cont,       \* promise._continuation: who awaits the task
    point,      \* promise._cancelation_point: the operation it names
    owner,      \* whose frame holds the not yet awaited task<T>
    lost,       \* final_task_waiter::_awaitables
    op,         \* the operation the task is suspended on, as the kernel sees it
    nops,       \* operations the task has started, which gives each an identity
    res,        \* the result the task was last resumed with
    cq,         \* the completion queue: <<task, result>>
    events,     \* completions of the inotify read so far
    sig         \* the terminating signal: "none", "sent", "read"

coVars == <<stack, st, cont, point, owner, lost>>
opVars == <<op, nops, res, cq, events, sig>>
ctxVars == <<loop, running, blocked, canceled, closed, rpc>>
vars == <<coVars, opVars, ctxVars>>

States   == {"idle", "run", "op", "await", "done"}
Results  == {"ok", "ecanceled", "signal"}
RootPcs  == {"main", "inotify", "signal", "await main", "stop", "close",
             "await inotify", "block", "arguments", "await canceler",
             "await signal", "await waiter", "exit", "end"}
OpStates == {"none",     \* no operation
            "pending",  \* held by the kernel until something happens
            "canceled", \* matched by a cancel request, not yet completed
            "quick",    \* a cancel request, which completes by itself
            "posted"}   \* its completion is in the queue

Init ==
    /\ loop = "batch" /\ running = TRUE /\ blocked = FALSE
    /\ canceled = FALSE /\ closed = FALSE
    /\ stack = <<Root>>
    /\ st = [t \in Tasks |-> IF t = Root THEN "run" ELSE "idle"]
    /\ rpc = "main"
    /\ cont = [t \in Tasks |-> NoTask]
    /\ point = [t \in Tasks |-> NoPoint]
    /\ owner = [t \in Tasks |-> NoTask]
    /\ lost = <<>>
    /\ op = [t \in Tasks |-> "none"]
    /\ nops = [t \in Tasks |-> 0]
    /\ res = [t \in Tasks |-> "ok"]
    /\ cq = <<>>
    /\ events = 0
    /\ sig = "none"

-----------------------------------------------------------------------------
(* What a coroutine can do to itself and to the others.                    *)

Top(t) == stack # <<>> /\ Head(stack) = t

\* A task<T> is created: its coroutine runs at once, inside its creator t.
Start(t, c) ==
    /\ stack' = <<c>> \o stack
    /\ st' = [st EXCEPT ![c] = "run"]

\* Mutation: final_suspend without the test of _continuation.
FinishUntested(t) ==
    /\ st' = [u \in Tasks |-> IF u = t THEN "done"
                              ELSE IF u = cont[t] THEN "run" ELSE st[u]]
    /\ stack' = <<cont[t]>> \o Tail(stack)
    /\ cont' = [cont EXCEPT ![t] = NoTask]

\* Mutation: the awaiter is resumed by a call and not by a transfer.
FinishByCall(t) ==
    /\ st' = [u \in Tasks |-> IF u = t THEN "done"
                              ELSE IF u = cont[t] THEN "run" ELSE st[u]]
    /\ stack' = IF cont[t] = NoTask THEN Tail(stack) ELSE <<cont[t]>> \o stack
    /\ cont' = [cont EXCEPT ![t] = NoTask]

\* final_suspend: the awaiter, if there is one, goes on in t's place.
Finish(t) ==
    /\ st' = [u \in Tasks |-> IF u = t THEN "done"
                              ELSE IF u = cont[t] THEN "run" ELSE st[u]]
    /\ stack' = IF cont[t] = NoTask THEN Tail(stack)
                ELSE <<cont[t]>> \o Tail(stack)
    /\ cont' = [cont EXCEPT ![t] = NoTask]

\* co_await of the task c: nothing happens if it is done already.  The point
\* of c is copied once, here, and is not refreshed when c goes on.
Await(t, c) ==
    IF st[c] = "done"
    THEN UNCHANGED <<stack, st, cont, point>>
    ELSE /\ cont' = [cont EXCEPT ![c] = t]
         /\ point' = [point EXCEPT ![t] = point[c]]
         /\ st' = [st EXCEPT ![t] = "await"]
         /\ stack' = Tail(stack)

\* An SQE is filled and submitted, and t is suspended until its completion.
\* The cancel requests among them are matched by io_uring_submit itself:
\* "hit" is the set of tasks whose operation is found.
Submit(t, kind, hit) ==
    /\ op' = [u \in Tasks |-> IF u = t THEN kind
                              ELSE IF u \in hit THEN "canceled" ELSE op[u]]
    /\ nops' = [nops EXCEPT ![t] = IF t \in Users THEN @ + 1 ELSE 0]
    /\ point' = [point EXCEPT ![t] = <<t, nops'[t]>>]
    /\ st' = [st EXCEPT ![t] = "op"]
    /\ stack' = Tail(stack)

\* The task whose pending operation a cancelation point names, if any.
Target(p) == {u \in Tasks : op[u] = "pending" /\ p = <<u, nops[u]>>}

Pending == {u \in Tasks : op[u] = "pending"}

-----------------------------------------------------------------------------
(* runner_launch                                                           *)

RootLaunch ==
    /\ Top(Root)
    /\ \/ rpc = "main"    /\ Start(Root, Main)    /\ rpc' = "inotify"
       \/ rpc = "inotify" /\ Start(Root, Inotify) /\ rpc' = "signal"
       \/ rpc = "signal"  /\ Start(Root, Signal)  /\ rpc' = "await main"
    /\ UNCHANGED <<cont, point, owner, lost, opVars,
                   loop, running, blocked, canceled, closed>>

RootAwait ==
    /\ Top(Root)
    /\ \/ rpc = "await main"     /\ Await(Root, Main)     /\ rpc' = "stop"
       \/ rpc = "await inotify"  /\ Await(Root, Inotify)  /\ rpc' = "block"
       \/ rpc = "await canceler" /\ Await(Root, Canceler) /\ rpc' = "await signal"
       \/ rpc = "await signal"   /\ Await(Root, Signal)   /\ rpc' = "await waiter"
       \/ rpc = "await waiter"   /\ Await(Root, Waiter)   /\ rpc' = "exit"
    /\ UNCHANGED <<owner, lost, opVars,
                   loop, running, blocked, canceled, closed>>

\* inotify_ctx::stop up to its co_await of read_task.cancel().
RootStop ==
    /\ Top(Root) /\ rpc = "stop"
    /\ canceled' = TRUE
    /\ Submit(Root, "quick", Pending \cap {Inotify})
    /\ rpc' = "close"
    /\ UNCHANGED <<cont, owner, lost, res, cq, events, sig,
                   loop, running, blocked, closed>>

RootClose ==
    /\ Top(Root) /\ rpc = "close"
    /\ closed' = TRUE
    /\ rpc' = "await inotify"
    /\ UNCHANGED <<coVars, opVars, loop, running, blocked, canceled>>

RootBlock ==
    /\ Top(Root) /\ rpc = "block"
    /\ blocked' = TRUE
    /\ rpc' = "arguments"
    /\ UNCHANGED <<coVars, opVars, loop, running, canceled, closed>>

\* The arguments of the last wait_all start in an order the language leaves
\* open; then wait_all awaits them from the first to the last.
RootArguments ==
    /\ Top(Root) /\ rpc = "arguments"
    /\ \E c \in {Canceler, Waiter} : st[c] = "idle" /\ Start(Root, c)
    /\ rpc' = IF \A c \in {Canceler, Waiter} : st'[c] # "idle"
              THEN "await canceler" ELSE rpc
    /\ UNCHANGED <<cont, point, owner, lost, opVars,
                   loop, running, blocked, canceled, closed>>

\* The result is set and the finalizer of runner_coro_entry calls ctx::exit.
RootExit ==
    /\ Top(Root) /\ rpc = "exit"
    /\ running' = FALSE
    /\ Finish(Root)
    /\ rpc' = "end"
    /\ UNCHANGED <<point, owner, lost, opVars, loop, blocked, canceled, closed>>

-----------------------------------------------------------------------------
(* The other tasks of the context                                          *)

\* Mutation: run() relies on the cancel request and has no flag.
InotifyStepNoFlag ==
    /\ Top(Inotify)
    /\ IF blocked \/ res[Inotify] = "ecanceled"
       THEN Finish(Inotify) /\ UNCHANGED <<point, op, nops>>
       ELSE Submit(Inotify, "pending", {}) /\ UNCHANGED cont
    /\ UNCHANGED <<owner, lost, res, cq, events, sig, ctxVars>>

InotifyStep ==
    /\ Top(Inotify)
    /\ IF canceled \/ blocked \/ res[Inotify] = "ecanceled"
       THEN Finish(Inotify) /\ UNCHANGED <<point, op, nops>>
       ELSE Submit(Inotify, "pending", {}) /\ UNCHANGED cont
    /\ UNCHANGED <<owner, lost, res, cq, events, sig, ctxVars>>

\* The read of the signalfd; the read provider refuses when blocked.
SignalRead ==
    /\ Top(Signal) /\ sig # "read"
    /\ IF blocked \/ res[Signal] = "ecanceled"
       THEN Finish(Signal) /\ UNCHANGED <<point, op, nops>>
       ELSE Submit(Signal, "pending", {}) /\ UNCHANGED cont
    /\ UNCHANGED <<owner, lost, res, cq, events, sig, ctxVars>>

\* SIGINT or SIGTERM was read: cancel_all() takes every operation there is.
SignalCancelAll ==
    /\ Top(Signal) /\ sig = "read" /\ res[Signal] = "signal"
    /\ Submit(Signal, "quick", Pending)
    /\ UNCHANGED <<cont, owner, lost, res, cq, events, sig, ctxVars>>

\* Mutation: the handler leaves its loop without block_new_tasks().
SignalBlockForgotten ==
    /\ Top(Signal) /\ sig = "read" /\ res[Signal] = "ok"
    /\ Finish(Signal)
    /\ UNCHANGED <<point, owner, lost, opVars, ctxVars>>

\* ... and only when it has completed are new operations refused.
SignalBlock ==
    /\ Top(Signal) /\ sig = "read" /\ res[Signal] = "ok"
    /\ blocked' = TRUE
    /\ Finish(Signal)
    /\ UNCHANGED <<point, owner, lost, opVars,
                   loop, running, canceled, closed, rpc>>

\* Mutation: the last wait_all cancels something else than the signal handler.
CancelerStepMissing ==
    /\ Top(Canceler)
    /\ IF point[Canceler] = NoPoint
       THEN Submit(Canceler, "quick", {}) /\ UNCHANGED cont
       ELSE Finish(Canceler) /\ UNCHANGED <<point, op, nops>>
    /\ UNCHANGED <<owner, lost, res, cq, events, sig, ctxVars>>

\* signal.cancel(), started with the last wait_all.
CancelerStep ==
    /\ Top(Canceler)
    /\ IF point[Canceler] = NoPoint
       THEN Submit(Canceler, "quick", Pending \cap {Signal}) /\ UNCHANGED cont
       ELSE Finish(Canceler) /\ UNCHANGED <<point, op, nops>>
    /\ UNCHANGED <<owner, lost, res, cq, events, sig, ctxVars>>

\* Mutation: wait_all has an "if" in the place of its "while".
WaiterStepOnce ==
    /\ Top(Waiter)
    /\ IF lost = <<>> \/ point[Waiter] # NoPoint
       THEN Finish(Waiter) /\ UNCHANGED <<point, lost>>
       ELSE Await(Waiter, Head(lost)) /\ lost' = Tail(lost)
    /\ UNCHANGED <<owner, opVars, ctxVars>>

WaiterStep ==
    /\ Top(Waiter)
    /\ IF lost = <<>>
       THEN Finish(Waiter) /\ UNCHANGED <<point, lost>>
       ELSE Await(Waiter, Head(lost)) /\ lost' = Tail(lost)
    /\ UNCHANGED <<owner, opVars, ctxVars>>

-----------------------------------------------------------------------------
(* The user's tasks: any program built from the operations of the library. *)

MayStart(t) == nops[t] < MaxOps /\ ~(StopOnCancel /\ res[t] = "ecanceled")

\* read, write, sleep, ...: one SQE, or ecanceled when tasks are blocked.
UserOp(t) ==
    /\ Top(t) /\ MayStart(t)
    /\ IF blocked
       THEN /\ res' = [res EXCEPT ![t] = "ecanceled"]
            /\ nops' = [nops EXCEPT ![t] = @ + 1]
            /\ UNCHANGED <<coVars, op>>
       ELSE Submit(t, "pending", {}) /\ UNCHANGED <<cont, owner, lost, res>>
    /\ UNCHANGED <<cq, events, sig, ctxVars>>

UserCreate(t, c) ==
    /\ Top(t)
    /\ st[c] = "idle" /\ \A d \in 1..(c - 1) : st[d] # "idle"
    /\ Start(t, c)
    /\ owner' = [owner EXCEPT ![c] = t]
    /\ UNCHANGED <<cont, point, lost, opVars, ctxVars>>

UserAwait(t, c) ==
    /\ Top(t) /\ owner[c] = t
    /\ Await(t, c)
    /\ owner' = [owner EXCEPT ![c] = NoTask]
    /\ UNCHANGED <<lost, opVars, ctxVars>>

\* ~task() of a task nobody has awaited hands it to the final waiter.
UserDrop(t, c) ==
    /\ Top(t) /\ owner[c] = t
    /\ lost' = Append(lost, c)
    /\ owner' = [owner EXCEPT ![c] = NoTask]
    /\ UNCHANGED <<stack, st, cont, point, opVars, ctxVars>>

\* co_await c.cancel(): a cancel request for the operation c's point names.
UserCancel(t, c) ==
    /\ Top(t) /\ owner[c] = t /\ nops[t] < MaxOps
    /\ point[c] # NoPoint
    /\ Submit(t, "quick", Target(point[c]))
    /\ UNCHANGED <<cont, owner, lost, res, cq, events, sig, ctxVars>>

\* The end of the coroutine; its frame holds no task any more.
UserFinish(t) ==
    /\ Top(t)
    /\ \A c \in Workers : owner[c] # t
    /\ Finish(t)
    /\ UNCHANGED <<point, owner, lost, opVars, ctxVars>>

UserStep(t) ==
    \/ UserOp(t) \/ UserFinish(t)
    \/ \E c \in Workers :
          UserCreate(t, c) \/ UserAwait(t, c) \/ UserDrop(t, c) \/ UserCancel(t, c)

-----------------------------------------------------------------------------
(* ctx::run and handle_cq                                                  *)

LoopWait ==
    /\ loop = "wait" /\ cq # <<>>
    /\ loop' = "batch"
    /\ UNCHANGED <<coVars, opVars, running, blocked, canceled, closed, rpc>>

LoopResume ==
    /\ loop = "batch" /\ stack = <<>> /\ cq # <<>>
    /\ LET t == Head(cq)[1] IN
          /\ stack' = <<t>>
          /\ st' = [st EXCEPT ![t] = "run"]
          /\ op' = [op EXCEPT ![t] = "none"]
          /\ res' = [res EXCEPT ![t] = Head(cq)[2]]
    /\ cq' = Tail(cq)
    /\ UNCHANGED <<cont, point, owner, lost, nops, events, sig, ctxVars>>

LoopBatchEnd ==
    /\ loop = "batch" /\ stack = <<>> /\ cq = <<>>
    /\ loop' = IF running THEN "wait" ELSE "exited"
    /\ UNCHANGED <<coVars, opVars, running, blocked, canceled, closed, rpc>>

-----------------------------------------------------------------------------
(* The kernel and the environment                                          *)

Post(t, r) ==
    /\ op' = [op EXCEPT ![t] = "posted"]
    /\ cq' = Append(cq, <<t, r>>)
    /\ UNCHANGED <<coVars, nops, res, ctxVars>>

\* A cancel request or a canceled operation completes.
KernelFlush(t) ==
    /\ op[t] \in {"quick", "canceled"}
    /\ Post(t, IF op[t] = "quick" THEN "ok" ELSE "ecanceled")
    /\ UNCHANGED <<events, sig>>

\* What a user's operation waits for happens.
KernelComplete(t) ==
    /\ t \in Users /\ op[t] = "pending"
    /\ Post(t, "ok")
    /\ UNCHANGED <<events, sig>>

KernelInotify ==
    /\ op[Inotify] = "pending" /\ events < MaxEvents
    /\ Post(Inotify, "ok")
    /\ events' = events + 1
    /\ UNCHANGED sig

KernelSignal ==
    /\ op[Signal] = "pending" /\ sig = "sent"
    /\ Post(Signal, "signal")
    /\ sig' = "read"
    /\ UNCHANGED events

SendSignal ==
    /\ sig = "none" /\ loop # "exited"
    /\ sig' = "sent"
    /\ UNCHANGED <<coVars, op, nops, res, cq, events, ctxVars>>

-----------------------------------------------------------------------------
RootStep == \/ RootLaunch \/ RootAwait \/ RootStop \/ RootClose
            \/ RootBlock \/ RootArguments \/ RootExit

SystemStep == \/ InotifyStep \/ SignalRead \/ SignalCancelAll \/ SignalBlock
              \/ CancelerStep \/ WaiterStep

LoopStep == LoopWait \/ LoopResume \/ LoopBatchEnd

\* The thread of the context.
Run == RootStep \/ SystemStep \/ LoopStep \/ \E t \in Users : UserStep(t)

Kernel == \/ \E t \in Tasks : KernelFlush(t) \/ KernelComplete(t)
          \/ KernelInotify \/ KernelSignal

Exited == loop = "exited" /\ UNCHANGED vars

Next == Run \/ Kernel \/ SendSignal \/ Exited

Spec == Init /\ [][Next]_vars

\* The thread runs, the kernel completes what was canceled and delivers a
\* signal that was sent.  A user's operation may wait for ever.
FairSpec == /\ Spec /\ WF_vars(Run) /\ WF_vars(KernelSignal)
            /\ \A t \in Tasks : WF_vars(KernelFlush(t))

-----------------------------------------------------------------------------
TypeOK ==
    /\ loop \in {"wait", "batch", "exited"}
    /\ running \in BOOLEAN /\ blocked \in BOOLEAN
    /\ canceled \in BOOLEAN /\ closed \in BOOLEAN
    /\ stack \in Seq(Tasks)
    /\ st \in [Tasks -> States]
    /\ rpc \in RootPcs
    /\ cont \in [Tasks -> Tasks \cup {NoTask}]
    /\ point \in [Tasks -> (Tasks \cup {NoTask}) \X Nat]
    /\ owner \in [Tasks -> Users \cup {NoTask}]
    /\ lost \in Seq(Workers)
    /\ op \in [Tasks -> OpStates]
    /\ nops \in [Tasks -> Nat]
    /\ res \in [Tasks -> Results]
    /\ cq \in Seq(Tasks \X Results)
    /\ events \in 0..MaxEvents
    /\ sig \in {"none", "sent", "read"}

\* When the loop has ended nothing is left behind: the kernel holds no
\* operation that could still write into a destroyed frame, no coroutine is
\* suspended, and every task that was dropped without a co_await has ended.
QuiescentExit ==
    loop = "exited" =>
        /\ \A t \in Tasks : op[t] = "none" /\ st[t] \in {"idle", "done"}
        /\ stack = <<>> /\ cq = <<>> /\ lost = <<>>

\* Once stop() has closed the inotify descriptor no read of it is waiting in
\* the kernel, whether the cancel request found the read or came too late.
ClosedUnread == closed => op[Inotify] # "pending"

\* A completion always finds its coroutine suspended on it: no coroutine is
\* resumed twice, resumed while it runs, or resumed after it has ended.
ResumeSuspended ==
    /\ \A i \in DOMAIN cq : st[cq[i][1]] = "op" /\ op[cq[i][1]] = "posted"
    /\ \A i, j \in DOMAIN cq : cq[i][1] = cq[j][1] => i = j
    /\ \A i, j \in DOMAIN stack : stack[i] = stack[j] => i = j
    /\ \A t \in Tasks : st[t] = "run" <=> \E i \in DOMAIN stack : stack[i] = t

\* A program whose operations all complete ends: main, the dispatcher of
\* inotify, the signal handler and the lost tasks are all waited out.
Terminates == <>(loop = "exited")

\* A SIGINT or SIGTERM that is sent leads to the refusal of new operations,
\* whatever the user's tasks are waiting for.
SignalBlocks == sig = "sent" ~> (blocked \/ loop = "exited")

\* A SIGINT or SIGTERM that the handler has read ends the context: "Received
\* signal {} in thread {x}, terminating" (stop_by_signal).
SignalTerminates == sig = "read" ~> loop = "exited"
=============================================================================
