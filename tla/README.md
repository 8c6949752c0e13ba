# Specifications of braincells

TLA+ modules for the parts of the engine whose correctness depends on the order
of events or on what throws when: the io_uring runtime and its coroutines, the
inotify dispatcher and the directory watches on it, threads that share state
(epoller, input devices, log), child processes and buffered io, the containers
and owning types under them, and the Vulkan frame loop. Paths below are relative
to `src/src/` unless they begin with `examples/` or `codegen/`. The repository
has a one-line readme and no design documents; every definition is read off the
source. Its unit tests (`tests/`) cover containers, metaprogramming, text
utilities and buffered io, and none of the asynchronous code.

## 1. The system

| Component | State | Operations | Modules |
|---|---|---|---|
| event loop, runner (`core/async/runner.hpp`, `core/io/uring/ctx.hpp`) | ring, `_running`, `_block_new_tasks`, child pipes, thread tasks, kill events | `run`, `handle_cq`, `exit`, `cancel_all`, launch and shutdown of a context, contexts in threads and nested ones | `Runner`, `ChildContexts` |
| tasks (`core/async/task.hpp`, `awaitable.hpp`, `cancelation_point.hpp`, `sys/cancel.hpp`) | frame, `_continuation`, `_cancelation_point`, the final waiter's list | eager start, `co_await`, final suspend, destruction, cancel | `Runner` |
| io_uring operations (`core/async/sys/{read,write,open,close,sleep,statx,waitid}.hpp`) | one SQE each | refuse, submit, suspend, result | `Runner` (`UserOp`) |
| generator (`core/async/async_generator.hpp`, `sys/readdir.hpp`) | `_waiter`, `_current_value`, the chunk of a getdents | next, yield, resume of the other side | `AsyncGenerator` |
| inotify (`core/async/sys/inotify_ctx.hpp`, `inotify_watch.hpp`) | map of consumers, waiters and event ring of a watch, the read in flight | `run`, `stop`, `add_watch`, `rm_watch`, wait, cancel, poll | `InotifyCtx`, `WdEvents` |
| selector (`core/async/concurrent.hpp`) | slots, background tasks, ready queue, waiting handle, `remaining_` | `push`, `select`, `notify` | `CompletionQueue`, `Concurrent` |
| directory watches (`core/async/util/dir_watch.hpp`) | shared watches with user counts | construct, copy, move, destroy | `DirWatch` |
| recursive watch (`core/async/util/recursive_dir_watch.hpp`) | one watch and one task per component of a path | `init`, `poll` | `RecursiveDirWatch` |
| processes (`core/exec.hpp`) | pipes, pidfd, strings | `run`, `wait`, `run_async` | `Process` |
| buffered io (`core/io/{out,in}_base.hpp`) | buffer, positions | write, flush, seek, recovery; read, copy, seek | `OutBuffer`, `InBuffer` |
| log (`util/log/`) | packed word of hash, times and update id; ring of lines; length of the last record in a file | write, update, clear, resize | `LogRing`, `LogFile` |
| epoller, input manager (`core/epoller.hpp`, `input_mgr.hpp`) | handlers, stop pipe, `running`; slots of mice | add, remove, start, stop, attach, detach | `InputMgr` |
| mouse and keys (`inp/`) | atomic blocks of switches and motion, derived switch states | accumulate, introduce | `MouseState` |
| streamer and client (`examples/mouse_{streamer,client}.cpp`) | event batches, datagrams, the display | poll, filter, send, play | `EventStream` |
| ring buffer (`core/ring_buffer.hpp`) | cells, start, insertion, size | `push`, `pop`, `skip`, `clear`, `resize`, iteration | `Window`, `RingBuffer` |
| hash map (`core/robin_map.hpp`) | buckets with distances, `_occupied` | `emplace`, `operator[]`, `erase`, `clear` | `StaticMap`, `RobinMap` |
| variant, function, optional (`core/{var,function,opt}.hpp`) | storage, index or flag | construct, copy, move, assign, emplace, reset, destroy | `Holder`, `VarHolder`, `FunctionHolder`, `OptHolder` |
| index ranges (`util/ranges/dimensional_seq.hpp`) | index vector, radix | increment, decrement | `DimensionalSeq` |
| texts (`core/int_parse.hpp`, `core/ranges/{subst,split}.hpp`, `util/arg_parse.hpp`) | iterators, the list of arguments left | next, fill a field | `IntLiteral`, `Subst`, `Split`, `ArgParse` |
| Vulkan instances and handles (`grx/vk/instance.hpp`, `lib.hpp`, `codegen/vulkan/class.hpp`) | ids, cached functions, owners | create, move, assign, destroy, load | `VkInstance`, `VkHandles` |
| frame loop (`examples/hello_triangle*.cpp`) | fences, semaphores, swapchain images, resize flag | acquire, submit, present, recreate | `FrameLoop` |
| the rest, see section 10 | | | – |

How they interact. A context is one thread: `ctx::run` waits for completions and
resumes the coroutines they belong to. A task starts at once inside its creator
and returns to it at its first suspension; when it ends, its awaiter continues
in its place. `runner_launch` starts main, the inotify dispatcher and the signal
handler, awaits main, then stops the dispatcher, refuses new operations, cancels
the signal handler and waits for every task that was dropped without a
`co_await`. The dispatcher resumes the waiters of a watch by a call from its own
loop; a waiter may wait again, make and destroy watches, and resume further
waiters by canceling them. A selector is built of tasks and is driven by their
completions; the recursive watch is a selector over tasks that wait for the
dispatcher. Threads meet at four places: contexts started in threads (pipes
down, kill events up, a future for the result), the epoller's thread with the
input manager and the blocks of the mouse, the log's atomic word, and the
kernel.

What is hard. No two coroutines of a context run at once, yet every call that
resumes one is a point where everything may change: flags read before it,
iterators, sets that are being walked, the batch of completions being handled.
Cancelation races with completion inside the kernel. Shutdown has to find what
is still running, in particular what nobody awaits. With threads, copies of
handlers and blocks of state outlive a change. In the owning types every
constructor may throw between two assignments. Each hazard is listed with its
line in `PROJECT.json`.

## 2. How the project is laid out

A component is one module: state, `Init`, an action per operation or per stretch
of code between two points where another actor may act, properties at the end.
Operators called `...Assumption` state what the module asks of its constants. A
definition under a comment that begins with "Mutation:" is a plausible slip in
the code, used to see that a property notices it; it takes part in no behaviour.

TLC runs suites: `MCAsync`, `MCContainers`, `MCFiles`, `MCInput` and
`MCGraphics` instantiate several components with small constants. The variable `part` says which of them runs in a behaviour; the
variables of the others keep the value `Unused`. `Rests` lets the parts stop
that really may stop (a parser that has reached its end); in all others a state
without a successor is reported as a deadlock. A property of a suite is a
conjunction, one conjunct per part, of properties that the component modules
define and explain. The sizes of the instances are constants of the suite where
theorems are stated about it, so that they are proved for every value of them. `MCAsync` extends `Concurrent` and
`MCContainers` extends `RingBuffer`, so that the runs check the very definitions
that are proved; the variables of these two keep an initial value in the other
parts.

A constant `Careful` separates what the code guarantees from what it relies on
its callers for: TRUE restricts the environment to the precautions named at each
guard, and every precaution is there because without it TLC reaches the fault
that the sections below describe. The owning types have no such constant, and
neither do two faults of the recursive watch: they are in the model, and the
properties name them as their exceptions.

| Run | Module, configuration | Asks |
|---|---|---|
| `runner_safety` | `Runner`, `Runner.cfg` | types, resumption, quiescence at exit |
| `runner_live` | `MCRunner` | everything ends; a signal blocks new operations |
| `runner_signal_ends` | `Runner`, `RunnerSignalEnds.cfg` | **violated**: a signal ends a program that does not ignore its `ecanceled` |
| `async` | `MCAsync` | dispatcher stop and resumption, polls, selector, generator, child contexts |
| `inotify` | `InotifyCtx`, `InotifyCtx.cfg` | the dispatcher with tasks that keep to its discipline |
| `files` | `MCFiles` | directory watches, recursive watch with and without precautions, buffers, processes |
| `input` | `MCInput` | input manager, mouse state, event stream, log handlers with and without precautions |
| `containers` | `MCContainers` | ring, map, variant, function, optional, index ranges, texts |
| `graphics` | `MCGraphics` | frame loop, instances, handles |
| `robin_subscript` | `RobinMap`, `RobinSubscript.cfg` | **violated**: `m[k] = v` stores under `k` |
| `dir_watch_copy` | `DirWatch`, `DirWatchCopy.cfg` | **violated**: a watcher holds a directory that is watched |
| `dimensional_start` | `DimensionalSeq`, `Documented.cfg` | **violated**: a range with a start is the nested loops of its comment |

Deadlock is checked in every run. `Documented.cfg` has the constants of
`IntLiteral`, `VarHolder` and `FunctionHolder` as well: with it TLC also finds
the `AsDocumented` of these modules violated, and shows the shortest way there
(sections 6 and 8). No passing run has them among its properties.

## 3. The runtime

### Runner: one context

`Runner.tla` has an action per stretch of a coroutine between two calls that
matter: `Root*` for `runner_launch` (its position is `rpc`), `InotifyStep`,
`Signal*`, `CancelerStep` (`signal.cancel()`), `WaiterStep`
(`final_task_waiter::wait_all`), `User*` for any program written with the
library, `Loop*` for `ctx::run` and `handle_cq`, `Kernel*` for what the kernel
does. `stack` is the real call stack, as coroutines: `Start` pushes, a
suspension pops, `Finish` replaces the task that ends by its `_continuation`.
`op` is the operation a task is suspended on as the kernel sees it, and `point`
the cancelation point, the pair of a task and its operation's number, which
`Await` copies once as the code does. `owner` is the frame that holds a
`task<T>` object; when that frame drops it, the task goes to `lost`, the final
waiter's list.

Correspondence worth knowing:

- `io_uring_for_each_cqe` reads the tail of the completion queue again at each
  step, so a completion posted during a batch belongs to it. `LoopResume` takes
  the head of one queue for this reason; `LoopBatchEnd` is the test of
  `_running`.
- A cancel request is matched when it is submitted; the request and what it hit
  complete later and in any order (`KernelFlush`).
- The arguments of the last `wait_all` are coroutines that start in an
  unspecified order; `RootArguments` tries both.
- `final_task_waiter::wait_all` awaits each lost task through a small wrapper
  lambda; the model awaits it directly.
- `wait_all` awaits its arguments one after the other, so the last one of
  `runner_launch` is three values of `rpc`.

Properties and runs:

- `TypeOK`, `QuiescentExit`, `ClosedUnread`, `ResumeSuspended` (`Runner.cfg`;
  main and two tasks, one operation each, one inotify event, one signal at any
  moment; 1.2 million states). When `run` returns, no operation is in the
  kernel, no coroutine is suspended and no lost task is forgotten, although
  `runner_coro_entry` does no more than call `exit()`. A descriptor that
  `stop()` has closed is not being read. A completion always finds its coroutine
  suspended on it. Two tasks are the least that gives a task which is awaited by
  one and drops another, and a lost task that loses one itself.
- `Terminates` (`MCRunner`, part `ends`; one task with two operations, two
  events): whatever is dropped, canceled or signaled, a program whose operations
  complete is shut down. Two operations let a task go on after a cancel, and let
  its awaiter's copy of the point grow stale.
- `SignalBlocks` (`MCRunner`, part `signal`): a SIGINT or SIGTERM leads to the
  refusal of new operations even if the program's own operations never complete.
- `SignalTerminates` (`RunnerSignalEnds.cfg`) is **violated**: `stop_by_signal`
  logs that it is terminating, awaits `cancel_all()` and calls
  `block_new_tasks()` only after that. A task that is resumed in between (by its
  `ecanceled`, or by the end of a child it awaits) starts a new operation that
  is neither canceled nor refused, and the context waits for it for ever; the
  handler is gone, so a second signal changes nothing. The run uses
  `StopOnCancel = TRUE`: no task ignores its own `ecanceled`.

Fairness. `FairSpec`: the thread of the context keeps running (`WF` of `Run`);
the kernel completes cancel requests and canceled operations, and a read of a
signalfd completes when a signal is pending. Nothing is assumed of the
operations of the program: a read of a terminal may wait for ever. The part
`ends` adds that they complete, which is what `Terminates` is about. No fairness
is assumed of `SendSignal` and of inotify events.

Left out: child contexts (next section), a full submission queue, exceptions
through a `co_await`, the reuse of an awaitable's address by a later one (an
operation has an identity of its own).

### ChildContexts

A tree of contexts; what goes on inside one loop is `Runner`'s subject, so the
operations of a context's tasks are taken together in `op`. Actions follow the
stretches of `async_run_io_ctx` (a context on a thread, the poll of its event
descriptor, `res.get()`), of `run_io_ctx` called inside a coroutine (a nested
loop), of `stop_by_signal` and `stop_by_kill_event`, which pass a signal down by
pipes and up by kill events, and of the shutdown of a thread. A nested context
may have contexts nested in it, as `run_io_ctx` may be called anywhere
(`runner.hpp:215`); all of them read the signalfd or the pipe of their thread,
which the constant `Source` gives for each. In the tree that is run `b` is
nested in the main context `r` and `c` in `b`, `a` is a thread that `b` starts,
`d` is nested in `a` and `e` in `d`; one signal. So a signal goes through chains
of two nested contexts, in the main thread and in another. The kill event is an
eventfd: once it is set its read completes before anything that comes later is
handled, and `cancel_all` does not meet that read any more (`Handles`).

- `TellsBeforeWaiting`: a loop that blocks in the result of a child waits for
  one that was told to stop (`Told`) or ends by itself. The siginfo for a thread
  may be taken by a context nested in it, since both read one signalfd; the
  thread is told all the same, as a nested one sets the kill event of the context
  it is in, and that one of the next, up to the thread. Proved for every tree.
- `EventOpen`: a thread writes its end to a descriptor that is still its own.
- `SignalStopsAll`: a signal to the main context ends it, and with it every
  child. Fairness: every loop goes on; the program's operations may never end.

`Careful` says that a canceled task starts no context and that `run_io_ctx()` is
the first thing its coroutine does. Without it: a child that is started between
`cancel_all()` and `block_new_tasks()` is never told to stop; its refused poll
throws out of a `noexcept` function (`runner.hpp:244`). Further observations:
pipes of finished children stay in the set (`ctx.hpp:171` emplaces instead of
erasing); a thread's own children never send kill events; canceling a threaded
task from outside throws. `handle_cq` uses an iterator into the thread tasks
after the resume of a coroutine that may add one (`ctx.hpp:108`): the order of
the steps is modelled, the iterator is not.

### AsyncGenerator

Consumer and producer resume each other from inside `await_suspend`, so `stack`
holds the frames that are on the real stack. A getdents (`next`) may complete, be
refused before it starts (`Refused`) or fail on its thread (`GotError`), both of
which reach the consumer as an exception, and the consumer may await something else in between, which
empties the stack. `InOrder`: each entry once and in order, and all of them when
the loop ends without an exception. `StackBounded`: the frames that pile up are
those of one chunk. `Ends`: a consumer that goes on reading reaches the end or
the error. Five entries in chunks of two give a full, a second full and a
partial chunk. Fairness is strong for the consumer's next read, since it may
await other things for ever in between. Left out: several consumers of one
generator (the code keeps one `_waiter`) and the destruction of a generator
whose getdents is pending (the kernel would write into a freed frame). The
cancelation point that the consumer copies before the resume
(`async_generator.hpp:50`) may be stale.

### InotifyCtx and WdEvents

`InotifyCtx.tla` models the dispatcher with re-entrancy: `stack` holds the calls
in progress, which are a round of `run()`, a `resume_consumer`, an `rm_watch` or
a `cancel_consumers` loop, and the coroutines they resumed. Each loop frame
holds what the code's local variable or iterator holds: `resume_consumer` the
set it moved out of the map, `rm_watch` the element its iterator is at (`next`)
and the rest of the set, which follows insertions and erasures as a `std::set`
does, and `cancel_consumers` the next entry of the map. Use of an erased
iterator, of a destroyed awaitable or of a missing or freed event buffer is
recorded in `bad`, where the behaviour stops, since nothing is known of the
program after it.

`Careful = TRUE` restricts the tasks to a discipline that the code relies on and
does not enforce:

1. wait only on a watch the kernel has, and not once `run()` has woken its
   waiters for the last time (a later waiter is never resumed; an event of a
   watch entered that way dereferences a null buffer);
2. destroy no watch while `cancel_consumers` runs (its iterator may be the entry
   that `rm_watch` erases);
3. while a watch is being removed, neither cancel nor destroy another waiter of
   it (`rm_watch`'s iterator may be at it);
4. destroy a coroutine that is suspended on a watch only while it is in the map
   (it may be in the set `resume_consumer` has moved out, which its destructor
   does not search);
5. destroy a watch whose file was deleted only after its last event was pushed
   (the kernel has dropped the watch, so that `rm_watch` fails, and the entry
   keeps a pointer to the freed buffer, which that event would be pushed into).

Each clause is needed: without it TLC reaches the state described. Files may be
deleted and coroutines destroyed at any time otherwise.

- `InotifyCtx.cfg` (three tasks, which are symmetric, two watches, two events;
  4.37 million states, one million up to symmetry): `NoBadAccess`, `WaiterKept`
  (a waiter is in the map or in the hands of a loop that will resume it) and
  `NoLostWakeup` (when the dispatcher is idle nobody waits for an event that came
  after it began to wait). Three tasks are what it takes for one to act, inside
  the resume of a second, on a third that is still in the loop.
- `MCAsync`, part `unrestricted` (`Careful = FALSE`; two tasks, one watch, one
  event): `ResumedOnce`. Only a coroutine that was destroyed while it was
  suspended and out of the map can leave a dangling awaitable; cancel, wait and
  removal in any order never resume one twice.
- `MCAsync`, part `inotify stop` (the only events are deletions): `AllWoken`
  follows a `stop()`, with strong fairness of the dispatcher and of the
  suspension of a running task. Strong, because the event loop may resume other
  tasks between any two of its steps; weak fairness of the loop and a queue of
  completions give it.

`WdEvents.tla` (`MCAsync`, part `watch`; two pollers, a ring of three, eight
events) is the ring of one watch: `PollsNewest` says that a poll returns each
event since the one before exactly once and in order, or the newest that fit. It
instantiates `RingBuffer` for the ring itself, so the arithmetic of both is
checked together; eight events wrap the ring twice.

### Concurrent implements CompletionQueue

`CompletionQueue.tla` is what a selector promises: tasks are handed out once
each, in the order in which they are known to be complete. `Concurrent.tla` is
the code: slots, background coroutines that call `notify()`, the queue of
indices, and a `select()` that suspends twice, in its awaiter and on the
background coroutine whose `notify()` is resuming it. `bg[i] = "returning"` is a
background coroutine inside `notify()`; until it has returned, the thread does
nothing else. The refinement `IsQueue` maps the index that `select()` has popped
but not yet delivered back to the front of the abstract queue.

- `MCAsync`, part `concurrent` (four tasks, three slots): `IsQueue`,
  `ReadyOnce`, `WaitsForNothing`, `RemainingCounts`. More tasks than slots, so
  that slots are reused while others wait; the constructor is a series of
  `Push`.
- `Taken` (a conjunct of `EveryWaitEnds`): every result is returned, under weak
  fairness of the thread and of the program's next call of `select()`.

Preconditions that the callers keep and the code does not check: one `select()`
at a time, and no `push` of a task that is already complete while a `select()`
waits (it would resume `select()` before the background task is stored).

## 4. Directories, processes, files

### DirWatch

`ws` maps a directory to its users and to whether its watch was made;
construction emplaces the entry first, and the watch may fail. `UsersCounted`:
the count of each directory is the number of watchers that hold it, no watch is
removed under a user or kept without one, but for the entry that a failure
leaves (`dir_watch.hpp:40`). `EndsAfterFailure`: only such an entry lets the
assertion of `ref_watch` fail. Three watchers of two directories let a move
overwrite the last user of one while the other is shared.

`DirWatchCopy.cfg` adds the copy assignment and finds `HeldIsWatched`
**violated**: `operator=(const dir_watcher&)` (`dir_watch.hpp:105`) calls
`_destroy()`, which does not reset `id`, when the source is empty, and
overwrites `id` without giving up the old directory otherwise. A later copy then
meets no entry and fails the assertion in line 51. `MCFiles` leaves the copy
assignment out, as the rest of the code does not use it.

### RecursiveDirWatch

A path of components that are inodes; the file system creates and removes them
or moves them away with everything below. `kwatch` and `kq` are the kernel's
watches and queue, `resume` the dispatcher's list, `tasks` the coroutines that
wait in the selector, `cp` the cancelation points that `destroy_child` uses.
`poll()` takes completions one at a time; every component is checked against the
file system after its watch is made, as the code does.

- `Follows` (`MCFiles`, `Careful`: the file system changes when the changes
  before were handled; six changes): the components that exist are watched, each
  by one task, and no others, and no component is handled that was reset.
  `Finishes` adds that `poll()` reports, under weak
  fairness of the dispatcher and of the caller.
- `WatchedIsPending` with `RootPending` (part `recursive any`, changes at any
  time; five changes): the watch of the root is never lost, and a watched
  component has a task that waits or has completed, but for one in `refused`. It
  holds up to the two ends that a fast file system can bring about, both in the
  model. A selector of `Slots` tasks (32 in the code) can be full when `init()`
  schedules a component, since a component can have an old task besides its new
  one: `push()` throws (`concurrent.hpp:91`), out of `init()` and `poll()`, and
  the component is watched by a task that nobody selects. And a component that a
  late `ecanceled` has reset can have a completion left, which is read through
  its null watch (`recursive_dir_watch.hpp:149`, `:251`): the program is
  `"crashed"`. Three slots for three components let the selector be full.

What does not hold without precaution, besides: a deletion and a creation that one poll sees
together let the late `ecanceled` of the old component reset the new one; a
child task that has completed before `destroy_child` cancels it is scheduled
again on a dead watch; an inode that is used again gives a watch that never
fires; two tasks may wait for one component. `destroy_me` and changes of the
file system between the steps of `init` are left out. `_last_valid_component` is
never lowered, which costs events of components below it only.

### Process

`Process.tla` is the parent with its three pipes and an unreliable child: it
reads and writes in any order, in any portions, exits whenever it likes. `Async`
tells `wait()` (an epoller with handlers) from `run_async()` (tasks).
`AllOutput`: when the call returns the child was reaped and every byte it wrote
is in the string, however its writes, its end and the parent's events fell
together. `OutputFits`: a read of `run_async()` stays inside the string.
`Finishes`: parent and child never wait for each other for good, under weak
fairness of both. Pipe of three bytes, reads of two, outputs of up to five: an
output is larger than pipe and buffer together.

The runs respect the limits of the code: `wait()` reads standard error after the
loop (`MaxErr < BS` with the sizes of the instance; otherwise the child blocks
on a full pipe and the call never returns), and `run_async()` starts a reader
for standard output only (`exec.hpp:195`, `i < 2`), so `AllOutput` asks nothing of standard
error there. Observed and not modelled: standard input is never closed, so a
child that reads to the end of its input waits; an input that is the only
redirected stream is never written; a child that exits early gives the parent
SIGPIPE; a string with a preset capacity loses data; `setup_pipe_child` closes
the descriptor after `dup2` also when both are the same.

### OutBuffer and InBuffer

A file of bytes with a position, a buffer of `BS` bytes. In `OutBuffer` writes
of the file may be short; the caller recovers as the test of `out_base` does
(`clear_buffer`, seek back). `NothingLost`: between two calls file and buffer
together hold every accepted byte, in order and once. `RestKept`: after a short
flush the unwritten bytes are the first of the buffer. In `InBuffer` reads may
be short. `Consecutive` and `ReadsAll`: what is read is what stands at the
stream's position, none twice and none skipped, and less than asked for only
when the file gave less. `SeekMoves`, `Window`: a relative seek counts from the
position the user knows. Buffers of three bytes with calls of up to four cover
every position of the edge.

Observed: after a short flush the position still counts the written bytes, so a
second flush without the recovery writes stale ones (`out_base.hpp:133`); the
memory backend copies with the old size after a resize (`rw_impl.hpp:44`). Not
modelled: the pass-through without a buffer and the asynchronous variants, which
are the same templates over awaited calls.

## 5. Input, log and network

### InputMgr

The epoller's thread (`wpc`) copies the handlers of a group before it waits and
calls the copy afterwards; the manager's thread attaches and detaches mice and
starts and stops the thread through a byte in a pipe. Events are edge triggered.
`MiceRegistered`: a plugged mouse is in the epoller with the slot it is in,
however the slot was used before. `EdgeKept`: unread events of a mouse are going
to be reported, are reported, or are about to be read. `StopConsumed`: a
finished stop leaves nothing that would end the next thread. `ThreadsAnswer`: a
stop returns and the events of a plugged mouse are read (weak fairness of the
thread and of the join). Three mice for two slots let a slot change hands while
its handler runs.

`Careful`: the manager itself is attached and detached while no thread runs.
Without it the thread's stale copy of the old handlers removes the descriptor of
a newly attached mouse (`epoller.hpp:197`, `:232`). Observed: `detach_mouse`
does not wait for a handler that runs (`input_mgr.hpp:70`), which goes on with
the mouse that was detached (the properties follow the slot and the events, not
the object); `_mouses_count` is not initialised, a read error throws inside the
thread, a handler that shuts the epoller down beside a `stop()` can leave a byte
in the pipe (`epoller.hpp:285`; no handler of the model does).

### MouseState

Motion and key changes are accumulated in atomic blocks by one thread and taken
block by block by another. `MotionKept`: what was introduced and what is still
in the block add up to what the device reported, negative and wrapped motion
included. `ChangesKept` and `Settled`: a change is in its block until that is
taken, and a key ends up down as it is on the device, unless one introduce saw
it go both ways, when it is up: a key released and pressed again between two
introduces shows as up until its next change. The buttons of a mouse fit one
block, as in the instance. Over several blocks, as a keyboard needs them, the
two bits of a key lie in different blocks that are taken at different times, an
earlier release can be introduced with a later press, and `Settled` does not
hold.

### EventStream

The streamer polls two devices, filters each batch and sends it as a datagram;
the network may lose, repeat or reorder one; the client plays what arrives.
`Heals`: what was pressed or released since the last fault is held on the
display just when it is held on the device. `PressesPlayed`: without a fault
every press is played once. In `ThreadsAnswer`, again and again all that was sent
has been played (weak fairness of both ends). `Quick` says that no button changes both ways within one datagram,
which the filters would swallow. Observed: a lost release keeps a key down until
its next change; failed sends are ignored; a `-1` from recv is taken as a size;
two pairs of keys share a symbol (`q`, `v`).

### LogRing

The base decides with one atomic word whether a message is new, a repetition or
an update; the ring keeps the newest lines. Steps are the load, the store and
each line written under the mutex. `LogView`: the ring shows the newest lines
with the last record as it was last updated. `LastCallShown`: with one thread
the last record is the last call's message with the count of the base.
`TimeInFirstLine` holds whatever the callers do (part `log any`), and with two
threads that hand over records of one length the ring shows them in the order of
the lock (`log race`). `RingView` is all of it. Capacities 1 to 3 against records
of one and two lines make the ring drop parts of records.

`Careful` names what `LogView` needs: an update has as many lines as the record
it replaces or one more (a shorter one pops a line too many and wraps
`last_lines_count` round, `log_handler_ring.hpp:155`; one that is two longer
overwrites the oldest lines of a full ring), and a message is not written again
across an update (only its head would be redrawn). Update id 0, which matches
any write, is not used in any run. Observed: the word is loaded and stored
without compare-and-swap, so two threads may both count and one count is lost,
which no property asks about; an empty message writes
its head into a cell of another record.

### LogFile

`log_handler_fd` writes a repetition or an update over the last record: on
anything pipe-like after a carriage return, in a file after a seek back by the
length the last call left in `prev_record_len`. A message is a sequence of cells
(one may be a newline), the device is the external part: a file with a position,
or a terminal whose carriage return goes to the start of its last line. Steps
are the call, the exchange, the seek and the write.

`FileView`: up to its position the device shows the records in order, the last
as it was last written, no older one touched. For a file it holds whatever the
lengths (`log file`, one thread): a shorter update leaves a tail of the record
behind the position, which the next record writes over. On a terminal
(`log screen`) it needs `Careful`: a record written over the last one is not
shorter, which would leave a tail on the screen for good, and has one line,
since the carriage return reaches only the last. A repetition never shrinks: its
suffix only grows, up to " (repeats infinitely)". Two threads (`log lines`) that
write only new records lose none. With repetitions they do, as the comment
`XXX: racy` says (`log_handler_fd.hpp:72`): between another thread's exchange and
its write a seek goes back by a length that is not in the file yet, over an older
record. A short write and a failed one are ignored by the code and left out here.

## 6. Containers, owning types, texts

### RingBuffer implements Window

`Window.tla` is a sequence of at most `cap` newest elements. `RingBuffer.tla`
has the code's `_start`, `_insert`, `_size` and cells, with `end()` lying beyond
the capacity when the buffer wraps. The part `ring` of `MCContainers`
(capacities asked for 0 to 4, two values) checks `IsWindow` (every operation,
`resize` included, implements one of the window), `BackwardWalk` (`back()` and
iteration from `end()` agree with iteration from `begin()`) and
`SkipPushesDefault` (in `KeepPromises`: `skip` writes nothing into a free cell and still appends a
default element, because every other operation leaves free cells at their
default). Capacity 4 has every relative position of start and insertion. `Pop`
has the precondition that its callers keep: the buffer is not empty. The three
are also proved, for every capacity (section 9).

### RobinMap implements StaticMap

`RobinMap.tla` has one action per turn of the loops of `emplace` and `erase`;
`carry` is the element in hand. `IsMap` (in `KeepPromises`): the cells and the element in hand
implement a map of fixed capacity (`StaticMap`). `EveryKeyFound`,
`DistanceTrue`, `OccupiedCounts`: find meets each element and no key is in two
cells. `LoopsEnd`: every call ends, also when a chain of displacements wraps
round to its start in a full table. Four cells and seven keys that share homes
in every way.

`RobinSubscript.cfg` finds `SubscriptStores` **violated**: an `emplace` that
displaces others returns the cell of the last displaced element
(`robin_map.hpp:329`), and `operator[]` hands out the value in that cell.

Observed: the assignment of a bucket (`robin_map.hpp:85`) sets the header before
it destroys, so assigning an empty bucket over a full one leaks a non-trivial
value; the end sentinel has a distance and no value, and is copied and destroyed
as one; a self move assignment clears the map. Rehashing does not exist: the
capacity is fixed.

### VarHolder, FunctionHolder, OptHolder implement Holder

`Holder.tla`: an operation that ends gives its value to one object, one that
throws changes nothing or leaves its target without a value (`Lost`). The three
modules have the storages and the flags of the
code, every combination of the properties of the types as initial states (which
copies throw, which are bytes), and every operation with every exception it can
meet. No call is left out because the code does not carry it through: where it
ends in something undefined (a value destroyed or read that does not live, or
never destroyed) `bad` is set and the behaviour stops, and `spent` holds the
objects of such a call. `DestroyedOnce` is the conjunction of, per type: exactly
the value the index or flag names lives, and nothing goes wrong unless `spent`
says why; each way of getting there is listed below.
`IsHolder` (in `KeepPromises`) is the refinement. Two objects of two types (two values for the
optional) are the least in which every assignment between them exists.

- `VarHolder`: a variant whose types all move without throwing and have no
  destructor is built in place, so that a constructor that throws leaves it
  without a value (`var.hpp:556`), against `AsDocumented`: the comment in line 804 calls the variant never
  valueless and `tests/core/var.cpp:171` relies on that. `OnlyLiving` names four
  calls that end in something undefined: a copy or move construction of a whole
  variant with destructors that throws (its destructor dispatches on index 255,
  lines 602 to 605), an assignment as bytes over another alternative that has a
  destructor (lines 622 to 630 ask for a trivial assignment only), a
  self-assignment of a type that is destroyed before it is read, and the use of
  what a throw in place has left.
- `FunctionHolder`: `operator=` and `emplace` destroy the old callable before
  they build the new one, so that a throw loses it and leaves the pointers of the
  new type over an empty holder (`function.hpp:279`, `:331`); `reset()` destroys
  it and keeps the manager (`:325`). The destructor then destroys again (`:230`),
  as it always runs, against `AsDocumented`, which is the count of
  `tests/core/function.cpp`. Such functions are in `spent`, and
  `DestroyedOnce` says that nothing else is destroyed twice or lost.
- `OptHolder`: types assigned as bytes are taken to be constructed as bytes too.
  A throwing move ends the program, since the moves are `noexcept`.

### DimensionalSeq

The iterator over the vectors of nested loops, for unsigned indexes of `Width`
bits. `AsLoops`: after any walk forth and back the vector is the one at this
place of the loops, and the end is where they end. It holds from the origin
(ranks of three, every size up to three). `AsDocumented`, which asks it of a
range with a start, is **violated** (`dimensional_start`): an index that wraps goes to 0 and not to its start
(`dimensional_seq.hpp:71`), while the comment in line 161 gives the loops from
the start. Observed: a size of 0 never ends at once; the test of `decrement` for
a wrapped index is wrong for signed ones.

### IntLiteral, Subst, Split, ArgParse

Parsers as machines with one step per turn of their loop, against a definition
of what the text means.

- `IntLiteral` (six bits, eight digits, all bases): a literal that fits has its
  value and no overflow (`FitsExactly`), and in base 2 an overflow is seen
  (`BinarySeen`). In other bases it is not always: the test at
  `int_parse.hpp:49` asks whether the value became smaller, and
  `0x1FFFFFFFFFFFFFFFF` passes although the message in line 64 promises
  otherwise. `AsDocumented`, which asks it of every base, does not hold. `0X` and `0B` are read as base 8.
- `Subst` (texts of five characters, tables with recursive and empty values,
  depth two): `IsExpansion` against the recursive `Expand`, `Ends`.
  Precondition: no text or value ends in a lone `$` (`find_subst_symbol` would
  stay there for ever). At full depth a value keeps its variables, and the
  iterator gives what is before each of them once more (`subst.hpp:118` moves the
  end and not the start): `AtFullDepth` says what comes out, and the tables have
  values with text before a variable and with two of them. An
  unclosed `${` is substituted as if closed.
- `Split` (ranges of six): the fields in order, each once. With `allow_empty`
  the empty field behind a last delimiter is not given, which `Promised` says.
- `ArgParse` (two commands, four arguments): `OptionsAnywhere` says that in a
  line written as it is meant to be the order of the options does not matter and
  no word is lost. Observed outside of such lines: an unknown or left-over
  argument is ignored; `--key` takes the next argument whatever it is; a flag
  declared after a positional field is eaten by it; the integer `0` is refused
  and `12abc` is 12; a missing subcommand without a null alternative
  dereferences an empty optional (`arg_parse.hpp:392`, the status `undefined`).

## 7. Graphics

`FrameLoop` is the loop of `hello_triangle_index_buffer.cpp` with the queue of
the GPU, the presentation engine and the window as external actors. `GpuSafe`:
only what is drawn is presented, no fence, semaphore or command buffer is given
out again while the GPU uses it, and when `run()` returns no commands run and no
semaphore is awaited (`ReturnsDrawn`). `FramesGoOn`: as
long as the window is open and not minimised frames are shown, and the swapchain
gets the window's size whether or not the engine tells. Fairness: program, GPU,
signals and the engine's release of images go on. Two frames over two images and
three resizes let a frame wait for the other's image while a resize is reported
late.

`Careful`: the window is not minimised between the check and the creation of the
swapchain (its extent would be 0). `Leave` has no guard: `run()` (line 290 to 392)
returns and destroys its fences, semaphores and the device's other children
without `wait_idle`, where `hello_triangle.cpp:410` waits. The wait for the
timeline in every turn (line 376) is what makes that nearly right: the model
shows that only the signal of the last fence can be outstanding, and in it the
fence is indeed destroyed in that state. Observed as well: the size is read again before the
wait for events, so one more event is needed; a new swapchain is made while the
old exists and is not named; `hello_triangle.cpp` resets the fence before an
acquire whose refusal throws.

`VkInstance`: ids in slots, function blocks per loader and id, destroy handlers.
`IdsDistinct`, `FunctionsCurrent` (a loaded block has the functions of the
instance that has the id now). Three objects for two ids, so that ids are reused
and refused. An id leaks when the driver refuses the instance
(`instance.hpp:141`); `load()` and `add_destroy_handler` are not synchronised; a
device may outlive its instance. `VkHandles`: the generated classes; `OneOwner`
with `DestroyedRight` (each handle is destroyed once, by its device, before it).
`Careful` keeps a device in place while it has children. Objects whose
assignment is defaulted (`surface.hpp:19`, `command_buffer.hpp:15`) leak what
they are assigned over, which is why the instance assigns only over empty ones;
a self move assignment destroys the handle; the move assignment of `vk_lib`
leaks the old library.

## 8. Findings

The violated properties are listed with their lines in `PROJECT.json`:
`SignalTerminates` (section 3), `HeldIsWatched` (4), `SubscriptStores` and the
`AsDocumented` of the index ranges (6). With `Documented.cfg` TLC shows those of
the variant, the function and the literals violated in the same way.

Further faults are in the models of passing runs, where the property names them
as its exceptions: the full selector and the null watch of the recursive watch
(`refused`, `"crashed"`), the calls behind `OnlyLiving`, the text that is given
twice at full depth, and the frame loop that leaves without waiting for the
device. The ones told of as observed above are kept out of the passing runs by a
precondition of an action, by `Careful`, or by being left out.

## 9. What is proved

The theorems hold for every value of the constants that the modules' assumptions
admit. `TLAPS` checks seven modules. `AsyncProofs`, `FilesProofs`, `InputProofs`,
`GraphicsProofs` and `ContainersProofs` are about suites: a theorem there states the suite's own property, and the invariant has
one part per component, which the steps of the others leave alone.

`RunnerProofs`, for every number of tasks, operations and events:

- `TypeCorrect`: `Spec => []TypeOK`. One lemma per helper (`StartType`,
  `FinishType`, `AwaitType`, `SubmitType`, `PostType`), then one per group of
  actions. Its content is that `Finish` pushes only a task.
- `ResumesOnlySuspended`: `Spec => []ResumeSuspended`. `ResumeSuspended` is not
  inductive: that `Finish` does not put a coroutine on the stack twice needs to
  know that a `_continuation` is suspended and is the continuation of one task
  only (`ContInv`), and that a posted completion finds its task suspended needs
  the agreement of coroutine, kernel and queue (`OpInv`). Root may start a
  system task only if it has not started (`IdleInv`). `ResumeInv` is the
  conjunction; `PushStack` and `PopStack` are the facts on sequences.
- `NeverReadsClosed`: `Spec => []ClosedUnread`, from `ClosedInv`: once the flag
  is up no read of the descriptor is pending, because `stop()` hits a pending
  one in the step in which it raises the flag, and `InotifyStep` submits none
  after.

- `ExitsQuiescent`: `Spec => []QuiescentExit`. The state at the exit says too
  little about how the context got there, so `ExitInv` follows the shutdown.
  `WaitedInv` gives, for each place in `runner_launch`, the tasks it has waited
  out (`Waited`); `EndInv` ties the end of the loop to the end of
  `runner_launch`. The heart is `ParentInv`: every task of the user that runs or
  is suspended is held by the frame of an older live task, awaited by an older
  task or by the final waiter, or in the waiter's list. When the waiter finds
  its list empty, main has ended; were a task left, the oldest one
  (`LeastNumber`) would have nobody to answer for it (`NobodyLeft`). That is
  `FinalInv`, and with `ResumeInv` it empties the kernel, the queue and the
  stack. The steps that touch none of this are dealt with once (`Quiet`,
  `QuietExit`). `LeastNumber` comes from the well-foundedness of the naturals,
  which the library states without an operator parameter.

`AsyncProofs`, for every number of tasks and slots, of watches, pollers and
events, every directory and size of a chunk, and every tree of contexts
(`AsyncCorrect`, invariant `AsyncInv`). The selector:

- `SelectorCorrect`: `SelectorInv` is an invariant. Its parts are `SlotInv`
  (what a slot holds in each state of its background coroutine), `BusyInv` (one
  background coroutine runs at a time, and then what `select()` may be doing),
  `CountInv` (which slots the ready queue holds) and `TakenInv`.
- `NobodyWaitsForNothing` and `QueuedOnce` follow from it, and `CountsSlots`.
- `SelectorIsQueue`: `Spec => IsQueue`, the refinement. Each action maps to one
  of `CompletionQueue` or to a stutter: `Push` to a stutter or a task more at
  work, `Finish` to its completion, the delivery at the end of `select()` to the
  removal of the head; `Pop` alone changes nothing, because the mapping puts the
  index in hand back before the queue.

The other parts of the suite:

- `EventsInOrder`: `AsyncSpec => []InOrder`. For the ring of a watch `RingInv`
  says which event is in which cell: number k in cell `(k - 1) % RingSize`.
  With the lemmas on remainders an iterator that starts
  n places before the end then gives the last n events. For the generator
  `EntriesInv` places the entries so far with the consumer or in the buffer,
  `TransferInv` says who waits for whom, and `FramesInv` bounds the stack: an
  entry taken from the buffer pays for the two frames of its way to the
  consumer and back.
- `ResumedOnceEach`: `AsyncSpec => []NeverTwice`, from `DispatchCorrect`. A step
  of the suite's instance of the dispatcher is shown to be a step of the module
  whose proofs are used (`UnrestrictedSame`, `StopSame`).
- `ChildrenTold`: `AsyncSpec => []TellsBeforeWaiting`. Inductive is that a child
  whose poll was canceled or handled was told to stop or ends (`ToldInv`): it is
  in the set of pipes while it is polled (`ThreadInv`), `stop_by_signal` and
  `stop_by_kill_event` write to all of them before they cancel, and a kill event
  is read by somebody unless its context stops anyway (`KillInv`). A signal that
  a nested context has taken moves up one context at a time: the one around it
  is still in its first stretch (`NestInv`), so that nobody has read or canceled
  its kill event (`SetInv`). One lemma per action.

`InotifyProofs`, for every number of watches, tasks and events:

- `DispatchCorrect`: `DispatchInv` is an invariant, whatever the tasks do:
  `TypeOK`, `StackInv` (which call may stand on which), `UserInv` (a running
  coroutine is on the stack once) and `PlaceInv`: a suspended waiter is in the
  map, or in the hands of one loop. `PlaceInv` is only claimed while no
  suspended coroutine was destroyed and nothing undefined happened, since a
  destroyed one may be left in a set that nobody searches.
- `DispatchResumesOnce`: `Spec => []ResumedOnce`, from it.
- `CarefulCorrect`: under `Careful`, `SafeInv` is an invariant too. It is stated
  over the calls in progress: `PhaseInv` (what the phases of `run()` exclude),
  `EntryInv` (the entry of a watch that exists has a live buffer; another entry
  is being removed, or no event of its watch is to come),
  `SweepInv` (iterators of `cancel_consumers`), `WalkInv` (iterators of
  `rm_watch`) and `KeptInv` (who is waiting is found). That an event is still to
  come is known from `RoundInv` (what a round of `run()` has in hand), the
  invariant of `NoWakeupLost`.
- `CarefulNoBadAccess` and `CarefulKeepsWaiters` follow: with the discipline of
  section 3 nothing that is gone is used and no waiter is forgotten, for any
  number of watches and re-entrant calls.
- `NoWakeupLost`: `Spec => []NoLostWakeup`, with the discipline and without it.
  While `run()` takes the events of a round, a waiter that the map still holds
  and that an event has passed waits for a watch whose event is in the round
  (`LateInv`). The walk that follows takes every such waiter, so that it is none
  once the round is empty (`EmptyInv`, `RoundInv`); and a task that waits anew
  after the dispatcher has read begins with no event passed.

`ContainersProofs`, for every capacity, set of keys, set of types and set of
values. First of `RingBuffer` alone:

- `RingCorrect`: `RingInv` is an invariant: the insertion is `size` cells after
  the start, round the end, and the cells that hold no element hold the default.
  The second part is what `skip` relies on (`SkipIsPush`).
- `RingIsWindow`: `Spec => IsWindow`, the refinement. `ContentsForm` gives the
  elements in closed form, and each operation is compared with the window's
  element by element. The work is in `resize`: the k-th element goes to the
  cell `(k - 1) % n`, so that later ones overwrite earlier ones, and the last
  `n` land in different cells (`ModDistinct`) that lie in order from the new
  start on (`ModAdd`, `ModLess`). The lemmas on remainders are proved from the
  division theorem, for every divisor.
- `SkipPushes` and `WalksBack`: `SkipPushesDefault` for every step and
  `[]BackwardWalk`.

Then of the suite (`PartsCorrect`, invariant `PartsInv`, one part per container):

- `MapCorrect`: `ContainersSpec => []EveryKeyFound`. `EveryKeyFound` is not
  inductive. What a search relies on is `Reached`: between the home of an
  element and its cell every cell holds an element that is at least as far from
  its own home as the search is then, except the cell that a shift is about to
  fill, so that between two calls a search never stops before it (`Search`). `KeysDiffer` says that no key is stored twice, and
  `HandReached` the same of the element in hand, which is nowhere else.
  `PlaceKeeps` is the lemma on putting an element in a cell, `ShiftTurnKeeps` on
  moving the next one back. That an empty cell exists when one is needed is
  counted (`EmptyCell`).
- `HoldersCorrect`: `ContainersSpec => []DestroyedOnce`, with an exception in
  every construction that may throw. Of the variant, `VarInv`
  adds that an object that exists has an alternative; `VarGiven` says what every
  construction and assignment does to the storages. Of the function, `FuncSound`
  ties the manager, the pointer to call and the storage: a callable whose
  destructor does something is there exactly when the manager knows its type. A
  function in `spent`, as an exception or `reset()` has left it, has nothing in its
  storage (`FuncInv`). Of the optional value, `OptInv` adds that what does not exist
  has no value.
- `PromisesKept`: `ContainersSpec => KeepPromises`, the refinements. The map is
  the set of pairs in the cells, with the pair in hand (`MapPairs`): a turn of a
  displacement moves a pair between the two and a turn of a shift moves it to
  the next cell (`RelocateMaps`, `ShiftMaps`), both stutters of the map. For each
  holder one lemma says which step of `Holder` each operation is: a throw is a
  stutter, or a `Lose` of its target and of nothing else. Nothing is claimed of
  the step that does something undefined.

`FilesProofs`, for every number of watchers and directories and all sizes of
buffers, files, strings and pipes (`FilesCorrect`, whose invariant is
`FilesInv`):

- `WatchersCounted`: `Spec => []UsersCounted`. A directory has as many users as
  there are watchers that hold it (`Card`), in every state of the map, and none
  of its entries stays at zero users. `UnrefCounts` is the lemma on the release
  of one user; a move takes the old directory's user away and adds none.
- `OutputKept`: `Spec => []NothingLost`. Inductive is that the file, overwritten
  at its position by the bytes that wait in the buffer, is what was written
  (`OutInv`), with what each stretch of a write relies on (`OutPhases`): a store
  finds room, a flush that precedes a seek has nothing to store, and after a
  write that fails the rest is in front of the buffer (`RestKept`). A short
  write is the lemma that overwriting by a prefix and then by the rest is
  overwriting by both.
- `InputConsecutive`: `Spec => Consecutive`, three action properties and the
  window: what is ahead in the buffer are the bytes of the file before its
  position (`IsAhead`). `GivesNext(k)` says what a read of k bytes does; it is
  shown of the read of a buffer, of one that goes past it, and of a read that
  throws half way. The parts `in` and `in short` differ in a constant, and a
  step of complete reads is a step of short ones.
- `OutputRead`: `Spec => []AllOutput`. `ChildInv` and `BytesInv` say that what
  the child has written is in the pipe or with the caller. A call that waits
  reads a pipe again after the child has gone (`WaitInv`): a pipe is empty or
  its turn is still to come. One under an event loop ends when the pipe is
  empty and the child gone (`RunInv`), and its string has room for a whole read
  before each read.

- `RootWatched`: `Spec => []WatchedIsPending`, with changes of the file system at
  any time and any number of slots. `RecursiveInv` follows who may touch a component: `TasksInv` and
  `ReadyInv` say of the waiting and of the completed tasks, `PathInv` of the
  components, that inode and watch 1 are those of the root and of nothing else,
  so that a late completion resets other components only. `PendingInv` is that a
  watched component has a task that waits or has completed, or was refused a
  slot (`Held`), and the root one of them (`RootOnce`). `RoomInv` counts: tasks
  and completions together never exceed the slots, and the task that `poll()`
  schedules again takes the slot of the completion it handles, so that only
  `init()` can be refused.

`InputProofs`, for every number of mice and slots, keys, events, widths of a
block and of the accumulated motion (`InputCorrect`, invariant `InputInv`):

- `MiceStayRegistered`: `Spec => []MiceRegistered`. `SlotsInv` ties each mouse
  of the epoller to its slot and back, `EventsInv` says the same of the events
  that the thread has read and not yet handled. `StopInv` follows the request to
  stop: it is armed, or read, or handled, and `stop()` waits for it (`ThreadInv`:
  handlers change only while the thread does not run). `EdgeKept` needs that an
  edge-triggered event is in one of the two places.
- `MouseSettles`: `Spec => []Settled`. `MotionInv` is the sum of what was
  introduced and what is in the block, with the arithmetic of a wrap in the
  lemmas on remainders; its condition is that the sum of all steps stays below
  half the range (`MouseAssumption`). `KeysInv` says which changes a block holds
  and, with one block, `SettledInv` what an introduce makes of them. The change
  of a key fits its block (`PosFits`) and has a bit of its own (`PosDiffers`).

`GraphicsProofs`, for every number of frames in flight, images, instances, ids,
loaders, devices and children (`GraphicsCorrect`, invariant `GraphicsInv`):

- `FramesSafe`: `Spec => []GpuSafe`. `FencesWait`: a frame has one submission
  in the queue of the GPU at most, and its fence is down while it has;
  `SemaphoresAwaited`: a semaphore that is pending or signaled is for the
  submission to come, or for one that the GPU has not begun. So a frame whose
  fence has been waited for finds its command buffer and semaphores free.
  `SizeKnown` keeps the size 0 out of the new swapchain. Outside of the wait for
  the timeline all that was submitted is drawn, which is what `run()` leaves when
  it returns without a wait of its own.
- `LoadedFunctionsCurrent`: `Spec => []FunctionsCurrent`. `IdsApart`: no two
  objects have the same id, and an id that is held is taken; `Kept`: a loaded
  block is known to the destroy handlers of its id, which clear it before the id
  is given out again.
- `HandlesOwned`: `Spec => []OneOwner`. `Owned` and `Related` (a child's parent
  has the device that made it) imply that no call names a wrong or dead device.

The invariants were checked by TLC on the instances of the runs before they were
proved. The runs check the same definitions (section 2).

Model-checked only:

- what is under fairness, which the proof system does not reach: the last property
  of every suite;
- `Follows` of the recursive watch: it says what is left of a queue of kernel
  events that one step takes as a whole, so that the proof would be an induction
  over data;
- `AsReference`: the reference definitions follow a text, a range or a command
  line from its first element to its last, and the parsers are compared with
  them by induction over data;
- `PressesPlayed` of the event stream and `RingView`, `FileView` of the log, which
  speak of queues of datagrams and of lines: inductions over data again.

## 10. Not modelled

- Compile-time code (`core/meta`, `core/traits`, `core/concepts`), range
  adaptors that compose others (`zip`, `transform`), vectors and mathematics,
  hashes: no state.
- Tables and enumerations: `sys/event.hpp`, `grx/image.hpp`,
  `grx/texture_old.hpp`, `grx/vk/info.hpp`, with conversions that are data. The
  text that `codegen/` writes, except for the classes around handles.
- System call wrappers: what the kernel answers appears as external actions.
- Headers that no program uses: `core/ptr_map.hpp` (its test includes
  `robin_map.hpp`, and its `end()` does not compile), `util/inotify.hpp`,
  `core/poller.hpp` (a scratch program only), `grx/gl/` (names a `ring_buffer`
  that does not exist any more).
- Small owning types whose effects are in the modules that use them. In
  `core/fixed_vector.hpp` the copy assignment of some non-trivial types copies
  bytes, and `emplace_back` raises the size before it constructs; the program
  uses it with trivial types only. `uniq_string_buff`'s default copy keeps
  pointers into its source; the move assignment of the synchronous `generator`
  leaks the old coroutine.
- Within the modelled components: exceptions through a `co_await`, a full
  submission queue, the reuse of an awaitable's address by a later one.

The map covers about a tenth of the implementation's lines. What is left is for
the most part in the groups above: enumerations, data and generated text,
templates without a state of their own, and mathematics, about which a state
machine has nothing to say.

What is left to do: a bounded submission queue; proofs about the event stream
and the log.
