----------------------------- MODULE InotifyCtx -----------------------------
(***************************************************************************)
(* inotify_ctx: one read of the inotify descriptor serves all the watches  *)
(* of a thread.  Tasks register an awaitable with a watch; run() pushes    *)
(* the events it read into the buffers of the watches and resumes who      *)
(* waits.  Resuming is a call: the task runs inside the dispatcher, and    *)
(* before it returns it may wait again, make and destroy watches, cancel   *)
(* other waiters, each of which resumes tasks in turn.  "stack" holds the  *)
(* calls that are in progress, innermost first.                            *)
(***************************************************************************)
EXTENDS Integers, Sequences, TLC

CONSTANTS
    Tasks,
    MaxWds,     \* bound on the watches that are ever made
    MaxEvents,  \* bound on the events the watched files produce
    Careful     \* the tasks keep to the discipline of CanWait, CanUnwatch, ...

InotifyAssumption ==
    MaxWds \in Nat /\ MaxEvents \in Nat /\ Careful \in BOOLEAN

Wds  == 1..MaxWds
None == 0           \* no watch, and the end() of the map of consumers

VARIABLES
    kernel,     \* the watches the kernel has
    queue,      \* the events of the descriptor nobody has read
    events,     \* how many events the watched files have produced
    open,       \* inotify_ctx::fd is not closed
    made,       \* how many watches were made: the next descriptor is made + 1
    alive,      \* the watches whose inotify_watch object exists
    read,       \* the read: "pending", "posted", "canceled", or "none"
    buf,        \* what the read returned
    canceled,   \* inotify_ctx::canceled
    consumers,  \* the keys of inotify_ctx::consumers
    buff,       \* [Wds -> consumer_state::buff: "null", "live" or "freed"]
    waiters,    \* [Wds -> consumer_state::awaitables]
    count,      \* [Wds -> wd_event_buffer::push_count]
    st,         \* [Tasks -> "free", "waiting", "running" or "gone"]
    on,         \* [Tasks -> the watch the task waits or waited on]
    since,      \* [Tasks -> count of that watch when the wait began]
    stack,      \* the calls in progress
    bad         \* undefined behaviour met: the program stops there

kernelVars == <<kernel, queue, events, open, read, buf>>
mapVars    == <<consumers, buff, waiters, count>>
taskVars   == <<st, on, since>>
vars == <<kernelVars, made, alive, canceled, mapVars, taskVars, stack, bad>>

Init ==
    /\ kernel = {} /\ queue = <<>> /\ events = 0 /\ open = TRUE
    /\ made = 0 /\ alive = {}
    /\ read = "pending" /\ buf = <<>> /\ canceled = FALSE
    /\ consumers = {}
    /\ buff = [w \in Wds |-> "null"]
    /\ waiters = [w \in Wds |-> {}]
    /\ count = [w \in Wds |-> 0]
    /\ st = [t \in Tasks |-> "free"]
    /\ on = [t \in Tasks |-> None]
    /\ since = [t \in Tasks |-> 0]
    /\ stack = <<>> /\ bad = {}

-----------------------------------------------------------------------------
(* The calls in progress.                                                  *)

RunFrame(left, list) == [f |-> "run", left |-> left, list |-> list]
WakeFrame(w, todo)  == [f |-> "wake", wd |-> w, todo |-> todo]
RmFrame(w, next, todo) == [f |-> "rm", wd |-> w, next |-> next, todo |-> todo]
CancelFrame(it, todo)  == [f |-> "cancel", it |-> it, todo |-> todo]
UserFrame(t)        == [f |-> "user", task |-> t]

Idle   == bad = {} /\ stack = <<>>
Top(f) == bad = {} /\ stack # <<>> /\ Head(stack).f = f
Rest   == Tail(stack)
Below(f) == \E i \in DOMAIN stack : stack[i].f = f

\* t is registered with a watch: what cancel() and ~inotify_awaitable look for.
InMap(t) == on[t] \in consumers /\ t \in waiters[on[t]]

\* An event of w was not pushed yet: it is not read, read, or of the round.
Among(w, seq) == \E k \in DOMAIN seq : seq[k] = w
Coming(w) == \/ Among(w, queue) \/ Among(w, buf)
             \/ \E i \in DOMAIN stack : stack[i].f = "run" /\ Among(w, stack[i].left)

\* awaitable->resume(): t runs, above the frames fs.  An awaitable that was
\* destroyed in the meantime is a pointer to nothing.
Resume(t, fs) ==
    IF st[t] = "waiting"
    THEN /\ st' = [st EXCEPT ![t] = "running"]
         /\ stack' = <<UserFrame(t)>> \o fs
         /\ UNCHANGED bad
    ELSE bad' = bad \cup {"dangling"} /\ UNCHANGED <<st, stack>>

\* t is gone from the set of a watch that rm_watch may be walking: what the
\* walk's iterator points at must not be erased by anyone else.
EraseWaiter(w, t) ==
    /\ waiters' = [waiters EXCEPT ![w] = @ \ {t}]
    /\ LET hit == \E i \in DOMAIN stack :
                     stack[i].f = "rm" /\ stack[i].wd = w /\ stack[i].next = {t}
       IN  bad' = IF hit THEN bad \cup {"rm iterator"} ELSE bad

\* The frames as they are when t is taken from the walks of w.
WithoutWaiter(w, t) ==
    [i \in DOMAIN stack |->
        IF stack[i].f = "rm" /\ stack[i].wd = w
        THEN [stack[i] EXCEPT !.todo = @ \ {t}] ELSE stack[i]]

\* A nonempty set gives one of its members, the empty set gives nothing.
OneOf(S) == IF S = {} THEN {{}} ELSE {{t} : t \in S}

\* Mutation: rm_watch erases the entry and resumes nobody.
StartRmSilent(w, fs) == stack' = <<RmFrame(w, {}, {})>> \o fs

\* The order of a std::set of pointers is open: the walk starts anywhere.
StartRm(w, fs) ==
    \E next \in OneOf(waiters[w]) :
       stack' = <<RmFrame(w, next, waiters[w] \ next)>> \o fs

\* The least key of the map above w.
Above(w) == LET S == {v \in consumers : v > w}
            IN  IF S = {} THEN None ELSE CHOOSE v \in S : \A u \in S : v <= u

-----------------------------------------------------------------------------
(* run()                                                                   *)

\* The read has completed: a round begins, with the events that are left to push.
RunEvents ==
    /\ Idle /\ read = "posted"
    /\ stack' = <<RunFrame(buf, <<>>)>>
    /\ read' = "none" /\ buf' = <<>>
    /\ UNCHANGED <<kernel, queue, events, open, made, alive, canceled, mapVars, taskVars, bad>>

\* One event: that of a known watch is pushed into its buffer, and the watch is
\* noted, once for each.
PushEvent ==
    /\ Top("run") /\ Head(stack).left # <<>>
    /\ LET fr == Head(stack)
           w == Head(fr.left)
       IN  IF w \in consumers
           THEN /\ count' = [count EXCEPT ![w] = @ + 1]
                /\ bad' = {buff[w]} \ {"live"}
                /\ stack' = <<RunFrame(Tail(fr.left), Append(fr.list, w))>> \o Rest
           ELSE /\ stack' = <<RunFrame(Tail(fr.left), fr.list)>> \o Rest
                /\ UNCHANGED <<count, bad>>
    /\ UNCHANGED <<kernelVars, made, alive, canceled, consumers, buff, waiters, taskVars>>

\* Mutation: only one of the waiters of a watch is resumed for its events.
RunNextOne ==
    /\ Top("run") /\ Head(stack).left = <<>> /\ Head(stack).list # <<>>
    /\ LET list == Head(stack).list
           w == Head(list)
       IN  IF w \in consumers
           THEN \E one \in OneOf(waiters[w]) :
                   /\ waiters' = [waiters EXCEPT ![w] = @ \ one]
                   /\ stack' = <<WakeFrame(w, one), RunFrame(<<>>, Tail(list))>> \o Rest
           ELSE stack' = <<RunFrame(<<>>, Tail(list))>> \o Rest /\ UNCHANGED waiters
    /\ UNCHANGED <<kernelVars, made, alive, canceled, consumers, buff, count,
                   taskVars, bad>>

\* Mutation: the waiters are resumed out of a copy and stay in the map.
RunNextCopy ==
    /\ Top("run") /\ Head(stack).left = <<>> /\ Head(stack).list # <<>>
    /\ LET list == Head(stack).list
           w == Head(list)
       IN  IF w \in consumers
           THEN stack' = <<WakeFrame(w, waiters[w]), RunFrame(<<>>, Tail(list))>> \o Rest
           ELSE stack' = <<RunFrame(<<>>, Tail(list))>> \o Rest
    /\ UNCHANGED <<kernelVars, made, alive, canceled, mapVars, taskVars, bad>>

\* resume_consumer of the next watch noted: its waiters are moved out of the
\* map before any of them runs.
RunNext ==
    /\ Top("run") /\ Head(stack).left = <<>> /\ Head(stack).list # <<>>
    /\ LET list == Head(stack).list
           w == Head(list)
       IN  IF w \in consumers
           THEN /\ waiters' = [waiters EXCEPT ![w] = {}]
                /\ stack' = <<WakeFrame(w, waiters[w]), RunFrame(<<>>, Tail(list))>> \o Rest
           ELSE stack' = <<RunFrame(<<>>, Tail(list))>> \o Rest /\ UNCHANGED waiters
    /\ UNCHANGED <<kernelVars, made, alive, canceled, consumers, buff, count,
                   taskVars, bad>>

\* Mutation: the loop goes on reading although stop() was called.
RunAgainNoFlag ==
    /\ Top("run") /\ Head(stack).left = <<>> /\ Head(stack).list = <<>>
    /\ stack' = Rest /\ read' = "pending"
    /\ UNCHANGED <<kernel, queue, events, open, buf, made, alive, canceled,
                   mapVars, taskVars, bad>>

\* The end of the round: the next read, or cancel_consumers when stopped.
RunAgain ==
    /\ Top("run") /\ Head(stack).left = <<>> /\ Head(stack).list = <<>>
    /\ IF canceled
       THEN stack' = <<CancelFrame(Above(None), {})>> \o Rest /\ UNCHANGED read
       ELSE stack' = Rest /\ read' = "pending"
    /\ UNCHANGED <<kernel, queue, events, open, buf, made, alive, canceled,
                   mapVars, taskVars, bad>>

\* The read came back canceled.
RunCanceled ==
    /\ Idle /\ read = "canceled"
    /\ read' = "none"
    /\ stack' = <<CancelFrame(Above(None), {})>>
    /\ UNCHANGED <<kernel, queue, events, open, buf, made, alive, canceled,
                   mapVars, taskVars, bad>>

WakeNext ==
    /\ Top("wake")
    /\ LET fr == Head(stack) IN
          IF fr.todo = {}
          THEN stack' = Rest /\ UNCHANGED <<st, bad>>
          ELSE \E t \in fr.todo :
                  Resume(t, <<WakeFrame(fr.wd, fr.todo \ {t})>> \o Rest)
    /\ UNCHANGED <<kernelVars, made, alive, canceled, mapVars, on, since>>

\* cancel_consumers: each entry is moved out and erased before its waiters
\* are resumed; "it" is the entry that will be the next, if it still exists.
CancelNext ==
    /\ Top("cancel")
    /\ LET fr == Head(stack) IN
          IF fr.todo # {}
          THEN /\ \E t \in fr.todo :
                     Resume(t, <<CancelFrame(fr.it, fr.todo \ {t})>> \o Rest)
               /\ UNCHANGED <<consumers, waiters>>
          ELSE IF fr.it = None
          THEN stack' = Rest /\ UNCHANGED <<consumers, waiters, st, bad>>
          ELSE IF fr.it \notin consumers
          THEN /\ bad' = bad \cup {"map iterator"}
               /\ UNCHANGED <<consumers, waiters, st, stack>>
          ELSE /\ consumers' = consumers \ {fr.it}
               /\ waiters' = [waiters EXCEPT ![fr.it] = {}]
               /\ stack' = <<CancelFrame(Above(fr.it), waiters[fr.it])>> \o Rest
               /\ UNCHANGED <<st, bad>>
    /\ UNCHANGED <<kernelVars, made, alive, canceled, buff, count, on, since>>

\* The loop of rm_watch; when it is over the entry goes, with what is in it,
\* and ~inotify_watch frees the buffer.
RmNext ==
    /\ Top("rm")
    /\ LET fr == Head(stack) IN
          IF fr.next = {}
          THEN /\ consumers' = consumers \ {fr.wd}
               /\ waiters' = [waiters EXCEPT ![fr.wd] = {}]
               /\ stack' = Rest
               /\ UNCHANGED <<st, bad>>
          ELSE LET t == CHOOSE u \in fr.next : TRUE IN
               /\ waiters' = [waiters EXCEPT ![fr.wd] = @ \ {t}]
               /\ \E next \in OneOf(fr.todo) :
                     Resume(t, <<RmFrame(fr.wd, next, fr.todo \ next)>> \o Rest)
               /\ UNCHANGED consumers
    /\ UNCHANGED <<kernelVars, made, alive, canceled, buff, count, on, since>>

-----------------------------------------------------------------------------
(* What the tasks do, called by the dispatcher or from the event loop.     *)

Acting(t) == \/ Top("user") /\ Head(stack).task = t
             \/ Idle /\ st[t] = "free"

\* The frames that remain when t suspends.
Callers == IF Top("user") THEN Rest ELSE stack

\* run() will not look at the waiters again: it is in cancel_consumers or over.
Over == canceled /\ read = "none" /\ ~Below("run")

\* The discipline: wait only on a watch that exists, and not after run() has
\* given up; destroy no watch from inside cancel_consumers, and that of a deleted
\* file not before its last event was pushed; neither cancel nor destroy a waiter
\* from inside the rm_watch of its watch, nor destroy one that is about to be
\* resumed.
CanWait(w) == Careful => w \in kernel /\ ~Over
CanUnwatch(w) == Careful => ~Below("cancel") /\ (open /\ w \notin kernel => ~Coming(w))
CanCancel(u) ==
    Careful => \A i \in DOMAIN stack :
                  stack[i].f = "rm" => stack[i].wd # on[u]
CanDestroy(u) == Careful => InMap(u) /\ CanCancel(u)

\* await_event_from: consumers[wd] makes the entry when there is none.  A set
\* that rm_watch is walking takes the awaitable before or after the iterator.
Wait(t, w) ==
    /\ Acting(t) /\ w <= made /\ CanWait(w)
    /\ consumers' = consumers \cup {w}
    /\ buff' = [buff EXCEPT ![w] = IF w \in consumers THEN @ ELSE "null"]
    /\ waiters' = [waiters EXCEPT ![w] = @ \cup {t}]
    /\ st' = [st EXCEPT ![t] = "waiting"]
    /\ on' = [on EXCEPT ![t] = w]
    /\ since' = [since EXCEPT ![t] = count[w]]
    /\ \E visited \in SUBSET {i \in DOMAIN Callers :
                                Callers[i].f = "rm" /\ Callers[i].wd = w
                                /\ Callers[i].next # {}} :
          stack' = [i \in DOMAIN Callers |->
                      IF i \in visited
                      THEN [Callers[i] EXCEPT !.todo = @ \cup {t}]
                      ELSE Callers[i]]
    /\ UNCHANGED <<kernelVars, made, alive, canceled, count, bad>>

\* inotify_watch's constructor: add_watch.
Watch(t) ==
    /\ Acting(t) /\ open /\ made < MaxWds
    /\ made' = made + 1
    /\ kernel' = kernel \cup {made'}
    /\ alive' = alive \cup {made'}
    /\ consumers' = consumers \cup {made'}
    /\ buff' = [buff EXCEPT ![made'] = "live"]
    /\ UNCHANGED <<queue, events, open, read, buf, canceled, waiters, count,
                   taskVars, stack, bad>>

\* Its destructor: rm_watch, which does nothing when the kernel refuses, and
\* then the buffer is freed, wherever a pointer to it is left.
Unwatch(t, w) ==
    /\ Acting(t) /\ w \in alive /\ CanUnwatch(w)
    /\ alive' = alive \ {w}
    /\ IF open /\ w \in kernel
       THEN /\ kernel' = kernel \ {w}
            /\ queue' = Append(queue, w)
            /\ IF w \in consumers THEN StartRm(w, stack) ELSE UNCHANGED stack
       ELSE UNCHANGED <<kernel, queue, stack>>
    /\ buff' = [buff EXCEPT ![w] = "freed"]
    /\ UNCHANGED <<events, open, read, buf, made, canceled, consumers, waiters,
                   count, taskVars, bad>>

\* cancel(): the awaitable is looked for in the map, and only there.
Cancel(t, u) ==
    /\ Acting(t) /\ u # t /\ st[u] = "waiting" /\ CanCancel(u)
    /\ InMap(u)
    /\ EraseWaiter(on[u], u)
    /\ st' = [st EXCEPT ![u] = "running"]
    /\ stack' = <<UserFrame(u)>> \o WithoutWaiter(on[u], u)
    /\ UNCHANGED <<kernelVars, made, alive, canceled, consumers, buff, count,
                   on, since>>

\* A suspended coroutine is destroyed: ~inotify_awaitable removes itself from the
\* map. One that was moved out of it leaves its address behind, and is "gone".
Destroy(t, u) ==
    /\ Acting(t) /\ u # t /\ st[u] = "waiting" /\ CanDestroy(u)
    /\ st' = [st EXCEPT ![u] = IF InMap(u) THEN "free" ELSE "gone"]
    /\ EraseWaiter(on[u], u)
    /\ stack' = WithoutWaiter(on[u], u)
    /\ UNCHANGED <<kernelVars, made, alive, canceled, consumers, buff, count,
                   on, since>>

\* The task suspends on something else, or ends.
Leave(t) ==
    /\ Top("user") /\ Head(stack).task = t
    /\ st' = [st EXCEPT ![t] = "free"]
    /\ stack' = Rest
    /\ UNCHANGED <<kernelVars, made, alive, canceled, mapVars, on, since, bad>>

\* stop(), called by runner_launch: the flag, the cancel request, which finds
\* the read or not, ...
Stop ==
    /\ Idle /\ ~canceled
    /\ canceled' = TRUE
    /\ read' = IF read = "pending" THEN "canceled" ELSE read
    /\ UNCHANGED <<kernel, queue, events, open, buf, made, alive, mapVars,
                   taskVars, stack, bad>>

\* ... and, when the request has completed, the close.  A read that completed
\* before the request is handled before it: the completions form a queue.
Close ==
    /\ Idle /\ canceled /\ open /\ read # "posted"
    /\ open' = FALSE
    /\ UNCHANGED <<kernel, queue, events, read, buf, made, alive, canceled,
                   mapVars, taskVars, stack, bad>>

-----------------------------------------------------------------------------
(* The kernel                                                              *)

KernelEvent(w) ==
    /\ bad = {} /\ w \in kernel /\ events < MaxEvents
    /\ events' = events + 1
    /\ queue' = Append(queue, w)
    /\ UNCHANGED <<kernel, open, read, buf, made, alive, canceled, mapVars,
                   taskVars, stack, bad>>

\* The watched file is deleted: the kernel drops the watch and says so.
KernelRemove(w) ==
    /\ bad = {} /\ w \in kernel
    /\ kernel' = kernel \ {w}
    /\ queue' = Append(queue, w)
    /\ UNCHANGED <<events, open, read, buf, made, alive, canceled, mapVars,
                   taskVars, stack, bad>>

\* The read takes as many of the events as its buffer has room for.
KernelRead ==
    /\ bad = {} /\ read = "pending" /\ queue # <<>>
    /\ read' = "posted"
    /\ \E n \in DOMAIN queue :
          /\ buf' = SubSeq(queue, 1, n)
          /\ queue' = SubSeq(queue, n + 1, Len(queue))
    /\ UNCHANGED <<kernel, events, open, made, alive, canceled, mapVars,
                   taskVars, stack, bad>>

-----------------------------------------------------------------------------
Dispatch == \/ RunEvents \/ PushEvent \/ RunNext \/ RunAgain \/ RunCanceled
            \/ WakeNext \/ CancelNext \/ RmNext

TaskStep(t) == \/ Watch(t) \/ Leave(t)
               \/ \E w \in Wds : Wait(t, w) \/ Unwatch(t, w)
               \/ \E u \in Tasks : Cancel(t, u) \/ Destroy(t, u)

Kernel == KernelRead \/ \E w \in Wds : KernelEvent(w) \/ KernelRemove(w)

\* The context is closed, or the program has crashed.
Ended == (bad # {} \/ (Idle /\ ~open)) /\ UNCHANGED vars

Next == \/ Dispatch \/ Kernel \/ Stop \/ Close \/ Ended
        \/ \E t \in Tasks : TaskStep(t)

Spec == Init /\ [][Next]_vars

\* The event loop gets to the completion of the read whatever else there is to
\* resume, and a task that runs suspends sooner or later.
FairSpec == Spec /\ SF_vars(Dispatch) /\ \A t \in Tasks : SF_vars(Leave(t))

-----------------------------------------------------------------------------
TypeOK ==
    /\ made \in 0..MaxWds /\ kernel \subseteq 1..made /\ alive \subseteq 1..made
    /\ queue \in Seq(Wds) /\ buf \in Seq(Wds)
    /\ events \in 0..MaxEvents /\ open \in BOOLEAN /\ canceled \in BOOLEAN
    /\ read \in {"pending", "posted", "canceled", "none"}
    /\ consumers \subseteq Wds
    /\ buff \in [Wds -> {"null", "live", "freed"}]
    /\ waiters \in [Wds -> SUBSET Tasks]
    /\ count \in [Wds -> Nat]
    /\ st \in [Tasks -> {"free", "waiting", "running", "gone"}]
    /\ on \in [Tasks -> Wds \cup {None}]
    /\ since \in [Tasks -> Nat]
    /\ bad \subseteq {"dangling", "rm iterator", "map iterator", "null", "freed"}

\* When the dispatcher is idle no task still waits for an event that came after
\* it began to wait: every waiter there was is resumed, also those of watches
\* that others touched during the round.
NoLostWakeup ==
    stack = <<>> /\ bad = {} =>
        \A t \in Tasks : st[t] = "waiting" /\ InMap(t) => count[on[t]] = since[t]

\* A disciplined program meets no undefined behaviour: no awaitable is resumed
\* after its end, no iterator is used after its element is erased, no event is
\* pushed into a buffer that is missing or freed.
NoBadAccess == bad = {}

\* A disciplined program has no waiter that everybody forgot: who waits is in
\* the map, or in the hands of a loop that is about to resume it.
WaiterKept ==
    \A t \in Tasks : st[t] = "waiting" =>
        \/ InMap(t)
        \/ \E i \in DOMAIN stack :
              stack[i].f \in {"wake", "cancel"} /\ t \in stack[i].todo

\* Whatever the program does, an awaitable is resumed once: only a coroutine
\* that was destroyed while it was suspended and out of the map can leave a
\* dangling one.
ResumedOnce == "dangling" \in bad => \E t \in Tasks : st[t] = "gone"

\* stop() ends the dispatcher and wakes every waiter, whether it cancels the
\* read or the read has completed already.
AllWoken == Over /\ \A t \in Tasks : st[t] # "waiting"

\* The tasks run the same code.
TaskSymmetry == Permutations(Tasks)

=============================================================================
