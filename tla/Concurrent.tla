----------------------------- MODULE Concurrent -----------------------------
(***************************************************************************)
(* concurrent<ReturnT, MaxTasks>: a fixed number of slots, each with a     *)
(* task and a background coroutine that waits for it, and select(), which  *)
(* hands out the tasks as they complete.  A completion runs the background *)
(* coroutine, which calls notify(), which resumes a waiting select() before*)
(* the background coroutine itself has returned.                           *)
(***************************************************************************)
EXTENDS Integers, Sequences, FiniteSets

CONSTANTS
    Items,      \* the tasks given to the constructor or to push()
    MaxTasks,
    NoItem

ConcurrentAssumption == MaxTasks \in Nat \ {0} /\ NoItem \notin Items

Slots == 1..MaxTasks

VARIABLES
    finished,   \* the tasks whose coroutine has ended
    pushed,     \* the tasks that were given to the selector
    item,       \* [Slots -> states[i]._task]
    bg,         \* [Slots -> background_tasks[i]]
    ready,      \* ready_indices_
    awaiting,   \* awaiting_handle_ is set
    remaining,  \* remaining_
    sel,        \* select(): not called, in its awaiter, in the background task
    got,        \* the index that the awaiter returned, 0 for none
    taken       \* what the calls of select() have returned

vars == <<finished, pushed, item, bg, ready, awaiting, remaining, sel, got, taken>>

BgStates  == {"empty",      \* no coroutine
              "waiting",    \* suspended on its task
              "returning",  \* in notify()
              "done"}       \* returned
SelStates == {"outside", "awaiter", "background"}

Init ==
    /\ finished = {} /\ pushed = {}
    /\ item = [i \in Slots |-> NoItem]
    /\ bg = [i \in Slots |-> "empty"]
    /\ ready = <<>> /\ awaiting = FALSE /\ remaining = 0
    /\ sel = "outside" /\ got = 0 /\ taken = <<>>

\* A background coroutine is running: the thread does nothing else meanwhile.
Busy == \E i \in Slots : bg[i] = "returning"

\* The end of select(): the slot is cleared and its task is returned.
Deliver(i) ==
    /\ bg' = [bg EXCEPT ![i] = "empty"]
    /\ item' = [item EXCEPT ![i] = NoItem]
    /\ taken' = Append(taken, item[i])
    /\ sel' = "outside" /\ got' = 0

\* Mutation: the index that became ready last is taken.
PopLast(i) ==
    /\ i = ready[Len(ready)]
    /\ ready' = SubSeq(ready, 1, Len(ready) - 1)
    /\ remaining' = remaining - 1

\* Mutation: the slot stays counted.
PopUncounted(i) ==
    /\ i = Head(ready)
    /\ ready' = Tail(ready)
    /\ UNCHANGED remaining

\* awaiter::await_resume.
Pop(i) ==
    /\ i = Head(ready)
    /\ ready' = Tail(ready)
    /\ remaining' = remaining - 1

\* Mutation: the empty slot is looked for among the ready ones too.
PushAnySlot(x) ==
    /\ ~Busy /\ x \notin pushed
    /\ remaining < MaxTasks
    /\ ~(awaiting /\ x \in finished)
    /\ \E i \in Slots :
          /\ bg[i] \in {"empty", "done"} /\ \A j \in 1..(i - 1) : bg[j] # "empty"
          /\ item' = [item EXCEPT ![i] = x]
          /\ bg' = [bg EXCEPT ![i] = IF x \in finished THEN "done" ELSE "waiting"]
          /\ ready' = IF x \in finished THEN Append(ready, i) ELSE ready
    /\ remaining' = remaining + 1
    /\ pushed' = pushed \cup {x}
    /\ UNCHANGED <<finished, awaiting, sel, got, taken>>

\* push() into the first empty slot: run_background starts at once and, when
\* the task has ended before, notifies and returns at once.  Not called with
\* such a task while a select() waits, which would resume it too early.
Push(x) ==
    /\ ~Busy /\ x \notin pushed
    /\ remaining < MaxTasks
    /\ ~(awaiting /\ x \in finished)
    /\ \E i \in Slots :
          /\ bg[i] = "empty" /\ \A j \in 1..(i - 1) : bg[j] # "empty"
          /\ item' = [item EXCEPT ![i] = x]
          /\ bg' = [bg EXCEPT ![i] = IF x \in finished THEN "done" ELSE "waiting"]
          /\ ready' = IF x \in finished THEN Append(ready, i) ELSE ready
    /\ remaining' = remaining + 1
    /\ pushed' = pushed \cup {x}
    /\ UNCHANGED <<finished, awaiting, sel, got, taken>>

\* A task ends.  If it is in a slot its background coroutine goes on, and
\* notify() puts the index into the queue.
Finish(x) ==
    /\ ~Busy /\ x \notin finished
    /\ finished' = finished \cup {x}
    /\ \/ /\ \A i \in Slots : item[i] # x
          /\ UNCHANGED <<bg, ready>>
       \/ \E i \in Slots :
             /\ item[i] = x
             /\ bg' = [bg EXCEPT ![i] = "returning"]
             /\ ready' = Append(ready, i)
    /\ UNCHANGED <<pushed, item, awaiting, remaining, sel, got, taken>>

\* Mutation: the handle is cleared and not resumed.
ResumeForgotten ==
    /\ Busy /\ awaiting
    /\ awaiting' = FALSE
    /\ UNCHANGED <<finished, pushed, item, bg, ready, remaining, sel, got, taken>>

\* The rest of notify(): the waiting select() takes its index and suspends
\* again, on the background coroutine that is running below it.
Resume ==
    /\ Busy /\ awaiting
    /\ awaiting' = FALSE
    /\ \E i \in Slots :
          /\ Pop(i)
          /\ IF bg[i] = "done"
             THEN Deliver(i)
             ELSE sel' = "background" /\ got' = i /\ UNCHANGED <<item, bg, taken>>
    /\ UNCHANGED <<finished, pushed>>

\* The background coroutine returns; a select() that awaits it goes on.
Return ==
    /\ ~awaiting
    /\ \E i \in Slots :
          /\ bg[i] = "returning"
          /\ IF got = i
             THEN Deliver(i)
             ELSE bg' = [bg EXCEPT ![i] = "done"] /\ UNCHANGED <<item, taken, sel, got>>
    /\ UNCHANGED <<finished, pushed, ready, awaiting, remaining>>

\* Mutation: the awaiter suspends without a look at the queue.
SelectUnready ==
    /\ ~Busy /\ sel = "outside" /\ remaining # 0
    /\ sel' = "awaiter" /\ awaiting' = TRUE
    /\ UNCHANGED <<finished, pushed, item, bg, ready, remaining, got, taken>>

\* The thread does something else; a select() of a selector without tasks is
\* such a thing, it returns nothing and at once.
Elsewhere == ~Busy /\ UNCHANGED vars

\* select() of a selector that has tasks.
Select ==
    /\ ~Busy /\ sel = "outside" /\ remaining # 0
    /\ IF ready # <<>>
       THEN /\ \E i \in Slots : Pop(i) /\ Deliver(i)
            /\ UNCHANGED awaiting
       ELSE /\ sel' = "awaiter" /\ awaiting' = TRUE
            /\ UNCHANGED <<item, bg, ready, remaining, got, taken>>
    /\ UNCHANGED <<finished, pushed>>

Next == Resume \/ Return \/ Select \/ Elsewhere
        \/ \E x \in Items : Push(x) \/ Finish(x)

Spec == Init /\ [][Next]_vars

\* The thread finishes what it is doing, and the program calls select() again.
FairSpec == Spec /\ WF_vars(Resume) /\ WF_vars(Return) /\ WF_vars(Select)

-----------------------------------------------------------------------------
TypeOK ==
    /\ finished \subseteq Items /\ pushed \subseteq Items
    /\ item \in [Slots -> Items \cup {NoItem}]
    /\ bg \in [Slots -> BgStates]
    /\ ready \in Seq(Slots)
    /\ awaiting \in BOOLEAN
    /\ remaining \in 0..MaxTasks
    /\ sel \in SelStates
    /\ got \in Slots \cup {0}
    /\ taken \in Seq(Items)

\* Between two completions the counter tells how many slots are in use, so the
\* test of remaining_ in push() is as good as the search for an empty slot.
RemainingCounts ==
    ~Busy => remaining = Cardinality({i \in Slots : bg[i] # "empty"})

\* A select() that waits has nothing to take: no completion was missed between
\* await_ready and await_suspend or between two calls of select().
WaitsForNothing ==
    /\ sel = "awaiter" <=> awaiting
    /\ awaiting /\ ~Busy => ready = <<>>

\* Every index in the queue stands for one completed task that nobody took.
ReadyOnce ==
    /\ \A k, l \in DOMAIN ready : ready[k] = ready[l] => k = l
    /\ \A k \in DOMAIN ready : bg[ready[k]] \in {"returning", "done"} /\ ready[k] # got

\* The slots, the queue and the two suspensions of select() implement a queue
\* of completions: each task is returned once, in the order of completion.
Q == INSTANCE CompletionQueue WITH
        working <- {item[i] : i \in {j \in Slots : bg[j] = "waiting"}},
        ready <- (IF got = 0 THEN <<>> ELSE <<item[got]>>)
                    \o [k \in 1..Len(ready) |-> item[ready[k]]],
        taken <- taken
IsQueue == Q!Spec

\* A task that was given to the selector and has ended is returned.
Taken(x) == \E k \in DOMAIN taken : taken[k] = x
=============================================================================
