--------------------------- MODULE RecursiveDirWatch ---------------------------
(***************************************************************************)
(* recursive_dir_watch follows a path whose components come and go.  Each  *)
(* existing component has a watch and a task that waits for it; the tasks  *)
(* run in a concurrent<>, and poll() handles their completions: an event of *)
(* a component tells whether the next one appeared or vanished.            *)
(*                                                                         *)
(* Directories are inodes, numbered as they are created.  The file system  *)
(* is external: it creates and removes a component, or moves it away and    *)
(* back with everything below it.                                          *)
(***************************************************************************)
EXTENDS Integers, Sequences, FiniteSets, SequencesExt

CONSTANTS
    N,          \* the components, 1 is the root, which is never removed
    MaxInodes,  \* bound: the directories ever created
    MaxChanges, \* bound: the changes of the file system
    Slots,      \* max_components, the tasks that concurrent<> holds: 32
    Careful     \* the file system only changes when all changes are handled

RecursiveAssumption == N \in Nat \ {0, 1} /\ Slots \in Nat \ {0} /\ Careful \in BOOLEAN

Levels == 1..N
Nothing == 0

VARIABLES
    dirs,       \* the inode of each component of the path, Nothing if it is absent
    away,       \* the inodes of the components that were moved away
    made, changes,      \* the inodes created and the changes made
    kwatch, kq,         \* the watches and the queue of events of the kernel
    resume,     \* resume_wds of the dispatcher
    watch,      \* the inode that _components[i].watcher watches
    evs,        \* the events that its poller has not seen
    tasks,      \* the tasks that wait: their component, the inode they wait for
    cp,         \* the task that _components[i].cp names
    ready,      \* completions of the tasks: component, and whether canceled
    pc, at,     \* the caller's own code, or where poll() is; the component it is at
    out,        \* what poll() returned last, or "full" for an exception
    refused     \* history: the components whose last task found no slot

fsvars == <<dirs, away, made, changes, kwatch, kq>>
compvars == <<watch, evs, cp>>
vars == <<fsvars, compvars, resume, tasks, ready, pc, at, out, refused>>

Exists(i) == i \in Levels /\ dirs[i] # Nothing
Task(i, ino, n) == [comp |-> i, ino |-> ino, id |-> n]
FreeId == CHOOSE n \in 1..(Cardinality(tasks) + 1) : \A t \in tasks : t.id # n

\* The waiters of a watch are a set of pointers: a walk comes by them in any order.
Orders(set) == Bijection(1..Cardinality(set), set)
Completions(seq, cancel) == [k \in DOMAIN seq |-> [comp |-> seq[k].comp, cancel |-> cancel]]

Init ==
    /\ dirs = [i \in Levels |-> IF i = 1 THEN 1 ELSE Nothing]
    /\ away = [i \in Levels |-> Nothing]
    /\ made = 1 /\ changes = 0 /\ kwatch = {1} /\ kq = <<>> /\ resume = <<>>
    /\ watch = [i \in Levels |-> IF i = 1 THEN 1 ELSE Nothing]
    /\ evs = [i \in Levels |-> <<>>]
    /\ tasks = {Task(1, 1, 1)} /\ cp = [i \in Levels |-> IF i = 1 THEN 1 ELSE Nothing]
    /\ ready = <<>> /\ pc = "user" /\ at = 1 /\ out = "none" /\ refused = {}

\* Everything that happened was handled and poll() waits in select().
Quiet == kq = <<>> /\ resume = <<>> /\ ready = <<>> /\ pc = "select"

-----------------------------------------------------------------------------
(* External: the file system.                                              *)

Emit(events) == kq' = kq \o SelectSeq(events, LAMBDA e : e.ino \in kwatch)
Event(ino, what) == [ino |-> ino, what |-> what]

Change == /\ changes < MaxChanges /\ (Careful => Quiet) /\ pc # "crashed"
          /\ changes' = changes + 1
          /\ UNCHANGED <<compvars, resume, tasks, ready, pc, at, out, refused>>

Create(i) ==
    /\ Change /\ ~Exists(i) /\ Exists(i - 1) /\ made < MaxInodes
    /\ made' = made + 1
    /\ dirs' = [dirs EXCEPT ![i] = made + 1]
    /\ Emit(<<Event(dirs[i - 1], "create")>>)
    /\ UNCHANGED <<away, kwatch>>

\* The kernel drops the watch of a directory that is removed.
RemoveDir(i) ==
    /\ Change /\ Exists(i) /\ (i < N => ~Exists(i + 1))
    /\ dirs' = [dirs EXCEPT ![i] = Nothing]
    /\ Emit(<<Event(dirs[i - 1], "delete"), Event(dirs[i], "self")>>)
    /\ kwatch' = kwatch \ {dirs[i]}
    /\ UNCHANGED <<away, made>>

MoveAway(i) ==
    /\ Change /\ Exists(i) /\ \A j \in Levels : away[j] = Nothing
    /\ away' = [j \in Levels |-> IF j >= i THEN dirs[j] ELSE Nothing]
    /\ dirs' = [j \in Levels |-> IF j >= i THEN Nothing ELSE dirs[j]]
    /\ Emit(<<Event(dirs[i - 1], "from"), Event(dirs[i], "self")>>)
    /\ UNCHANGED <<made, kwatch>>

MoveBack(i) ==
    /\ Change /\ away[i] # Nothing /\ away[i - 1] = Nothing
    /\ Exists(i - 1) /\ ~Exists(i)
    /\ dirs' = [j \in Levels |-> IF j >= i THEN away[j] ELSE dirs[j]]
    /\ away' = [j \in Levels |-> Nothing]
    /\ Emit(<<Event(dirs[i - 1], "to"), Event(away[i], "self")>>)
    /\ UNCHANGED <<made, kwatch>>

\* A file in the last directory.
Touch ==
    /\ Change /\ Exists(N)
    /\ Emit(<<Event(dirs[N], "file")>>)
    /\ UNCHANGED <<dirs, away, made, kwatch>>

FileSystem == Touch \/ \E i \in 2..N : Create(i) \/ RemoveDir(i) \/ MoveAway(i) \/ MoveBack(i)

-----------------------------------------------------------------------------
(* The dispatcher: a read of n events, then the waiters of their watches.  *)

PollRuns == pc \in {"init", "crashed"} \/ (pc = "select" /\ ready # <<>>)

Dispatch(n) ==
    /\ ~PollRuns /\ resume = <<>> /\ n \in 1..Len(kq)
    /\ kq' = SubSeq(kq, n + 1, Len(kq))
    /\ evs' = [i \in Levels |->
                 evs[i] \o SelectSeq(SubSeq(kq, 1, n), LAMBDA e : e.ino = watch[i])]
    /\ resume' = [k \in 1..n |-> kq[k].ino]
    /\ UNCHANGED <<dirs, away, made, changes, kwatch, watch, cp, tasks, ready, pc, at, out, refused>>

ResumeConsumer ==
    /\ ~PollRuns /\ resume # <<>>
    /\ LET woken == {t \in tasks : t.ino = Head(resume)}
       IN  /\ tasks' = tasks \ woken
           /\ \E seq \in Orders(woken) : ready' = ready \o Completions(seq, FALSE)
    /\ resume' = Tail(resume)
    /\ UNCHANGED <<fsvars, compvars, pc, at, out, refused>>

-----------------------------------------------------------------------------
(* poll().                                                                  *)

\* The caller awaits poll(), which awaits select().
Poll == /\ pc = "user"
        /\ pc' = "select"
        /\ UNCHANGED <<fsvars, compvars, resume, tasks, ready, at, out, refused>>

Returns(what) == pc' = "user" /\ out' = what
LoopsOn == pc' = "select" /\ UNCHANGED out

\* A slot of concurrent<> is taken from push() to select(), by a task that
\* waits or by one of n completions.
SlotFree(n) == Cardinality(tasks) + n < Slots

\* schedule_component: a new task, whose cancelation point is kept.
Schedule(i, remaining) ==
    /\ tasks' = remaining \cup {Task(i, watch'[i], FreeId)}
    /\ cp' = [cp EXCEPT ![i] = FreeId] /\ refused' = refused \ {i}

\* push() throws, out of init() and poll(): the task runs on as one that no one
\* selects, and the caller has an exception.
Refused(i, remaining) ==
    /\ tasks' = remaining /\ cp' = [cp EXCEPT ![i] = FreeId]
    /\ refused' = refused \cup {i} /\ Returns("full") /\ at' = 1

\* Giving up the watcher of a component removes the watch unless the kernel has
\* done so, and only then are the waiters of the watch canceled.
Abandoned(ino) == IF ino \in kwatch THEN {t \in tasks : t.ino = ino} ELSE {}

\* A canceled task: its component is reset.
HandleCanceled(i) ==
    /\ watch' = [watch EXCEPT ![i] = Nothing]
    /\ evs' = [evs EXCEPT ![i] = <<>>]
    /\ cp' = [cp EXCEPT ![i] = Nothing]
    /\ kwatch' = kwatch \ {watch[i]}
    /\ tasks' = tasks \ Abandoned(watch[i])
    /\ \E seq \in Orders(Abandoned(watch[i])) : ready' = Tail(ready) \o Completions(seq, TRUE)
    /\ LoopsOn
    /\ UNCHANGED <<dirs, away, made, changes, kq, at, refused>>

\* handle_component: what the events of component i say of the next one.
Verdict(v, e) ==
    CASE e.what = "from" -> IF v = "create_child" THEN "reschedule" ELSE "destroy_child"
      [] e.what = "to" -> IF v = "destroy_child" THEN "reschedule" ELSE "create_child"
      [] e.what = "create" -> "create_child"
      [] e.what = "delete" -> "destroy_child"
      [] OTHER -> v

VerdictOf(i) == FoldLeft(Verdict, "reschedule", evs[i])

InOrder(seq) == \A j, k \in DOMAIN seq : j < k => seq[j].comp < seq[k].comp

\* Mutation: only the next component is canceled.
DestroyOne(i) ==
    LET named == {t \in tasks : t.comp = i + 1 /\ t.id = cp[t.comp]}
    IN  /\ Schedule(i, tasks \ named)
        /\ \E seq \in Orders(named) :
              InOrder(seq) /\ ready' = Tail(ready) \o Completions(seq, TRUE)
        /\ Returns("gone") /\ UNCHANGED at

\* destroy_child: the tasks of all deeper components are canceled, by the
\* cancelation point of the last one that was scheduled.
DestroyChild(i) ==
    LET named == {t \in tasks : t.comp > i /\ t.id = cp[t.comp]}
    IN  /\ Schedule(i, tasks \ named)
        /\ \E seq \in Orders(named) :
              InOrder(seq) /\ ready' = Tail(ready) \o Completions(seq, TRUE)
        /\ Returns("gone") /\ UNCHANGED at

\* create_child: the deeper components are initialised, from the next one on.
CreateChild(i) ==
    /\ Schedule(i, tasks)
    /\ ready' = Tail(ready)
    /\ pc' = "init" /\ at' = i + 1 /\ UNCHANGED out

\* Mutation: an event that changes nothing ends the task of the component.
RescheduleNot(i) == UNCHANGED <<tasks, cp, at, refused>> /\ ready' = Tail(ready) /\ LoopsOn

Reschedule(i) ==
    /\ Schedule(i, tasks)
    /\ ready' = Tail(ready)
    /\ LoopsOn /\ UNCHANGED at

\* Mutation: the last component is not scheduled again after an event.
HandleFinalOnce ==
    /\ UNCHANGED <<tasks, cp, refused>>
    /\ ready' = Tail(ready)
    /\ IF evs[N] = <<>> THEN LoopsOn ELSE Returns("events")
    /\ UNCHANGED at

\* handle_final_component.
HandleFinal ==
    /\ Schedule(N, tasks)
    /\ ready' = Tail(ready)
    /\ IF evs[N] = <<>> THEN LoopsOn ELSE Returns("events")
    /\ UNCHANGED at

\* What happened to a component that is watched; the slot of the task that has
\* completed is free again.
HandleEvents(i) ==
    /\ UNCHANGED <<fsvars, watch>> /\ evs' = [evs EXCEPT ![i] = <<>>]
    /\ IF ~SlotFree(Len(ready) - 1) THEN ready' = Tail(ready) /\ Refused(i, tasks)
       ELSE IF i = N THEN HandleFinal
       ELSE CASE VerdictOf(i) = "destroy_child" -> DestroyChild(i)
              [] VerdictOf(i) = "create_child" -> CreateChild(i)
              [] OTHER -> Reschedule(i)

\* handle_component and handle_final_component read the events through the
\* poller: that of a component that was reset has no watch, which is undefined.
HandleReset ==
    /\ pc' = "crashed"
    /\ UNCHANGED <<fsvars, compvars, tasks, ready, at, out, refused>>

Handle ==
    /\ pc = "select" /\ ready # <<>>
    /\ LET i == ready[1].comp
       IN  IF ready[1].cancel THEN HandleCanceled(i)
           ELSE IF watch[i] = Nothing THEN HandleReset ELSE HandleEvents(i)
    /\ UNCHANGED resume

\* One turn of the loop of init: a watcher of the directory that is at the path
\* now, in place of the old one, which shares its watch if the inode is the same.
InitStep ==
    /\ pc = "init" /\ at <= N /\ Exists(at)
    /\ LET old  == IF watch[at] = dirs[at] THEN Nothing ELSE watch[at]
       IN  /\ watch' = [watch EXCEPT ![at] = dirs[at]]
           /\ kwatch' = (kwatch \ {old}) \cup {dirs[at]}
           /\ evs' = [evs EXCEPT ![at] = <<>>]
           /\ \E seq \in Orders(Abandoned(old)) : ready' = ready \o Completions(seq, TRUE)
           /\ IF SlotFree(Len(ready)) THEN Schedule(at, tasks \ Abandoned(old)) /\ at' = at + 1 /\ UNCHANGED <<pc, out>>
              ELSE Refused(at, tasks \ Abandoned(old))
    /\ UNCHANGED <<dirs, away, made, changes, kq, resume>>

\* The end of init, at the end of the path or at a component that is absent,
\* and the listing of the last directory, which may be empty.
InitEnds ==
    /\ pc = "init" /\ (at > N \/ ~Exists(at))
    /\ at' = 1
    /\ LoopsOn \/ (at > N /\ Returns("listing"))
    /\ UNCHANGED <<fsvars, compvars, resume, tasks, ready, refused>>

Dispatcher == ResumeConsumer \/ \E n \in 1..Len(kq) : Dispatch(n)
Poller == Poll \/ Handle \/ InitStep \/ InitEnds

Next == FileSystem \/ Dispatcher \/ Poller

Spec == Init /\ [][Next]_vars /\ WF_vars(Dispatcher) /\ WF_vars(Poller)

-----------------------------------------------------------------------------
TasksOf(i) == {t \in tasks : t.comp = i}
CompletionsOf(i) == {k \in DOMAIN ready : ready[k].comp = i}

TypeOK ==
    /\ dirs \in [Levels -> 0..MaxInodes] /\ watch \in [Levels -> 0..MaxInodes]
    /\ pc \in {"user", "select", "init", "crashed"} /\ at \in 1..(N + 1)
    /\ \A t \in tasks : t.comp \in Levels /\ t.ino \in 1..MaxInodes
    /\ \A i \in Levels : cp[i] = Nothing <=> watch[i] = Nothing
    /\ refused \subseteq Levels

\* The watch of the root survives whatever happens below it, also an exception
\* for want of a slot: one task waits for it, or has completed and is going to
\* be handled, unless the program has ended by then.
RootPending ==
    \/ CompletionsOf(1) = {} /\ \E t \in tasks : TasksOf(1) = {t}
    \/ TasksOf(1) = {} /\ \E k \in DOMAIN ready : CompletionsOf(1) = {k}

\* A component with a watch has a task, waiting or completed: select() cannot
\* forget a component whose directory still exists.  Only one for which init()
\* found no slot is without; it is never one that poll() schedules again.
WatchedIsPending ==
    /\ \A i \in Levels : watch[i] # Nothing => TasksOf(i) # {} \/ CompletionsOf(i) # {} \/ i \in refused
    /\ Cardinality(tasks) + Len(ready) <= Slots

\* When changes come one at a time and poll() is called again, the components
\* that exist are watched, each by one waiting task, and no others are; and no
\* component is handled that was reset.
Follows ==
    /\ pc # "crashed"
    /\ Quiet => \A i \in Levels : /\ watch[i] = dirs[i]
                                  /\ {t.ino : t \in TasksOf(i)} = {dirs[i]} \ {Nothing}
                                  /\ Cardinality(TasksOf(i)) <= 1

=============================================================================
