------------------------------- MODULE MCFiles -------------------------------
(*****************************************************************************)
(* Directories, processes and the buffers of files for TLC. A behaviour is   *)
(* of one of them, and the specification is the union of theirs.             *)
(*****************************************************************************)
EXTENDS Integers, Sequences

CONSTANT Unused   \* the value of the variables of the parts that do not run

CONSTANTS
    Watchers, Dirs, NoDir, MakeFails,               \* the users of directory watches
    Components, MaxInodes, MaxChanges, MaxFewer, Slots,     \* the recursive watch
    OutBS, MaxLen, MaxBytes, ShortWrites,           \* the buffer of an output file
    InBS, Length, MaxCount, Sizes,                  \* the buffers of input files
    Strings, ReadBS, PipeSize, MaxOut,              \* processes
    WaitInput, WaitErr, RunInput, RunErr

VARIABLES
    part,   \* the part that runs in this behaviour
    ws, alive, id, failed, dirs, away, made, changes, kwatch, kq, resume, watch, evs, tasks, cp,
    refused, ready, pc, at, out, file, fpos, buff, pos, todo, to, wrote, next, intended, size, partial,
    last, child, pipe, doing, taken, got, left, batch, shutdown, len

vars == <<part, ws, alive, id, failed, dirs, away, made, changes, kwatch, kq, resume, watch, evs,
          tasks, cp, refused, ready, pc, at, out, file, fpos, buff, pos, todo, to, wrote, next, intended,
          size, partial, last, child, pipe, doing, taken, got, left, batch, shutdown, len>>

\* The watchers and the directories.
Singleton == INSTANCE DirWatch

\* The path, whose changes come one at a time.
Recursive == INSTANCE RecursiveDirWatch WITH
    N <- Components, Careful <- TRUE

\* The path changed at any time.
Unsettled == INSTANCE RecursiveDirWatch WITH
    N <- Components, MaxChanges <- MaxFewer, Careful <- FALSE

\* The buffer of an output file.
Out == INSTANCE OutBuffer WITH
    BS <- OutBS, Short <- ShortWrites

\* The buffer of an input file whose reads are complete.
In == INSTANCE InBuffer WITH
    BS <- InBS, Short <- FALSE

\* The same with reads that give less than they were asked for.
InShort == INSTANCE InBuffer WITH
    BS <- InBS, Short <- TRUE

\* A process that is waited for.
Wait == INSTANCE Process WITH
    Async <- FALSE, BS <- ReadBS, Input <- WaitInput, MaxErr <- WaitErr

\* A process under an event loop.
Run == INSTANCE Process WITH
    Async <- TRUE, BS <- ReadBS, Input <- RunInput, MaxErr <- RunErr

ASSUME MCFilesAssumption ==
    /\ Singleton!DirWatchAssumption /\ Recursive!RecursiveAssumption
    /\ Unsettled!RecursiveAssumption /\ Out!OutAssumption /\ In!InAssumption
    /\ InShort!InAssumption /\ Wait!ProcessAssumption /\ Run!ProcessAssumption

-----------------------------------------------------------------------------

NotDirWatch == <<dirs, away, made, changes, kwatch, kq, resume, watch, evs, tasks, cp, refused, ready,
                 pc, at, out, file, fpos, buff, pos, todo, to, wrote, next, intended, size,
                 partial, last, child, pipe, doing, taken, got, left, batch, shutdown, len>>
NoDirWatch ==
    /\ ws = Unused /\ alive = Unused /\ id = Unused /\ failed = Unused
NotRecursiveDirWatch == <<ws, alive, id, failed, file, fpos, buff, pos, todo, to, wrote, next,
                          intended, size, partial, last, child, pipe, doing, taken, got, left,
                          batch, shutdown, len>>
NoRecursiveDirWatch ==
    /\ dirs = Unused /\ away = Unused /\ made = Unused /\ changes = Unused /\ kwatch = Unused
    /\ kq = Unused /\ resume = Unused /\ watch = Unused /\ evs = Unused /\ tasks = Unused
    /\ cp = Unused /\ refused = Unused /\ ready = Unused /\ pc = Unused /\ at = Unused /\ out = Unused
NotOutBuffer == <<ws, alive, id, failed, dirs, away, made, changes, kwatch, kq, resume, watch,
                  evs, tasks, cp, refused, ready, at, out, size, partial, last, child, pipe, doing,
                  taken, got, left, batch, shutdown, len>>
NotInBuffer == <<ws, alive, id, failed, dirs, away, made, changes, kwatch, kq, resume, watch,
                 evs, tasks, cp, refused, ready, pc, at, file, todo, to, wrote, next, intended, child,
                 pipe, doing, taken, got, left, batch, shutdown, len>>
NoInBuffer ==
    /\ fpos = Unused /\ buff = Unused /\ pos = Unused /\ size = Unused /\ out = Unused
    /\ partial = Unused /\ last = Unused
NotProcess == <<ws, alive, id, failed, dirs, away, made, changes, kwatch, kq, resume, watch,
                evs, tasks, cp, refused, ready, at, out, file, fpos, buff, pos, todo, to, next, intended,
                size, partial, last>>
NoProcess ==
    /\ child = Unused /\ pipe = Unused /\ doing = Unused /\ taken = Unused /\ wrote = Unused
    /\ got = Unused /\ left = Unused /\ pc = Unused /\ batch = Unused /\ shutdown = Unused
    /\ len = Unused

Init ==
    \/ /\ part = "watchers" /\ Singleton!Init /\ NoRecursiveDirWatch /\ file = Unused
       /\ fpos = Unused /\ buff = Unused /\ pos = Unused /\ todo = Unused /\ to = Unused
       /\ wrote = Unused /\ next = Unused /\ intended = Unused /\ size = Unused
       /\ partial = Unused /\ last = Unused /\ child = Unused /\ pipe = Unused /\ doing = Unused
       /\ taken = Unused /\ got = Unused /\ left = Unused /\ batch = Unused /\ shutdown = Unused
       /\ len = Unused
    \/ /\ part = "recursive" /\ Recursive!Init /\ NoDirWatch /\ file = Unused /\ fpos = Unused
       /\ buff = Unused /\ pos = Unused /\ todo = Unused /\ to = Unused /\ wrote = Unused
       /\ next = Unused /\ intended = Unused /\ size = Unused /\ partial = Unused /\ last = Unused
       /\ child = Unused /\ pipe = Unused /\ doing = Unused /\ taken = Unused /\ got = Unused
       /\ left = Unused /\ batch = Unused /\ shutdown = Unused /\ len = Unused
    \/ /\ part = "recursive any" /\ Unsettled!Init /\ NoDirWatch /\ file = Unused /\ fpos = Unused
       /\ buff = Unused /\ pos = Unused /\ todo = Unused /\ to = Unused /\ wrote = Unused
       /\ next = Unused /\ intended = Unused /\ size = Unused /\ partial = Unused /\ last = Unused
       /\ child = Unused /\ pipe = Unused /\ doing = Unused /\ taken = Unused /\ got = Unused
       /\ left = Unused /\ batch = Unused /\ shutdown = Unused /\ len = Unused
    \/ /\ part = "out" /\ Out!Init /\ NoDirWatch /\ dirs = Unused /\ away = Unused
       /\ made = Unused /\ changes = Unused /\ kwatch = Unused /\ kq = Unused /\ resume = Unused
       /\ watch = Unused /\ evs = Unused /\ tasks = Unused /\ cp = Unused /\ refused = Unused /\ ready = Unused
       /\ at = Unused /\ out = Unused /\ size = Unused /\ partial = Unused /\ last = Unused
       /\ child = Unused /\ pipe = Unused /\ doing = Unused /\ taken = Unused /\ got = Unused
       /\ left = Unused /\ batch = Unused /\ shutdown = Unused /\ len = Unused
    \/ /\ part = "in" /\ In!Init /\ NoDirWatch /\ NoProcess /\ dirs = Unused /\ away = Unused
       /\ made = Unused /\ changes = Unused /\ kwatch = Unused /\ kq = Unused /\ resume = Unused
       /\ watch = Unused /\ evs = Unused /\ tasks = Unused /\ cp = Unused /\ refused = Unused /\ ready = Unused
       /\ at = Unused /\ file = Unused /\ todo = Unused /\ to = Unused /\ next = Unused
       /\ intended = Unused
    \/ /\ part = "in short" /\ InShort!Init /\ NoDirWatch /\ NoProcess /\ dirs = Unused
       /\ away = Unused /\ made = Unused /\ changes = Unused /\ kwatch = Unused /\ kq = Unused
       /\ resume = Unused /\ watch = Unused /\ evs = Unused /\ tasks = Unused /\ cp = Unused /\ refused = Unused
       /\ ready = Unused /\ at = Unused /\ file = Unused /\ todo = Unused /\ to = Unused
       /\ next = Unused /\ intended = Unused
    \/ /\ part = "wait" /\ Wait!Init /\ NoDirWatch /\ NoInBuffer /\ dirs = Unused /\ away = Unused
       /\ made = Unused /\ changes = Unused /\ kwatch = Unused /\ kq = Unused /\ resume = Unused
       /\ watch = Unused /\ evs = Unused /\ tasks = Unused /\ cp = Unused /\ refused = Unused /\ ready = Unused
       /\ at = Unused /\ file = Unused /\ todo = Unused /\ to = Unused /\ next = Unused
       /\ intended = Unused
    \/ /\ part = "async" /\ Run!Init /\ NoDirWatch /\ NoInBuffer /\ dirs = Unused /\ away = Unused
       /\ made = Unused /\ changes = Unused /\ kwatch = Unused /\ kq = Unused /\ resume = Unused
       /\ watch = Unused /\ evs = Unused /\ tasks = Unused /\ cp = Unused /\ refused = Unused /\ ready = Unused
       /\ at = Unused /\ file = Unused /\ todo = Unused /\ to = Unused /\ next = Unused
       /\ intended = Unused

SingletonStep == part = "watchers" /\ Singleton!Next /\ UNCHANGED <<part, NotDirWatch>>
RecursiveStep == part = "recursive" /\ Recursive!Next /\ UNCHANGED <<part, NotRecursiveDirWatch>>
UnsettledStep == part = "recursive any" /\ Unsettled!Next /\ UNCHANGED <<part, NotRecursiveDirWatch>>
OutStep == part = "out" /\ Out!Next /\ UNCHANGED <<part, NotOutBuffer>>
InStep == part = "in" /\ In!Next /\ UNCHANGED <<part, NotInBuffer>>
InShortStep == part = "in short" /\ InShort!Next /\ UNCHANGED <<part, NotInBuffer>>
WaitStep == part = "wait" /\ Wait!Next /\ UNCHANGED <<part, NotProcess>>
RunStep == part = "async" /\ Run!Next /\ UNCHANGED <<part, NotProcess>>

\* These may stop; the others never do.
Rests == part \in {"watchers", "recursive", "recursive any", "wait", "async"} /\ UNCHANGED vars

Next == \/ SingletonStep \/ RecursiveStep \/ UnsettledStep \/ OutStep \/ InStep \/ InShortStep
        \/ WaitStep \/ RunStep \/ Rests

Spec ==
    /\ Init /\ [][Next]_vars
    /\ WF_vars(part = "recursive" /\ Recursive!Dispatcher /\ UNCHANGED <<part, NotRecursiveDirWatch>>)
    /\ WF_vars(part = "recursive" /\ Recursive!Poller /\ UNCHANGED <<part, NotRecursiveDirWatch>>)
    /\ WF_vars(part = "wait" /\ Wait!Parent /\ UNCHANGED <<part, NotProcess>>)
    /\ WF_vars(part = "wait" /\ Wait!Child /\ UNCHANGED <<part, NotProcess>>)
    /\ WF_vars(part = "async" /\ Run!Parent /\ UNCHANGED <<part, NotProcess>>)
    /\ WF_vars(part = "async" /\ Run!Child /\ UNCHANGED <<part, NotProcess>>)

-----------------------------------------------------------------------------
\* Directory watches: the users of a directory are the watchers that hold it,
\* and only a failed inotify_add_watch leads to a watch that was never made.
UsersCounted ==
    part = "watchers" => Singleton!TypeOK /\ Singleton!UsersCounted /\ Singleton!EndsAfterFailure

\* Recursive watch: when it rests the existing components are watched, by one
\* task each, and no event of a component that was reset is ever handled.
Follows == part = "recursive" => Recursive!TypeOK /\ Recursive!Follows

\* Recursive watch: whatever changes and when, and until the program ends at a
\* null watch, one task or one completion is there for the first component, and
\* one at least for every other that is watched, unless init() found no slot for
\* its task; poll() finds one for every task it schedules again.
WatchedIsPending ==
    part = "recursive any" => Unsettled!RootPending /\ Unsettled!WatchedIsPending

\* Output buffer: the file with the buffer holds what was written, and after a
\* short write the rest is kept in front.
NothingLost ==
    part = "out" => Out!TypeOK /\ Out!NothingLost /\ Out!RestKept

\* Processes: after the end the caller has all the output of the child, which
\* never exceeds the string it is read into.
AllOutput ==
    /\ part = "wait" => Wait!TypeOK /\ Wait!AllOutput
    /\ part = "async" => Run!TypeOK /\ Run!AllOutput /\ Run!OutputFits

\* Input buffer: no byte is given twice and none is skipped, also when a read
\* throws; a read gives less than it was asked for only when the file did, and
\* a seek is relative to the position the user knows.
Consecutive ==
    /\ [][part = "in" => In!ReadsAll]_vars
    /\ [][part = "in short" => InShort!ReadsAll]_vars
    /\ [][part = "in short" => InShort!Consecutive]_vars
    /\ [][part = "in short" => InShort!SeekMoves]_vars
    /\ [](part = "in short" => InShort!TypeOK /\ InShort!Window)

\* Recursive watch and processes: a file created in the watched directory is
\* reported, and a child that ends is waited for, however its output falls into
\* the pipes.
Finishes ==
    /\ (part = "recursive" /\ \E k \in DOMAIN kq : kq[k].what = "file")
       ~> (part = "recursive" => pc = "user" /\ out = "events")
    /\ (part \in {"wait", "async"}) ~> (part \in {"wait", "async"} => pc = "done")
=============================================================================
