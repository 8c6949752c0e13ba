-------------------------------- MODULE Process --------------------------------
(***************************************************************************)
(* core::process with its standard streams given as strings: the parent    *)
(* forks, feeds and drains the pipes, with an epoller in wait() or with    *)
(* tasks in run_async(), and waits for the child.  Bytes are counted.      *)
(***************************************************************************)
EXTENDS Integers, FiniteSets

CONSTANTS
    Async,          \* run_async() instead of wait()
    Strings,        \* the streams of 0..2 that are strings
    BS,             \* the bytes of one read: 8192 in wait(), 4096 in run_async()
    PipeSize,       \* external: the capacity of a pipe
    Input,          \* the length of the input string
    MaxOut, MaxErr  \* the most the child writes to stdout and stderr

ProcessAssumption ==
    /\ Async \in BOOLEAN /\ Strings \subseteq 0..2
    /\ {BS, PipeSize} \subseteq Nat \ {0} /\ {Input, MaxOut, MaxErr} \subseteq Nat

Outputs == Strings \cap {1, 2}
Piped(i) == i \in Strings
Limit(i) == IF i = 1 THEN MaxOut ELSE MaxErr
Least(a, b) == IF a < b THEN a ELSE b
Pid == 3        \* the process descriptor among the events

VARIABLES
    child,      \* external: "none", "running", "exited" or "reaped"
    pipe,       \* the bytes in each pipe
    doing,      \* external: the stream the child reads or writes, -1 for none
    taken,      \* external: the bytes the child read from its stdin
    wrote,      \* external: the bytes the child wrote to a stream
    got,        \* the bytes in the strings of the outputs
    left,       \* the bytes of the input that are not written yet
    pc, batch,  \* the parent's next step, and the events it has to handle
    shutdown,   \* whether a handler asked the epoller to stop
    len         \* run_async(): the size of the string that is read into

vars == <<child, doing, pipe, taken, wrote, got, left, pc, batch, shutdown, len>>
process == <<child, doing, taken, wrote>>

Init ==
    /\ child = "none" /\ doing = -1 /\ pipe = [i \in 0..2 |-> 0] /\ taken = 0
    /\ wrote = [i \in 1..2 |-> 0] /\ got = [i \in 1..2 |-> 0]
    /\ left = IF Piped(0) THEN Input ELSE 0
    /\ pc = "run" /\ batch = {} /\ shutdown = FALSE /\ len = BS

-----------------------------------------------------------------------------
\* External: a child that reads the whole input before it ends, in any order
\* with its writes, and never waits for the end of its stdin, which the parent
\* does not close.
ChildCalls(i) ==
    /\ child = "running" /\ doing = -1
    /\ IF i = 0 THEN Piped(0) /\ taken < Input ELSE wrote[i] < Limit(i)
    /\ doing' = i
    /\ UNCHANGED <<child, pipe, taken, wrote, got, left, pc, batch, shutdown, len>>

ChildReads ==
    /\ doing = 0 /\ pipe[0] > 0
    /\ pipe' = [pipe EXCEPT ![0] = @ - 1] /\ taken' = taken + 1 /\ doing' = -1
    /\ UNCHANGED <<child, wrote, got, left, pc, batch, shutdown, len>>

\* A stream that is not piped is inherited and takes everything.
ChildWrites(i) ==
    /\ doing = i
    /\ Piped(i) => pipe[i] < PipeSize
    /\ wrote' = [wrote EXCEPT ![i] = @ + 1] /\ doing' = -1
    /\ pipe' = IF Piped(i) THEN [pipe EXCEPT ![i] = @ + 1] ELSE pipe
    /\ UNCHANGED <<child, taken, got, left, pc, batch, shutdown, len>>

ChildExits ==
    /\ child = "running" /\ doing = -1 /\ (Piped(0) => taken = Input)
    /\ child' = "exited"
    /\ UNCHANGED <<doing, pipe, taken, wrote, got, left, pc, batch, shutdown, len>>

-----------------------------------------------------------------------------
\* run(): the parent keeps its ends of the pipes.
Run ==
    /\ pc = "run" /\ child' = "running"
    /\ pc' = IF ~Async THEN "wait" ELSE IF Piped(0) THEN "input" ELSE "output"
    /\ UNCHANGED <<doing, pipe, taken, wrote, got, left, batch, shutdown, len>>

\* The ends of the pipes are closed when the child is gone: they are readable
\* then, and the other end of stdin reports an error.
Ready == {Pid : x \in {c \in {child} : c = "exited"}}
            \cup {i \in Outputs : pipe[i] > 0 \/ child = "exited"}
            \cup {i \in Strings \cap {0} : pipe[0] < PipeSize \/ child = "exited"}

\* wait(): epoll_wait, which reports all that is ready.
EpollWait ==
    /\ pc = "wait" /\ Ready # {}
    /\ batch' = Ready /\ pc' = "dispatch"
    /\ UNCHANGED <<process, pipe, got, left, shutdown, len>>

\* Mutation: the end of the child stops the batch.
DispatchPidAtOnce ==
    /\ pc = "dispatch" /\ Pid \in batch
    /\ batch' = {} /\ shutdown' = TRUE
    /\ UNCHANGED <<process, pipe, got, left, pc, len>>

DispatchPid ==
    /\ pc = "dispatch" /\ Pid \in batch
    /\ batch' = batch \ {Pid} /\ shutdown' = TRUE
    /\ UNCHANGED <<process, pipe, got, left, pc, len>>

\* The handler of the streams: the whole input, or reads until a short one.
\* Stdin can be written before the child writes anything and is reported first.
Dispatch(i) ==
    /\ pc = "dispatch" /\ i \in batch /\ (left > 0 /\ 0 \in batch => i = 0)
    /\ batch' = batch \ {i}
    /\ pc' = IF i = 0 THEN "feed" ELSE IF i = 1 THEN "drain1" ELSE "drain2"
    /\ UNCHANGED <<process, pipe, got, left, shutdown, len>>

Feed ==
    /\ pc = "feed"
    /\ IF left = 0 THEN pc' = "dispatch" /\ UNCHANGED <<pipe, left>>
       ELSE /\ pipe[0] < PipeSize
            /\ pipe' = [pipe EXCEPT ![0] = @ + 1] /\ left' = left - 1 /\ UNCHANGED pc
    /\ UNCHANGED <<process, got, batch, shutdown, len>>

\* A read waits for bytes, and one that fills the buffer is followed by another.
Drain(i) ==
    /\ pc = (IF i = 1 THEN "drain1" ELSE "drain2")
    /\ pipe[i] > 0 \/ child = "exited"
    /\ got' = [got EXCEPT ![i] = @ + Least(BS, pipe[i])]
    /\ pipe' = [pipe EXCEPT ![i] = @ - Least(BS, pipe[i])]
    /\ pc' = IF pipe[i] >= BS THEN pc ELSE "dispatch"
    /\ UNCHANGED <<process, left, batch, shutdown, len>>

\* Mutation: the result of the batch is lost.
DispatchedOn ==
    /\ pc = "dispatch" /\ batch = {} /\ pc' = "wait"
    /\ UNCHANGED <<process, pipe, got, left, batch, shutdown, len>>

Dispatched ==
    /\ pc = "dispatch" /\ batch = {}
    /\ pc' = IF shutdown THEN "waitid" ELSE "wait"
    /\ UNCHANGED <<process, pipe, got, left, batch, shutdown, len>>

-----------------------------------------------------------------------------
\* run_async(): the input task is awaited, then the output task, which reads
\* stdout only; both were started and proceed in turns.
Awaiting == Async /\ pc \in {"input", "output"}

WriteInput ==
    /\ Awaiting /\ left > 0 /\ pipe[0] < PipeSize
    /\ \E n \in 1..Least(left, PipeSize - pipe[0]) :
        pipe' = [pipe EXCEPT ![0] = @ + n] /\ left' = left - n
    /\ UNCHANGED <<process, got, pc, batch, shutdown, len>>

InputWritten ==
    /\ pc = "input" /\ left = 0 /\ pc' = "output"
    /\ UNCHANGED <<process, pipe, got, left, batch, shutdown, len>>

\* Mutation: the room is compared without the bytes just read.
GrownLate(size, n) == IF len - size < BS THEN 2 * len ELSE len

\* The string of a capacity len is doubled when the next read may not fit.
Grown(size, n) == IF len - (size + n) < BS THEN 2 * len ELSE len

\* Mutation: the output is read when the input is written.
ReadOutputLater ==
    /\ pc = "output" /\ Piped(1) /\ pipe[1] > 0
    /\ \E n \in 1..Least(BS, pipe[1]) :
        /\ got' = [got EXCEPT ![1] = @ + n] /\ pipe' = [pipe EXCEPT ![1] = @ - n]
        /\ len' = Grown(got[1], n)
    /\ UNCHANGED <<process, left, pc, batch, shutdown>>

ReadOutput ==
    /\ Awaiting /\ Piped(1) /\ pipe[1] > 0
    /\ \E n \in 1..Least(BS, pipe[1]) :
        /\ got' = [got EXCEPT ![1] = @ + n] /\ pipe' = [pipe EXCEPT ![1] = @ - n]
        /\ len' = Grown(got[1], n)
    /\ UNCHANGED <<process, left, pc, batch, shutdown>>

\* Mutation: an empty pipe counts as the end of the output.
OutputEndsEmpty ==
    /\ pc = "output" /\ (Piped(1) => pipe[1] = 0)
    /\ pc' = "waitid"
    /\ UNCHANGED <<process, pipe, got, left, batch, shutdown, len>>

OutputEnds ==
    /\ pc = "output" /\ (Piped(1) => pipe[1] = 0 /\ child = "exited")
    /\ pc' = "waitid"
    /\ UNCHANGED <<process, pipe, got, left, batch, shutdown, len>>

WaitId ==
    /\ pc = "waitid" /\ child = "exited"
    /\ child' = "reaped" /\ pc' = "done"
    /\ UNCHANGED <<doing, pipe, taken, wrote, got, left, batch, shutdown, len>>

Child == \/ (\E i \in 0..2 : ChildCalls(i)) \/ ChildReads \/ (\E i \in 1..2 : ChildWrites(i))
         \/ ChildExits
Parent == \/ Run \/ EpollWait \/ DispatchPid \/ \E i \in 0..2 : Dispatch(i)
          \/ Feed \/ (\E i \in 1..2 : Drain(i)) \/ Dispatched
          \/ WriteInput \/ InputWritten \/ ReadOutput \/ OutputEnds \/ WaitId

Next == Child \/ Parent

\* The parent, its tasks and the child go on when they can.
Spec == Init /\ [][Next]_vars /\ WF_vars(Parent) /\ WF_vars(Child)

-----------------------------------------------------------------------------
TypeOK ==
    /\ \A i \in 0..2 : pipe[i] \in 0..PipeSize
    /\ child \in {"none", "running", "exited", "reaped"} /\ left \in 0..Input
    /\ batch \subseteq 0..Pid

\* When the call returns the child was reaped and every byte it wrote to a
\* string of this mode is in the string, however its writes, its end and the
\* parent's events fell together.
AllOutput ==
    pc = "done" => \A i \in IF Async THEN Outputs \ {2} ELSE Outputs :
        got[i] = wrote[i] /\ pipe[i] = 0

\* A read of run_async() never goes beyond the string it reads into.
OutputFits == Async /\ pc # "done" => got[1] + BS <= len

\* The call returns: the parent and a child that reads its input and writes
\* to two pipes never wait for each other for good.
Finishes == <>(pc = "done")
=============================================================================
