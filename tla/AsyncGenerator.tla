----------------------------- MODULE AsyncGenerator -----------------------------
(***************************************************************************)
(* async_generator<T> as async::readdir uses it: a coroutine that awaits   *)
(* the next chunk of a directory and yields its entries one by one to a    *)
(* coroutine that awaits the generator.  Each resumes the other inside its *)
(* own await_suspend, so the frames pile up until one of them waits for    *)
(* the event loop.                                                         *)
(***************************************************************************)
EXTENDS Integers, Sequences

CONSTANTS
    Entries,    \* the entries of the directory
    Chunk       \* the most entries one getdents returns

GeneratorAssumption == Entries \in Nat /\ Chunk \in Nat \ {0}

VARIABLES
    stack,      \* the coroutines resumed and not returned, the running one last
    cons, gen,  \* where each is: "run" or what it is suspended on
    waiter,     \* _waiter is set
    value,      \* _current_value, 0 when empty
    failed,     \* _exception is set
    next,       \* external: the next entry the kernel returns
    buf,        \* the entries left in the buffer
    seen,       \* the entries the consumer got
    result      \* how its loop ended

vars == <<stack, cons, gen, waiter, value, failed, next, buf, seen, result>>

\* The coroutine on top of the stack is the one that runs, and the other one
\* is where it can be resumed.
TypeOK ==
    /\ stack \in Seq({"cons", "gen"}) /\ waiter \in BOOLEAN /\ failed \in BOOLEAN
    /\ cons \in {"run", "loop", "next"} /\ gen \in {"initial", "run", "dents", "yield", "done"}
    /\ value \in 0..Entries /\ next \in 1..Entries + 1 /\ buf \in Seq(1..Entries)
    /\ seen \in Seq(1..Entries) /\ result \in {"none", "end", "error"}
    /\ (cons = "run") <=> (stack # <<>> /\ stack[Len(stack)] = "cons")
    /\ (gen = "run") <=> (stack # <<>> /\ stack[Len(stack)] = "gen")
    /\ waiter => cons = "next"

Init ==
    /\ stack = <<"cons">> /\ cons = "run" /\ gen = "initial" /\ waiter = FALSE
    /\ value = 0 /\ failed = FALSE /\ next = 1 /\ buf = <<>>
    /\ seen = <<>> /\ result = "none"

-----------------------------------------------------------------------------
\* A coroutine that suspends returns to the frame below, an await_suspend
\* that has nothing left to do, and so down to the event loop.
Unwind == stack' = <<>>

\* resume() of the consumer and its await_resume: the exception, the end, or
\* the value, which is moved out.
ResumeConsumer(g, v, f) ==
    /\ stack' = Append(stack, "cons") /\ cons' = "run" /\ waiter' = FALSE
    /\ value' = IF f \/ g = "done" THEN v ELSE 0
    /\ result' = IF f THEN "error" ELSE IF g = "done" THEN "end" ELSE "none"
    /\ seen' = IF f \/ g = "done" THEN seen ELSE Append(seen, v)

\* await_suspend of the generator: one that has ended resumes the caller at
\* once, any other one is resumed and will resume the caller.
AwaitNext ==
    /\ cons = "run" /\ result = "none"
    /\ IF gen = "done"
         THEN ResumeConsumer(gen, value, failed) /\ UNCHANGED gen
         ELSE /\ waiter' = TRUE /\ cons' = "next" /\ gen' = "run"
              /\ stack' = Append(stack, "gen") /\ UNCHANGED <<value, seen, result>>
    /\ UNCHANGED <<failed, next, buf>>

\* The consumer awaits something else, or its loop has ended.
ConsumerSuspends ==
    /\ cons = "run" /\ cons' = "loop" /\ Unwind
    /\ UNCHANGED <<gen, waiter, value, failed, next, buf, seen, result>>

\* The awaiter of co_yield and of the final suspension.
Suspended(g, v, f) ==
    /\ gen' = g
    /\ IF waiter
         THEN ResumeConsumer(g, v, f)
         ELSE Unwind /\ value' = v /\ UNCHANGED <<cons, waiter, seen, result>>

YieldSame ==
    /\ gen = "run" /\ buf # <<>>
    /\ buf' = buf /\ Suspended("yield", Head(buf), failed) /\ UNCHANGED <<failed, next>>
Yield ==
    /\ gen = "run" /\ buf # <<>>
    /\ buf' = Tail(buf) /\ Suspended("yield", Head(buf), failed)
    /\ UNCHANGED <<failed, next>>

GetdentsInline ==
    /\ gen = "run" /\ buf = <<>> /\ next <= Entries /\ buf' = <<next>> /\ next' = next + 1
    /\ UNCHANGED <<stack, cons, gen, waiter, value, failed, seen, result>>
\* The buffer is used up: the coroutine waits for the next getdents, which
\* runs on a thread.
Getdents ==
    /\ gen = "run" /\ buf = <<>> /\ gen' = "dents" /\ Unwind
    /\ UNCHANGED <<cons, waiter, value, failed, next, buf, seen, result>>

\* New tasks are blocked: getdents returns ecanceled at once, which get() throws.
Refused ==
    /\ gen = "run" /\ buf = <<>> /\ failed' = TRUE
    /\ Suspended("done", value, TRUE) /\ UNCHANGED <<next, buf>>

\* The event loop resumes the generator with the chunk, or with its end.
GotDents ==
    /\ stack = <<>> /\ gen = "dents" /\ gen' = "run" /\ stack' = <<"gen">>
    /\ \E n \in 1..Chunk :
         LET last == IF next + n - 1 > Entries THEN Entries ELSE next + n - 1
         IN  /\ buf' = [i \in 1..last - next + 1 |-> next + i - 1] /\ next' = last + 1
             /\ next <= Entries
    /\ UNCHANGED <<cons, waiter, value, failed, seen, result>>

GotEndSilently ==
    /\ stack = <<>> /\ gen = "dents" /\ next > Entries /\ gen' = "done"
    /\ UNCHANGED <<stack, cons, waiter, value, failed, next, buf, seen, result>>
GotEnd ==
    /\ stack = <<>> /\ gen = "dents" /\ next > Entries
    /\ gen' = "done" /\ ResumeConsumer("done", value, failed)
    /\ UNCHANGED <<failed, next, buf>>

\* The getdents failed on its thread: get() throws in the generator.
GotError ==
    /\ stack = <<>> /\ gen = "dents" /\ gen' = "done" /\ failed' = TRUE
    /\ ResumeConsumer("done", value, TRUE) /\ UNCHANGED <<next, buf>>

\* Whatever else the consumer waits for has completed.
ConsumerResumed ==
    /\ stack = <<>> /\ cons = "loop" /\ result = "none" /\ cons' = "run" /\ stack' = <<"cons">>
    /\ UNCHANGED <<gen, waiter, value, failed, next, buf, seen, result>>

Next ==
    \/ AwaitNext \/ ConsumerSuspends \/ Yield \/ Getdents \/ Refused
    \/ GotDents \/ GotEnd \/ GotError \/ ConsumerResumed

Spec == Init /\ [][Next]_vars
\* Running code goes on, what is awaited completes, and the consumer reads
\* again and again whatever it awaits in between.
FairSpec == Spec /\ WF_vars(Next) /\ SF_vars(AwaitNext)

-----------------------------------------------------------------------------
\* The consumer sees the entries of the directory in their order, none
\* twice, and all of them when its loop ends without an exception.
InOrder ==
    /\ \A i \in 1..Len(seen) : seen[i] = i
    /\ result = "end" => Len(seen) = Entries

\* The frames that pile up between two visits to the event loop are those of
\* the entries of one chunk: reading a long directory does not use more stack.
StackBounded == Len(stack) <= 2 * Chunk + 2

\* A consumer that goes on reading comes to an end.
Ends == <>(result # "none")
=============================================================================
