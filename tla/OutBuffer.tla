------------------------------- MODULE OutBuffer -------------------------------
(***************************************************************************)
(* io::out_base over a file: writes are collected in a buffer of BS bytes  *)
(* and flushed with writes of the file that may be short.  A short write   *)
(* throws partial_write_error, and the caller recovers as the test of      *)
(* out_base does: clear_buffer(), then a seek back by the written size.    *)
(***************************************************************************)
EXTENDS Integers, Sequences

CONSTANTS
    BS,         \* buffer_capacity()
    MaxLen,     \* bound: the bytes of one write
    MaxBytes,   \* bound: the bytes of all writes
    Short       \* whether the file accepts fewer bytes than it is given

OutAssumption == {BS, MaxLen, MaxBytes} \subseteq Nat /\ Short \in BOOLEAN

VARIABLES
    file, fpos,     \* external: the contents and the position of the file
    buff, pos,      \* the first pos bytes of buff wait to be written
    pc,             \* the part of write() or flush() that comes next
    todo,           \* the bytes given to write(), none within flush()
    to,             \* the target of a seek that flushes first, -1 for none
    wrote,          \* the size in the exception
    next,           \* the next byte to be given, each is given once
    intended        \* what the file holds once all accepted bytes are written

vars == <<file, fpos, buff, pos, pc, todo, to, wrote, next, intended>>

Overwrite(seq, p, data) ==
    SubSeq(seq, 1, p) \o data \o SubSeq(seq, p + Len(data) + 1, Len(seq))

Pending == SubSeq(buff, 1, pos)
Accepted(n) == IF Short THEN 0..n ELSE {n}

Init ==
    /\ file = <<>> /\ fpos = 0 /\ buff = [i \in 1..BS |-> 0] /\ pos = 0
    /\ pc = "idle" /\ todo = <<>> /\ to = -1 /\ wrote = 0 /\ next = 1 /\ intended = <<>>

\* External: a write of the file takes the first n of the bytes.
WriteFile(data, n) ==
    /\ file' = Overwrite(file, fpos, SubSeq(data, 1, n))
    /\ fpos' = fpos + n

\* What has to be flushed before n bytes can be written.
NeedsFlush(n) == n >= BS \/ BS - pos < n

Write(n) ==
    /\ pc = "idle" /\ next + n - 1 <= MaxBytes
    /\ todo' = [i \in 1..n |-> next + i - 1]
    /\ next' = next + n
    /\ pc' = IF NeedsFlush(n) THEN "flush" ELSE "store"
    /\ UNCHANGED <<file, fpos, buff, pos, to, wrote, intended>>

\* A call of flush(), or of seek(), which flushes first.
Flush == /\ pc = "idle" /\ pc' = "flush"
         /\ UNCHANGED <<file, fpos, buff, pos, todo, to, wrote, next, intended>>

Seek(p) == /\ pc = "idle" /\ pc' = "flush" /\ to' = p
           /\ UNCHANGED <<file, fpos, buff, pos, todo, wrote, next, intended>>

\* Mutation: flush() does not reset the position when no write follows it.
FlushBufferKept ==
    /\ pc = "flush"
    /\ WriteFile(Pending, pos) /\ pc' = "store"
    /\ pos' = IF todo = <<>> THEN pos ELSE 0
    /\ UNCHANGED <<buff, todo, to, wrote, next, intended>>

\* Mutation: the rest of a partial flush stays where it is.
FlushBufferUnmoved ==
    /\ pc = "flush"
    /\ \E n \in Accepted(pos) :
        /\ WriteFile(Pending, n)
        /\ IF n = pos
           THEN pos' = 0 /\ pc' = "store" /\ UNCHANGED <<buff, todo, to, wrote>>
           ELSE /\ todo' = <<>> /\ to' = -1 /\ wrote' = n /\ pc' = "failed"
                /\ UNCHANGED <<pos, buff>>
    /\ UNCHANGED <<next, intended>>

\* flush(): a short write moves the rest to the front, keeps the position and
\* throws, and the bytes given to write() are not taken.
FlushBuffer ==
    /\ pc = "flush"
    /\ \E n \in Accepted(pos) :
        /\ WriteFile(Pending, n)
        /\ IF n = pos
           THEN pos' = 0 /\ pc' = "store" /\ UNCHANGED <<buff, todo, to, wrote>>
           ELSE /\ buff' = Overwrite(buff, 0, SubSeq(buff, n + 1, pos))
                /\ todo' = <<>> /\ to' = -1 /\ wrote' = n /\ pc' = "failed"
                /\ UNCHANGED pos
    /\ UNCHANGED <<next, intended>>

\* The bytes of a write go to the file when they do not fit in the buffer.
Bypass ==
    /\ Len(todo) >= BS
    /\ \E n \in Accepted(Len(todo)) :
        /\ WriteFile(todo, n)
        /\ wrote' = n
        /\ IF n = Len(todo)
           THEN pc' = "idle" /\ intended' = Overwrite(intended, fpos, todo)
           ELSE pc' = "failed" /\ UNCHANGED intended
    /\ UNCHANGED <<buff, pos>>

Buffer ==
    /\ Len(todo) < BS
    /\ buff' = Overwrite(buff, pos, todo)
    /\ pos' = pos + Len(todo)
    /\ intended' = Overwrite(intended, fpos + pos, todo)
    /\ pc' = "idle"
    /\ UNCHANGED <<file, fpos, wrote>>

Store ==
    /\ pc = "store" /\ todo # <<>>
    /\ Bypass \/ Buffer
    /\ todo' = <<>> /\ UNCHANGED <<to, next>>

Flushed ==
    /\ pc = "store" /\ todo = <<>>
    /\ pc' = "idle" /\ to' = -1
    /\ fpos' = IF to = -1 THEN fpos ELSE to
    /\ UNCHANGED <<file, buff, pos, todo, wrote, next, intended>>

\* External: the caller's recovery.
Recover ==
    /\ pc = "failed" /\ pc' = "idle"
    /\ pos' = 0
    /\ fpos' = fpos - wrote
    /\ intended' = file
    /\ UNCHANGED <<file, buff, todo, to, wrote, next>>

Next == \/ \E n \in 1..MaxLen : Write(n)
        \/ Flush \/ \E p \in 0..Len(intended) : Seek(p)
        \/ FlushBuffer \/ Store \/ Flushed \/ Recover

Spec == Init /\ [][Next]_vars

-----------------------------------------------------------------------------
TypeOK ==
    /\ Len(buff) = BS /\ pos \in 0..BS /\ fpos \in 0..MaxBytes
    /\ pc \in {"idle", "flush", "store", "failed"}

\* Between two calls the file and the buffer together hold every byte that was
\* accepted, in order and once, whatever the sizes of the writes, the seeks
\* between them and the recoveries from short writes.
NothingLost == pc = "idle" => Overwrite(file, fpos, Pending) = intended

\* When a flush was short the unwritten bytes are the first of the buffer: the
\* file with them is complete.  (A second flush would write more than them: the
\* position still counts the bytes that were written.)
RestKept ==
    pc = "failed" /\ pos > 0 =>
        Overwrite(file, fpos, SubSeq(buff, 1, pos - wrote)) = intended
=============================================================================
