-------------------------------- MODULE LogRing --------------------------------
(***************************************************************************)
(* log_handler_base and log_handler_ring: the base decides with one atomic *)
(* word whether a message is a new record, a repetition or an update of    *)
(* the last record, and the ring keeps the newest lines.  A message is     *)
(* known by its hash.                                                      *)
(***************************************************************************)
EXTENDS Integers, Sequences

CONSTANTS
    Threads,        \* the threads that log, which share the logger's lock
    Short, Long,    \* the messages of one and of two lines
    Ids,            \* the update ids, above zero
    MaxTimes,       \* limits<u16>::max()
    Caps,           \* the values of max_size
    Careful,        \* whether callers keep to what the ring can show
    NoRecord, Nobody

LogAssumption ==
    /\ Ids \subseteq Nat \ {0} /\ MaxTimes \in Nat \ {0} /\ Caps \subseteq Nat \ {0}
    /\ Careful \in BOOLEAN /\ NoRecord \notin Short \cup Long /\ Nobody \notin Threads

VARIABLES
    data, start, insert, size,  \* records, a ring_buffer
    last_lines_count,
    word,       \* the hash, the times and the update id of the base
    pc, call,   \* per thread: its next step, and its message with what it loaded
    mtx,        \* the thread that writes, with its loop: the iterator b and
    b, count,   \* the lines that were written
    win         \* history: the lines the ring should hold, oldest first

ring == <<data, start, insert, size>>
vars == <<ring, last_lines_count, word, pc, call, mtx, b, count, win>>

Msgs == Short \cup Long
SizeMax == 65536    \* stands for limits<size_t>::max()
LineCount(m) == IF m \in Short THEN 1 ELSE 2
Line(m, i) == [msg |-> m, line |-> i]
Lines(m) == [i \in 1..LineCount(m) |-> Line(m, i)]

\* A record of the ring: its line, whether it has the time, and its times.
Cell(m, i, times, timed) == [msg |-> m, line |-> i, times |-> times, timed |-> timed]
Empty == Cell(NoRecord, 0, 0, FALSE)

R == INSTANCE RingBuffer WITH Vals <- {}, Default <- Empty

LastOf(seq, n) == SubSeq(seq, Len(seq) - (IF Len(seq) < n THEN Len(seq) ELSE n) + 1, Len(seq))

Init ==
    /\ \E n \in Caps : data = R!Filled(n)
    /\ start = 0 /\ insert = 0 /\ size = 0 /\ last_lines_count = 0
    /\ word = [hash |-> NoRecord, times |-> 0, id |-> 0]
    /\ pc = [t \in Threads |-> "idle"] /\ call = [t \in Threads |-> NoRecord]
    /\ mtx = Nobody /\ b = 0 /\ count = 0 /\ win = <<>>

-----------------------------------------------------------------------------
\* What the ring can show: an update has as many lines as the
\* record it replaces or one more, and a message is not written again across an
\* update, whose hash the word does not keep.
Acceptable(m, id) == Careful =>
    /\ id # 0 /\ id = word.id => LineCount(m) >= last_lines_count
    /\ id = 0 /\ word.id # 0 => m # word.hash

\* write() and write_update() load the word; a write has the update id 0.
Load(t, m, id) ==
    /\ pc[t] = "idle" /\ Acceptable(m, id)
    /\ call' = [call EXCEPT ![t] = [msg |-> m, id |-> id, d |-> word]]
    /\ pc' = [pc EXCEPT ![t] = "store"]
    /\ UNCHANGED <<ring, last_lines_count, word, mtx, b, count, win>>

Repeats(c) == IF c.id = 0 THEN c.msg = c.d.hash ELSE c.id = c.d.id

Times(c) ==
    LET same == IF Repeats(c) THEN c.d.times ELSE 0
    IN  IF same = MaxTimes THEN same ELSE same + 1

WriteType(c) == IF ~Repeats(c) THEN "new_record" ELSE IF c.id = 0 THEN "write_same" ELSE "update"

Store(t) ==
    LET c == call[t] IN
    /\ pc[t] = "store" /\ pc' = [pc EXCEPT ![t] = "handle"]
    /\ word' = [hash |-> IF c.id = 0 THEN c.msg ELSE c.d.hash, times |-> Times(c), id |-> c.id]
    /\ UNCHANGED <<ring, last_lines_count, call, mtx, b, count, win>>

-----------------------------------------------------------------------------
\* Mutation: the lock is not taken.
LockNot(t, wt) ==
    /\ pc[t] = "handle"
    /\ mtx' = t /\ count' = 0
    /\ wt = IF size = 0 THEN "new_record" ELSE WriteType(call[t])

\* write_handler(), under the lock of the ring.
Lock(t, wt) ==
    /\ pc[t] = "handle" /\ mtx = Nobody
    /\ mtx' = t /\ count' = 0
    /\ wt = IF size = 0 THEN "new_record" ELSE WriteType(call[t])

NewRecord(t) ==
    /\ Lock(t, "new_record") /\ pc' = [pc EXCEPT ![t] = "push"]
    /\ last_lines_count' = 0
    /\ win' = LastOf(win \o Lines(call[t].msg), Len(data))
    /\ UNCHANGED <<ring, word, call, b>>

\* The head of the last record, unless some of its lines are gone.
FirstLine == start + size - last_lines_count

\* Mutation: the times of the record are not set.
SetHeadTime(c) ==
    data' = [data EXCEPT ![(FirstLine % Len(data)) + 1] = [@ EXCEPT !.timed = TRUE]]

SetHead(c) ==
    data' = [data EXCEPT ![(FirstLine % Len(data)) + 1] = [@ EXCEPT !.timed = TRUE, !.times = Times(c)]]

Forgotten(t) ==
    /\ \E wt \in {"write_same", "update"} : Lock(t, wt)
    /\ last_lines_count > size
    /\ pc' = [pc EXCEPT ![t] = "unlock"]
    /\ UNCHANGED <<ring, last_lines_count, word, call, b, win>>

WriteSame(t) ==
    /\ Lock(t, "write_same") /\ last_lines_count <= size
    /\ SetHead(call[t]) /\ pc' = [pc EXCEPT ![t] = "unlock"]
    /\ UNCHANGED <<start, insert, size, last_lines_count, word, call, b, win>>

Update(t) ==
    /\ Lock(t, "update") /\ last_lines_count <= size
    /\ SetHead(call[t]) /\ pc' = [pc EXCEPT ![t] = "line"]
    /\ b' = FirstLine
    /\ win' = LastOf(SubSeq(win, 1, Len(win) - last_lines_count) \o Lines(call[t].msg), Len(data))
    /\ UNCHANGED <<start, insert, size, last_lines_count, word, call>>

\* Mutation: every line of a record has the time.
PushLineTimed(t) ==
    /\ pc[t] = "push" /\ count < LineCount(call[t].msg)
    /\ R!Push(Cell(call[t].msg, count + 1, Times(call[t]), TRUE))
    /\ count' = count + 1 /\ last_lines_count' = last_lines_count + 1
    /\ UNCHANGED <<word, pc, call, mtx, b, win>>

\* The lines of a new record, the first with the time.
PushLine(t) ==
    /\ pc[t] = "push" /\ count < LineCount(call[t].msg)
    /\ R!Push(Cell(call[t].msg, count + 1, Times(call[t]), count = 0))
    /\ count' = count + 1 /\ last_lines_count' = last_lines_count + 1
    /\ UNCHANGED <<word, pc, call, mtx, b, win>>

\* Mutation: the update pushes every line.
UpdateLinePushed(t) ==
    /\ pc[t] = "line" /\ count < LineCount(call[t].msg)
    /\ R!Push(Cell(call[t].msg, count + 1, Times(call[t]), FALSE))
    /\ count' = count + 1 /\ b' = b + 1
    /\ UNCHANGED <<last_lines_count, word, pc, call, mtx, win>>

\* The lines of an update, into the record's cells and then into new ones.
UpdateLine(t) ==
    /\ pc[t] = "line" /\ count < LineCount(call[t].msg)
    /\ IF b # R!End
       THEN /\ data' = [data EXCEPT ![(b % Len(data)) + 1] =
                           [@ EXCEPT !.msg = call[t].msg, !.line = count + 1]]
            /\ UNCHANGED <<start, insert, size>>
       ELSE R!Push(Cell(call[t].msg, count + 1, Times(call[t]), FALSE))
    /\ count' = count + 1 /\ b' = b + 1
    /\ UNCHANGED <<last_lines_count, word, pc, call, mtx, win>>

\* The loop that gives back the cells of missing lines counts the lines down
\* instead of the cells: it ends when the count has wrapped.
GiveBack(t) ==
    /\ pc[t] \in {"line", "giveback"} /\ (pc[t] = "line" => count = LineCount(call[t].msg))
    /\ IF count < last_lines_count
       THEN /\ R!Pop /\ pc' = [pc EXCEPT ![t] = "giveback"]
            /\ count' = IF count = 0 THEN SizeMax ELSE count - 1
            /\ UNCHANGED last_lines_count
       ELSE /\ last_lines_count' = count /\ pc' = [pc EXCEPT ![t] = "unlock"]
            /\ UNCHANGED <<ring, count>>
    /\ UNCHANGED <<word, call, mtx, b, win>>

Written(t) == \/ pc[t] = "push" /\ count = LineCount(call[t].msg)
              \/ pc[t] = "unlock"

Unlock(t) ==
    /\ Written(t)
    /\ mtx' = Nobody /\ pc' = [pc EXCEPT ![t] = "idle"]
    /\ call' = [call EXCEPT ![t] = NoRecord] /\ b' = 0 /\ count' = 0
    /\ UNCHANGED <<ring, last_lines_count, word, win>>

Clear == /\ mtx = Nobody /\ R!Clear /\ win' = <<>>
         /\ UNCHANGED <<last_lines_count, word, pc, call, mtx, b, count>>

MaxSize(n) == /\ mtx = Nobody /\ R!Resize(n) /\ win' = LastOf(win, n)
              /\ UNCHANGED <<last_lines_count, word, pc, call, mtx, b, count>>

Next == \/ \E t \in Threads :
            \/ \E m \in Msgs, id \in Ids \cup {0} : Load(t, m, id)
            \/ Store(t) \/ NewRecord(t) \/ Forgotten(t) \/ WriteSame(t) \/ Update(t)
            \/ PushLine(t) \/ UpdateLine(t) \/ GiveBack(t) \/ Unlock(t)
        \/ Clear
        \/ \E n \in Caps : MaxSize(n)

Spec == Init /\ [][Next]_vars

-----------------------------------------------------------------------------
TypeOK ==
    /\ word.times \in 0..MaxTimes /\ size \in 0..Len(data) /\ mtx \in Threads \cup {Nobody}
    /\ {count, last_lines_count} \subseteq 0..2 \cup {SizeMax}

Shown == [i \in 1..Len(R!Contents) |-> Line(R!Contents[i].msg, R!Contents[i].line)]

\* The ring shows the newest lines of the log with the last record as it was
\* last updated, in order, whatever the capacity and the resizes: an update
\* touches no line of an older record.  Holds for careful callers.
LogView == mtx = Nobody => Shown = win

\* "Specify time in first line only": also an updated record has the time at
\* its first line and at no other.
TimeInFirstLine ==
    mtx = Nobody => \A i \in 1..Len(R!Contents) : R!Contents[i].timed <=> R!Contents[i].line = 1

\* With one thread and a careful caller the last record is the message of the last call, a new one
\* or a repetition, and it carries the times the base counted.
LastCallShown ==
    \A t \in Threads : Threads = {t} /\ Written(t) /\ last_lines_count <= size =>
        LET head == R!Contents[size - last_lines_count + 1]
        IN  head.msg = call[t].msg /\ head.times = word.times
=============================================================================
