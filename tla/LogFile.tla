-------------------------------- MODULE LogFile --------------------------------
(***************************************************************************)
(* log_handler_fd: the log in a file or on a terminal.  A record that      *)
(* repeats or updates the last one is written over it: on a terminal after *)
(* a carriage return, in a file after a seek back by the length that the   *)
(* last call left in prev_record_len.                                      *)
(***************************************************************************)
EXTENDS Integers, Sequences, SequencesExt

CONSTANTS
    Threads,
    Msgs,       \* the messages, each a sequence of cells of text
    MaxTimes,   \* limits<u16>::max(), from which a record repeats infinitely
    is_fifo,    \* whether the descriptor is pipe-like: here, a terminal
    Repeats,    \* whether the program repeats and updates records
    Careful,    \* whether updates keep to what can be written over
    MaxRecords  \* the bound of the log

LogFileAssumption ==
    /\ MaxTimes \in Nat \ {0, 1} /\ {is_fifo, Repeats, Careful} \subseteq BOOLEAN
    /\ MaxRecords \in Nat \ {0}

VARIABLES
    file, pos,          \* what the device shows, and where the next write goes
    prev_record_len,
    pc, call,           \* per thread: its next step, its record and what it exchanged
    last,               \* the last call, and what the base knows after it
    win                 \* history: the records that should be read

vars == <<file, pos, prev_record_len, pc, call, last, win>>

None == [wt |-> "none", record |-> <<>>, prev_len |-> 0]

Init ==
    /\ file \in {<<>>, <<"x">>} /\ pos = Len(file) /\ win = <<file>>
    /\ prev_record_len = 0 /\ last = [msg |-> <<>>, hash |-> <<>>, times |-> 0, updates |-> FALSE]
    /\ pc = [t \in Threads |-> "idle"] /\ call = [t \in Threads |-> None]

-----------------------------------------------------------------------------
\* Mutation: every record begins on a new line.
StartLine(wt) == <<"nl">>

Start(wt) == IF wt # "new_record" /\ is_fifo THEN <<"cr">> ELSE <<"nl">>

\* " (n times)", or the longer " (repeats infinitely)".
Suffix(wt, times) ==
    IF wt # "write_same" \/ times = 1 THEN <<>>
    ELSE IF times = MaxTimes THEN <<"times", "infinitely">> ELSE <<"times">>

\* Mutation: the newline is not counted.
RecordBare(wt, msg, times) == Suffix(wt, times) \o msg

Record(wt, msg, times) == Start(wt) \o Suffix(wt, times) \o msg

NextTimes == IF last.times = MaxTimes THEN MaxTimes ELSE last.times + 1

\* The message and the times that log_handler_base gives with each kind of record,
\* and what it then knows: the hash of the last message that was not an update.
\* Its decision is modelled in LogRing.
Given(wt) ==
    CASE wt = "new_record" ->
            {[msg |-> m, hash |-> m, times |-> 1, updates |-> FALSE] : m \in Msgs \ {last.hash}}
            \cup {[msg |-> m, hash |-> last.hash, times |-> 1, updates |-> TRUE] : m \in Msgs}
      [] wt = "write_same" ->
            {[msg |-> m, hash |-> m, times |-> NextTimes, updates |-> FALSE] :
                m \in Msgs \cap {last.hash}}
      [] wt = "update" ->
            {[msg |-> m, hash |-> last.hash, times |-> NextTimes, updates |-> TRUE] :
                m \in {n \in Msgs : last.updates}}

\* A record written over the last one is at least as long, and is one line of a terminal.
Acceptable(wt, record) == Careful =>
    /\ wt # "new_record" => Len(record) >= prev_record_len
    /\ is_fifo => \A i \in 2..Len(record) : record[i] # "nl"

Call(t, wt) ==
    /\ pc[t] = "idle" /\ Len(win) <= MaxRecords
    /\ wt # "new_record" => Repeats
    /\ \E g \in Given(wt) :
        LET record == Record(wt, g.msg, g.times) IN
        /\ Acceptable(wt, record) /\ last' = g
        /\ call' = [call EXCEPT ![t] = [wt |-> wt, record |-> record, prev_len |-> 0]]
    /\ pc' = [pc EXCEPT ![t] = "exchange"]
    /\ UNCHANGED <<file, pos, prev_record_len, win>>

Exchange(t) ==
    /\ pc[t] = "exchange" /\ pc' = [pc EXCEPT ![t] = "seek"]
    /\ call' = [call EXCEPT ![t].prev_len = prev_record_len]
    /\ prev_record_len' = Len(call[t].record)
    /\ UNCHANGED <<file, pos, last, win>>

\* Mutation: the seek is not only for records that are written over.
SeekAlways(t) ==
    /\ pc[t] = "seek" /\ pc' = [pc EXCEPT ![t] = "write"]
    /\ pos' = IF is_fifo \/ call[t].prev_len > pos THEN pos ELSE pos - call[t].prev_len
    /\ UNCHANGED <<file, prev_record_len, call, last, win>>

\* A seek before the start of the file fails, and nobody looks.
Seek(t) ==
    /\ pc[t] = "seek" /\ pc' = [pc EXCEPT ![t] = "write"]
    /\ pos' = IF call[t].wt = "new_record" \/ is_fifo \/ call[t].prev_len > pos THEN pos
              ELSE pos - call[t].prev_len
    /\ UNCHANGED <<file, prev_record_len, call, last, win>>

-----------------------------------------------------------------------------
\* A device with one cell more: a file is written over and then grows; a
\* terminal goes back to the start of its last line, and down below it.
LineStart(cells) == IF "nl" \in ToSet(cells) THEN SelectLastInSeq(cells, LAMBDA c : c = "nl") ELSE 0

Put(device, cell) ==
    IF cell = "cr" THEN [device EXCEPT !.pos = LineStart(device.file)]
    ELSE IF (cell = "nl" /\ is_fifo) \/ device.pos = Len(device.file)
    THEN [file |-> Append(device.file, cell), pos |-> Len(device.file) + 1]
    ELSE [file |-> [device.file EXCEPT ![device.pos + 1] = cell], pos |-> device.pos + 1]

Written(device, record) == FoldLeft(Put, device, record)

\* What is to be read of a record: on a line of its own.
OnItsLine(record) == <<"nl">> \o Tail(record)

Write(t) ==
    LET device == Written([file |-> file, pos |-> pos], call[t].record) IN
    /\ pc[t] = "write" /\ pc' = [pc EXCEPT ![t] = "idle"]
    /\ file' = device.file /\ pos' = device.pos
    /\ win' = Append(IF call[t].wt = "new_record" THEN win ELSE Front(win),
                     OnItsLine(call[t].record))
    /\ call' = [call EXCEPT ![t] = None]
    /\ UNCHANGED <<prev_record_len, last>>

Next == \E t \in Threads :
            \/ \E wt \in {"new_record", "write_same", "update"} : Call(t, wt)
            \/ Exchange(t) \/ Seek(t) \/ Write(t)

Spec == Init /\ [][Next]_vars

-----------------------------------------------------------------------------
TypeOK ==
    /\ pos \in 0..Len(file) /\ prev_record_len \in Nat /\ last.times \in 0..MaxTimes
    /\ \A t \in Threads : pc[t] \in {"idle", "exchange", "seek", "write"}

Steady == \A t \in Threads : pc[t] \in {"idle", "exchange"}

\* Up to its position the device shows the records of the log in order, the
\* last one as it was last written: a repetition or an update takes its place
\* and touches no older record, whatever the lengths in a file.  A careful
\* caller finds nothing behind it.  For one thread, or for several that write
\* only new records.
FileView ==
    (~is_fifo \/ Careful) /\ Steady =>
        /\ SubSeq(file, 1, pos) = FlattenSeq(win)
        /\ Careful => pos = Len(file)
=============================================================================
