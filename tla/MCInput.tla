------------------------------- MODULE MCInput -------------------------------
(*****************************************************************************)
(* The input layer and the log handlers for TLC. A behaviour is of one of    *)
(* them, and the specification is the union of theirs.                       *)
(*****************************************************************************)
EXTENDS Integers, Sequences

CONSTANT Unused   \* the value of the variables of the parts that do not run

CONSTANTS
    Mice, max_mouses, NoMouse, Stop,                \* the input manager
    KeyCount, BlockBits, RelHalf, MaxStep, MaxMoves, \* the state of a mouse
    PlayedKeys, PlayedButtons, KeyBatch, MouseBatch, MaxPlayed, MaxFaults, \* the event stream
    Writers, Racers, NoRecord, Nobody,              \* the logs
    Short, Long, Ids, MaxTimes, Caps, FewIds, FewTimes, RaceCaps, \* in a ring
    MaxFileTimes, MaxRecords                        \* and in a file

VARIABLES
    part,   \* the part that runs in this behaviour
    registered, armed, readable, stopByte, running, wpc, handler, copy, batch, keep, handling,
    attached, mouses, joining, rel, blocks, state, switch_state, taking, down, events, moved,
    shown, since, mixed, held, queues, ready, pc, channel, faults, changed, owed, data, start,
    insert, size, last_lines_count, word, call, mtx, b, count, win, file, pos, prev_record_len,
    last

vars == <<part, registered, armed, readable, stopByte, running, wpc, handler, copy, batch, keep,
          handling, attached, mouses, joining, rel, blocks, state, switch_state, taking, down,
          events, moved, shown, since, mixed, held, queues, ready, pc, channel, faults, changed,
          owed, data, start, insert, size, last_lines_count, word, call, mtx, b, count, win,
          file, pos, prev_record_len, last>>

\* The manager with its thread.
Manager == INSTANCE InputMgr WITH
    Careful <- TRUE

\* The keys and the motion of a mouse.
Mouse == INSTANCE MouseState WITH
    MaxEvents <- MaxMoves

\* A keyboard and a mouse at the other end of a network.
Stream == INSTANCE EventStream WITH
    Keys <- PlayedKeys, Buttons <- PlayedButtons, MaxEvents <- MaxPlayed, Quick <- TRUE

\* One thread that writes what the ring can show.
Log == INSTANCE LogRing WITH
    Threads <- Writers, Careful <- TRUE

\* The same without its discipline: it repeats messages across updates and shortens records.
Any == INSTANCE LogRing WITH
    Threads <- Writers, Ids <- FewIds, Careful <- FALSE

\* Threads that race for the record of the base.
Race == INSTANCE LogRing WITH
    Threads <- Racers, Short <- {}, Ids <- FewIds, MaxTimes <- FewTimes, Caps <- RaceCaps,
    Careful <- TRUE

\* A log in a file, with updates of any length.
File == INSTANCE LogFile WITH
    Threads <- Writers, Msgs <- {<<"a">>, <<"b", "c">>, <<"d", "nl", "e">>},
    MaxTimes <- MaxFileTimes, is_fifo <- FALSE, Repeats <- TRUE, Careful <- FALSE

\* A log on a terminal, with updates that do not get shorter.
Screen == INSTANCE LogFile WITH
    Threads <- Writers, Msgs <- {<<"a">>, <<"b", "c">>}, MaxTimes <- MaxFileTimes,
    is_fifo <- TRUE, Repeats <- TRUE, Careful <- TRUE

\* Racing threads that write only new records to a file.
Plain == INSTANCE LogFile WITH
    Threads <- Racers, Msgs <- {<<"a">>, <<"b", "c">>}, MaxTimes <- MaxFileTimes,
    is_fifo <- FALSE, Repeats <- FALSE, Careful <- TRUE

ASSUME MCInputAssumption ==
    /\ Manager!InputAssumption /\ Mouse!MouseAssumption /\ Stream!StreamAssumption
    /\ Log!LogAssumption /\ Any!LogAssumption /\ Race!LogAssumption /\ File!LogFileAssumption
    /\ Screen!LogFileAssumption /\ Plain!LogFileAssumption

-----------------------------------------------------------------------------

NotInputMgr == <<rel, blocks, state, switch_state, taking, down, events, moved, shown, since,
                 mixed, held, queues, ready, pc, channel, faults, changed, owed, data, start,
                 insert, size, last_lines_count, word, call, mtx, b, count, win, file, pos,
                 prev_record_len, last>>
NoInputMgr ==
    /\ registered = Unused /\ armed = Unused /\ readable = Unused /\ stopByte = Unused
    /\ running = Unused /\ wpc = Unused /\ handler = Unused /\ copy = Unused /\ batch = Unused
    /\ keep = Unused /\ handling = Unused /\ attached = Unused /\ mouses = Unused
    /\ joining = Unused
NotMouseState == <<registered, armed, readable, stopByte, running, wpc, handler, copy, batch,
                   keep, handling, attached, mouses, joining, held, queues, ready, pc, channel,
                   faults, changed, owed, data, start, insert, size, last_lines_count, word,
                   call, mtx, b, count, win, file, pos, prev_record_len, last>>
NoMouseState ==
    /\ rel = Unused /\ blocks = Unused /\ state = Unused /\ switch_state = Unused
    /\ taking = Unused /\ down = Unused /\ events = Unused /\ moved = Unused /\ shown = Unused
    /\ since = Unused /\ mixed = Unused
NotEventStream == <<registered, armed, readable, stopByte, running, wpc, handler, copy, batch,
                    keep, handling, attached, mouses, joining, rel, blocks, state, switch_state,
                    taking, down, moved, since, mixed, data, start, insert, size,
                    last_lines_count, word, call, mtx, b, count, win, file, pos,
                    prev_record_len, last>>
NotLogRing == <<registered, armed, readable, stopByte, running, wpc, handler, copy, batch, keep,
                handling, attached, mouses, joining, rel, blocks, state, switch_state, taking,
                down, events, moved, shown, since, mixed, held, queues, ready, channel, faults,
                changed, owed, file, pos, prev_record_len, last>>
NoLogRing ==
    /\ data = Unused /\ start = Unused /\ insert = Unused /\ size = Unused
    /\ last_lines_count = Unused /\ word = Unused /\ pc = Unused /\ call = Unused /\ mtx = Unused
    /\ b = Unused /\ count = Unused /\ win = Unused
NotLogFile == <<registered, armed, readable, stopByte, running, wpc, handler, copy, batch, keep,
                handling, attached, mouses, joining, rel, blocks, state, switch_state, taking,
                down, events, moved, shown, since, mixed, held, queues, ready, channel, faults,
                changed, owed, data, start, insert, size, last_lines_count, word, mtx, b, count>>

Init ==
    \/ /\ part = "manager" /\ Manager!Init /\ NoMouseState /\ NoLogRing /\ held = Unused
       /\ queues = Unused /\ ready = Unused /\ channel = Unused /\ faults = Unused
       /\ changed = Unused /\ owed = Unused /\ file = Unused /\ pos = Unused
       /\ prev_record_len = Unused /\ last = Unused
    \/ /\ part = "mouse" /\ Mouse!Init /\ NoInputMgr /\ NoLogRing /\ held = Unused
       /\ queues = Unused /\ ready = Unused /\ channel = Unused /\ faults = Unused
       /\ changed = Unused /\ owed = Unused /\ file = Unused /\ pos = Unused
       /\ prev_record_len = Unused /\ last = Unused
    \/ /\ part = "stream" /\ Stream!Init /\ NoInputMgr /\ rel = Unused /\ blocks = Unused
       /\ state = Unused /\ switch_state = Unused /\ taking = Unused /\ down = Unused
       /\ moved = Unused /\ since = Unused /\ mixed = Unused /\ data = Unused /\ start = Unused
       /\ insert = Unused /\ size = Unused /\ last_lines_count = Unused /\ word = Unused
       /\ call = Unused /\ mtx = Unused /\ b = Unused /\ count = Unused /\ win = Unused
       /\ file = Unused /\ pos = Unused /\ prev_record_len = Unused /\ last = Unused
    \/ /\ part = "log" /\ Log!Init /\ NoInputMgr /\ NoMouseState /\ held = Unused
       /\ queues = Unused /\ ready = Unused /\ channel = Unused /\ faults = Unused
       /\ changed = Unused /\ owed = Unused /\ file = Unused /\ pos = Unused
       /\ prev_record_len = Unused /\ last = Unused
    \/ /\ part = "log any" /\ Any!Init /\ NoInputMgr /\ NoMouseState /\ held = Unused
       /\ queues = Unused /\ ready = Unused /\ channel = Unused /\ faults = Unused
       /\ changed = Unused /\ owed = Unused /\ file = Unused /\ pos = Unused
       /\ prev_record_len = Unused /\ last = Unused
    \/ /\ part = "log race" /\ Race!Init /\ NoInputMgr /\ NoMouseState /\ held = Unused
       /\ queues = Unused /\ ready = Unused /\ channel = Unused /\ faults = Unused
       /\ changed = Unused /\ owed = Unused /\ file = Unused /\ pos = Unused
       /\ prev_record_len = Unused /\ last = Unused
    \/ /\ part = "log file" /\ File!Init /\ NoInputMgr /\ NoMouseState /\ held = Unused
       /\ queues = Unused /\ ready = Unused /\ channel = Unused /\ faults = Unused
       /\ changed = Unused /\ owed = Unused /\ data = Unused /\ start = Unused /\ insert = Unused
       /\ size = Unused /\ last_lines_count = Unused /\ word = Unused /\ mtx = Unused
       /\ b = Unused /\ count = Unused
    \/ /\ part = "log screen" /\ Screen!Init /\ NoInputMgr /\ NoMouseState /\ held = Unused
       /\ queues = Unused /\ ready = Unused /\ channel = Unused /\ faults = Unused
       /\ changed = Unused /\ owed = Unused /\ data = Unused /\ start = Unused /\ insert = Unused
       /\ size = Unused /\ last_lines_count = Unused /\ word = Unused /\ mtx = Unused
       /\ b = Unused /\ count = Unused
    \/ /\ part = "log lines" /\ Plain!Init /\ NoInputMgr /\ NoMouseState /\ held = Unused
       /\ queues = Unused /\ ready = Unused /\ channel = Unused /\ faults = Unused
       /\ changed = Unused /\ owed = Unused /\ data = Unused /\ start = Unused /\ insert = Unused
       /\ size = Unused /\ last_lines_count = Unused /\ word = Unused /\ mtx = Unused
       /\ b = Unused /\ count = Unused

ManagerStep == part = "manager" /\ Manager!Next /\ UNCHANGED <<part, NotInputMgr>>
MouseStep == part = "mouse" /\ Mouse!Next /\ UNCHANGED <<part, NotMouseState>>
StreamStep == part = "stream" /\ Stream!Next /\ UNCHANGED <<part, NotEventStream>>
LogStep == part = "log" /\ Log!Next /\ UNCHANGED <<part, NotLogRing>>
AnyStep == part = "log any" /\ Any!Next /\ UNCHANGED <<part, NotLogRing>>
RaceStep == part = "log race" /\ Race!Next /\ UNCHANGED <<part, NotLogRing>>
FileStep == part = "log file" /\ File!Next /\ UNCHANGED <<part, NotLogFile>>
ScreenStep == part = "log screen" /\ Screen!Next /\ UNCHANGED <<part, NotLogFile>>
PlainStep == part = "log lines" /\ Plain!Next /\ UNCHANGED <<part, NotLogFile>>

\* These may stop; the others never do.
Rests == part \in {"stream", "log file", "log screen", "log lines"} /\ UNCHANGED vars

Next == \/ ManagerStep \/ MouseStep \/ StreamStep \/ LogStep \/ AnyStep \/ RaceStep \/ FileStep
        \/ ScreenStep \/ PlainStep \/ Rests

Spec ==
    /\ Init /\ [][Next]_vars
    /\ WF_vars(part = "manager" /\ Manager!Worker /\ UNCHANGED <<part, NotInputMgr>>)
    /\ WF_vars(part = "manager" /\ Manager!Joined /\ UNCHANGED <<part, NotInputMgr>>)
    /\ WF_vars(part = "stream" /\ Stream!Poller /\ UNCHANGED <<part, NotEventStream>>)
    /\ WF_vars(part = "stream" /\ Stream!Receive /\ UNCHANGED <<part, NotEventStream>>)

-----------------------------------------------------------------------------
\* Input manager: the attached mice are the ones the epoller has, an edge is
\* not lost between a handler and the next wait, and the byte that stops the
\* thread is read before the next start.
MiceRegistered ==
    part = "manager" => Manager!TypeOK /\ Manager!MiceRegistered /\ Manager!EdgeKept /\ Manager!StopConsumed

\* Mouse state: no motion and no change of a key is lost between the handler
\* and the program that takes it, wraps included, and once everything is taken
\* the shown state of a key is that of the device.
Settled ==
    part = "mouse" => Mouse!TypeOK /\ Mouse!MotionKept /\ Mouse!ChangesKept /\ Mouse!Settled

\* Event stream: without faults every press is played, in order, and a lost,
\* repeated or late datagram is made good by the next change of the same key.
PressesPlayed ==
    part = "stream" => Stream!TypeOK /\ Stream!Heals /\ Stream!PressesPlayed

\* Log ring: it shows the newest lines of the log, and the last record as it
\* was updated with the count of its repetitions; with racing writers it shows
\* what was handed to it, in that order; and the time is in the first line of a
\* record and in no other, whatever the callers do.
RingView ==
    /\ part = "log" => Log!TypeOK /\ Log!LogView /\ Log!LastCallShown
    /\ part = "log any" => Any!TimeInFirstLine
    /\ part = "log race" => Race!LogView

\* Log files: a file or a terminal shows the records in order, a record written
\* over the last one touches no older one, and with racing writers every new
\* record is whole.
FileView ==
    /\ part = "log file" => File!TypeOK /\ File!FileView
    /\ part = "log screen" => Screen!TypeOK /\ Screen!FileView
    /\ part = "log lines" => Plain!FileView

\* Epoller thread and event stream: stop() returns, the events of an attached
\* mouse are read while the thread runs, and the queues of the stream drain,
\* whatever the changes.
ThreadsAnswer ==
    /\ (part = "manager" /\ joining) ~> (part = "manager" => ~joining)
    /\ \A m \in Mice :
          (part = "manager" /\ Manager!Unread(m))
          ~> (part = "manager" => Manager!Settles(m))
    /\ []<>(part = "stream" => Stream!Idle)
=============================================================================
