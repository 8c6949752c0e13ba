-------------------------------- MODULE InBuffer --------------------------------
(***************************************************************************)
(* io::in_base over a file: reads are served from a buffer of BS bytes.    *)
(* The file gives between one and all of the bytes asked for, and none at  *)
(* its end; a read that ends within an element throws partial_read_error.  *)
(***************************************************************************)
EXTENDS Integers, Sequences

CONSTANTS
    BS,         \* buffer_capacity()
    Length,     \* the bytes of the file
    MaxCount,   \* bound: the elements of one read
    Sizes,      \* the sizes of an element
    Short       \* whether the file may give fewer bytes than it has

InAssumption ==
    {BS, Length, MaxCount} \subseteq Nat \ {0} /\ Sizes \subseteq Nat \ {0} /\ Short \in BOOLEAN

VARIABLES
    fpos,           \* external: the position of the file
    buff, pos, size,\* the bytes pos+1..pos+size of buff are not read yet
    out,            \* what the last operation gave to its caller
    partial,        \* whether it threw partial_read_error
    last            \* the last call: a read of n bytes, a seek to n, a copy

vars == <<fpos, buff, pos, size, out, partial, last>>

Least(a, b) == IF a < b THEN a ELSE b

\* The position as the user of the stream knows it.
Logical == fpos - size

Init == /\ fpos = 0 /\ buff = <<>> /\ pos = 0 /\ size = 0
        /\ out = <<>> /\ partial = FALSE /\ last = [op |-> "none", n |-> 0]

\* External: the sizes a read of n bytes at position p may have.
Gives(p, n) ==
    LET most == Least(n, Length - p)
    IN  IF Short /\ most > 0 THEN 1..most ELSE {most}

\* External: the n bytes of the file behind position p, named by their places.
Bytes(p, n) == [i \in 1..n |-> p + i]

\* The buffered bytes, and take_next() when there are none, as records.
Ready == IF size > 0 THEN {[buff |-> buff, pos |-> pos, size |-> size, fpos |-> fpos]}
         ELSE {[buff |-> Bytes(fpos, n), pos |-> 0, size |-> n, fpos |-> fpos + n] :
                  n \in Gives(fpos, BS)}

AtEnd(b) ==
    /\ b.size = 0
    /\ out' = <<>> /\ partial' = FALSE
    /\ buff' = b.buff /\ pos' = b.pos /\ size' = 0 /\ UNCHANGED fpos

FromBuffer(b, n) ==
    /\ b.size >= n
    /\ out' = SubSeq(b.buff, b.pos + 1, b.pos + n) /\ partial' = FALSE
    /\ buff' = b.buff /\ pos' = b.pos + n /\ size' = b.size - n /\ fpos' = b.fpos

\* Mutation: relocate_to() copies from the start of the buffer.
BeyondBufferAtFront(b, n, e) ==
    /\ 0 < b.size /\ b.size < n
    /\ \E m \in Gives(b.fpos, n - b.size) :
        /\ out' = SubSeq(b.buff, 1, b.size) \o Bytes(b.fpos, m)
        /\ partial' = ((b.size + m) % e # 0)
        /\ fpos' = b.fpos + m
    /\ buff' = b.buff /\ pos' = 0 /\ size' = 0

\* Mutation: what is left after the buffered bytes is not read.
BeyondBufferOnce(b, n, e) ==
    /\ 0 < b.size /\ b.size < n
    /\ out' = SubSeq(b.buff, b.pos + 1, b.pos + b.size)
    /\ partial' = (b.size % e # 0)
    /\ buff' = b.buff /\ pos' = 0 /\ size' = 0 /\ fpos' = b.fpos

\* All of the buffer, then one read of the file for the rest.
BeyondBuffer(b, n, e) ==
    /\ 0 < b.size /\ b.size < n
    /\ \E m \in Gives(b.fpos, n - b.size) :
        /\ out' = SubSeq(b.buff, b.pos + 1, b.pos + b.size) \o Bytes(b.fpos, m)
        /\ partial' = ((b.size + m) % e # 0)
        /\ fpos' = b.fpos + m
    /\ buff' = b.buff /\ pos' = 0 /\ size' = 0

Read(count, e) ==
    /\ last' = [op |-> "read", n |-> count * e]
    /\ \E b \in Ready : \/ AtEnd(b)
                        \/ FromBuffer(b, count * e)
                        \/ BeyondBuffer(b, count * e, e)

\* External: a seek of the file to p, which throws for a negative p.
FileSeek(p) ==
    \/ p >= 0 /\ fpos' = p /\ size' = 0 /\ UNCHANGED <<buff, pos>>
    \/ p < 0 /\ UNCHANGED <<fpos, size, buff, pos>>

\* Mutation: the file is moved from its own position, not the stream's.
SeekCurUnadjusted(d) ==
    /\ out' = <<>> /\ partial' = FALSE /\ last' = [op |-> "seek", n |-> Logical + d]
    /\ IF 0 < d /\ d <= size
       THEN pos' = pos + d /\ size' = size - d /\ UNCHANGED <<fpos, buff>>
       ELSE FileSeek(fpos + d)

\* A seek by d within the buffer forwards, or of the file.
SeekCur(d) ==
    /\ out' = <<>> /\ partial' = FALSE /\ last' = [op |-> "seek", n |-> Logical + d]
    /\ IF 0 < d /\ d <= size
       THEN pos' = pos + d /\ size' = size - d /\ UNCHANGED <<fpos, buff>>
       ELSE FileSeek(fpos + d - size)

\* Mutation: the buffered bytes survive a seek of the file.
SeekSetKept(p) ==
    /\ fpos' = p /\ UNCHANGED <<buff, pos, size>>
    /\ out' = <<>> /\ partial' = FALSE /\ last' = [op |-> "seek", n |-> p]

SeekSet(p) == /\ FileSeek(p)
              /\ out' = <<>> /\ partial' = FALSE /\ last' = [op |-> "seek", n |-> p]

\* operator>>: the buffered bytes, then whole buffers until one is not filled.
CopyRest ==
    /\ last' = [op |-> "copy", n |-> 0]
    /\ \E n \in 0..(Length - fpos) :
        /\ (n % BS) \in Gives(fpos + n - (n % BS), BS)
        /\ out' = SubSeq(buff, pos + 1, pos + size) \o Bytes(fpos, n) /\ partial' = FALSE
        /\ buff' = Bytes(fpos + n - (n % BS), n % BS) /\ pos' = 0 /\ size' = 0
        /\ fpos' = fpos + n

Next == \/ \E count \in 1..MaxCount, e \in Sizes : Read(count, e)
        \/ \E d \in (-Length)..Length : Logical + d <= Length /\ SeekCur(d)
        \/ \E p \in 0..Length : SeekSet(p)
        \/ CopyRest

Spec == Init /\ [][Next]_vars

-----------------------------------------------------------------------------
TypeOK == /\ fpos \in 0..Length /\ size \in 0..BS /\ pos + size <= Len(buff)
          /\ Len(buff) <= BS /\ partial \in BOOLEAN

\* The unread part of the buffer is what the file holds right before its
\* position, so the position of the stream is that of the file less size.
Window == SubSeq(buff, pos + 1, pos + size) = Bytes(Logical, size)

\* Reads and copies, however they fall on the edges of the buffer and however
\* short the file's reads are, give the bytes at the stream's position and
\* leave the position behind them: none is given twice and none skipped, also
\* when the read throws.
Consecutive ==
    last'.op \in {"read", "copy"} =>
        out' = Bytes(Logical, Len(out')) /\ Logical' = Logical + Len(out')

\* A read gives nothing at the end of the file only, and it gives less than it
\* was asked for only when the file did.
ReadsAll ==
    last'.op = "read" =>
        /\ out' = <<>> => Logical = Length
        /\ ~Short => Len(out') = Least(last'.n, Length - Logical)

\* A seek moves the stream relative to the position its user knows, whatever is
\* buffered, and one to before the start leaves it as it was.
SeekMoves ==
    last'.op = "seek" => Logical' = IF last'.n >= 0 THEN last'.n ELSE Logical
=============================================================================
