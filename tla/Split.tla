--------------------------------- MODULE Split ---------------------------------
(***************************************************************************)
(* views::split and split_if: the iterator over the fields of a range, by  *)
(* which the log handlers take a message apart.                            *)
(***************************************************************************)
EXTENDS Integers, Sequences, SequencesExt, FiniteSetsExt

CONSTANTS Chars, Delims,    \* the elements, and the ones that separate fields
          MaxLen            \* bound: the length of the range

SplitAssumption == Delims \subseteq Chars /\ MaxLen \in Nat

VARIABLES
    range, allow_empty,     \* what the iterator was made of
    b, e,                   \* the field: the elements before its start and before its end
    repeat,                 \* in the loop of next()
    fields                  \* what the consumer got

vars == <<range, allow_empty, b, e, repeat, fields>>

End == Len(range)
Stop(r, from) == Min({i \in from..Len(r) : i = Len(r) \/ r[i + 1] \in Delims})

\* init(): in the mode that skips empty fields not at a delimiter.
Init ==
    /\ range \in UNION {[1..n -> Chars] : n \in 0..MaxLen} /\ allow_empty \in BOOLEAN
    /\ b = IF allow_empty THEN 0
           ELSE Min({i \in 0..Len(range) : i = Len(range) \/ range[i + 1] \notin Delims})
    /\ e = Stop(range, b)
    /\ repeat = FALSE /\ fields = <<>>

\* The consumer takes *it, while it is not the end, and then calls ++it.
Take ==
    /\ ~repeat /\ b # End
    /\ fields' = Append(fields, SubSeq(range, b + 1, e)) /\ repeat' = TRUE
    /\ UNCHANGED <<range, allow_empty, b, e>>

\* Mutation: one empty field is skipped, not all of them.
FollowOnce ==
    /\ repeat /\ UNCHANGED <<range, allow_empty, fields>>
    /\ LET from == IF e = End THEN e
                   ELSE IF allow_empty \/ e + 1 = End \/ range[e + 2] \notin Delims THEN e + 1 ELSE e + 2
       IN  b' = from /\ e' = Stop(range, from)
    /\ repeat' = FALSE

\* A round of the loop: the field behind the delimiter, or the end.
Follow ==
    /\ repeat /\ UNCHANGED <<range, allow_empty, fields>>
    /\ IF e = End THEN b' = End /\ repeat' = FALSE /\ UNCHANGED e
       ELSE /\ b' = e + 1 /\ e' = Stop(range, e + 1)
            /\ repeat' = (~allow_empty /\ b' = e')

Next == Take \/ Follow
Spec == Init /\ [][Next]_vars

-----------------------------------------------------------------------------
TypeOK == b \in 0..End /\ e \in b..End /\ repeat \in BOOLEAN

\* The stretches between two delimiters that have none within.
Between ==
    FoldLeft(LAMBDA fs, c : IF c \in Delims THEN Append(fs, <<>>)
                            ELSE Append(Front(fs), Append(Last(fs), c)),
             <<<<>>>>, range)

\* What is promised: all fields, or the ones that are not empty.  An empty
\* field behind the last delimiter is never given.
Promised ==
    IF allow_empty
    THEN IF Last(Between) = <<>> THEN Front(Between) ELSE Between
    ELSE SelectSeq(Between, LAMBDA f : f # <<>>)

\* The fields come in order, each once, and all of them by the end.
IsSplit == /\ IsPrefix(fields, Promised)
           /\ ~repeat /\ b = End => fields = Promised
=============================================================================
