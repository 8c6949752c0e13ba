--------------------------------- MODULE Subst ---------------------------------
(***************************************************************************)
(* views::subst: the iterator that gives a text piece by piece with each   *)
(* ${key} replaced by the value of the key, and the variables of the value *)
(* in turn.  The places to return to are on a stack of fixed size.         *)
(***************************************************************************)
EXTENDS Integers, Sequences, SequencesExt

CONSTANTS
    Letters,    \* the characters of the texts besides the three symbols
    MaxLen,     \* bound: the length of the texts
    Tables,     \* the sequences of entries, each with what and replace_with
    Depth       \* MaxRecursionDepth

SubstAssumption == Letters \cap {"$", "{", "}"} = {} /\ {MaxLen, Depth} \subseteq Nat

NPos == -1
Chars == Letters \cup {"$", "{", "}"}

\* A text with a lone symbol at its end is never finished, see the README.
Finishes(s) == s = <<>> \/ Last(s) # "$"
Texts == {s \in UNION {[1..n -> Chars] : n \in 0..MaxLen} : Finishes(s)}

VARIABLES
    text, entries,  \* what the iterator was made of
    states,         \* the stack of saved positions, the current one last
    finding,        \* in the loop of find_subst_symbol
    out             \* the pieces the consumer got, joined

vars == <<text, entries, states, finding, out>>

Init ==
    /\ text \in Texts /\ entries \in Tables
    /\ states = <<[restore_pos |-> 0, end |-> 0, data |-> text]>>
    /\ finding = TRUE /\ out = <<>>

State == Last(states)
WithState(s) == [states EXCEPT ![Len(states)] = s]

\* The number of characters before the first c at or after a position.
Find(s, c, from) ==
    LET at == {i \in from..(Len(s) - 1) : s[i + 1] = c}
    IN  IF at = {} THEN NPos ELSE CHOOSE i \in at : \A j \in at : i <= j
Rest(s, from) == SubSeq(s, from + 1, Len(s))

-----------------------------------------------------------------------------
\* Mutation: the search stays at a symbol that opens no variable.
FindSymbolStays ==
    LET e == IF State.end = NPos THEN NPos ELSE Find(State.data, "$", State.end)
        opens == e # NPos /\ e + 1 < Len(State.data) /\ State.data[e + 2] = "{"
    IN  /\ finding /\ states # <<>>
        /\ states' = WithState([State EXCEPT !.end = e]) /\ finding' = (e # NPos /\ ~opens)
        /\ UNCHANGED <<text, entries, out>>

\* A round of the loop: on from the next symbol, unless it opens a variable.
FindSymbol ==
    LET e == IF State.end = NPos THEN NPos ELSE Find(State.data, "$", State.end)
        more == e # NPos /\ e + 1 < Len(State.data)
        opens == more /\ State.data[e + 2] = "{"
    IN  /\ finding /\ states # <<>>
        /\ states' = WithState([State EXCEPT !.end = IF more /\ ~opens THEN e + 1 ELSE e])
        /\ finding' = (e # NPos /\ ~opens)
        /\ UNCHANGED <<text, entries, out>>

\* get_value: the first entry with the key, or nothing.
GetValue(key) ==
    LET hits == {i \in DOMAIN entries : entries[i].what = key}
    IN  IF hits = {} THEN <<>>
        ELSE entries[CHOOSE i \in hits : \A j \in hits : i <= j].replace_with

\* make_subst: behind the variable, which the end of the text closes as well,
\* and into its value if there is room for it.
MakeSubst ==
    LET start == State.end + 2
        close == Find(State.data, "}", start)
        end == IF close = NPos THEN Len(State.data) ELSE close
        e == IF close = NPos THEN end ELSE end + 1
        value == GetValue(SubSeq(State.data, start + 1, end))
    IN  IF Len(states) = Depth + 1 THEN WithState([State EXCEPT !.end = e])
        ELSE Append(WithState([State EXCEPT !.end = e]),
                    [restore_pos |-> e, end |-> 0, data |-> value])

\* Mutation: the rest of the outer text starts at its variable.
ExitSubstBefore ==
    LET outer == Front(states)
    IN  IF outer = <<>> THEN <<>>
        ELSE [outer EXCEPT ![Len(outer)] =
                 [@ EXCEPT !.end = 0, !.data = Rest(@, Find(@, "$", 0) + 2)]]

\* exit_subst: the outer text goes on behind the variable.
ExitSubst ==
    LET outer == Front(states)
    IN  IF outer = <<>> THEN <<>>
        ELSE [outer EXCEPT ![Len(outer)] =
                 [@ EXCEPT !.end = 0, !.data = Rest(@, State.restore_pos)]]

\* The consumer takes *it and then calls ++it.
Piece == IF State.end = NPos THEN State.data ELSE SubSeq(State.data, 1, State.end)
Advance ==
    /\ ~finding /\ states # <<>>
    /\ out' = out \o Piece
    /\ states' = IF State.end = NPos THEN ExitSubst ELSE MakeSubst
    /\ finding' = TRUE /\ UNCHANGED <<text, entries>>

Next == FindSymbol \/ Advance
Spec == Init /\ [][Next]_vars /\ WF_vars(Next)

-----------------------------------------------------------------------------
TypeOK ==
    /\ finding \in BOOLEAN /\ Len(states) <= Depth + 1
    /\ \A i \in DOMAIN states :
          states[i].end \in -1..Len(states[i].data) /\ states[i].restore_pos >= 0

FirstOpen(s, from) ==
    LET opens == {i \in (from + 1)..(Len(s) - 1) : s[i] = "$" /\ s[i + 1] = "{"}
    IN  IF opens = {} THEN 0 ELSE CHOOSE j \in opens : \A k \in opens : j <= k
Behind(s, at) ==
    LET close == Find(s, "}", at + 1) IN IF close = NPos THEN Len(s) ELSE close + 1

\* What the iterator makes of a text with no room for its variables: it gives
\* what is before each of them from the start of the text, and then all of it.
\* A text without a variable, or with one that nothing precedes, is given once.
AtFullDepth[s \in Seq(Chars), from \in Nat] ==
    LET i == FirstOpen(s, from)
    IN  IF i = 0 THEN s ELSE SubSeq(s, 1, i - 1) \o AtFullDepth[s, Behind(s, i)]

\* What the text means: every variable is replaced by the meaning of its value,
\* down to the depth at which a value is left with its variables.
Expand[s \in Seq(Chars), depth \in 0..Depth] ==
    LET i == FirstOpen(s, 0)
        end == Behind(s, i)
        key == SubSeq(s, i + 2, IF Find(s, "}", i + 1) = NPos THEN end ELSE end - 1)
    IN  IF depth = 0 THEN AtFullDepth[s, 0]
        ELSE IF i = 0 THEN s
        ELSE SubSeq(s, 1, i - 1) \o Expand[GetValue(key), depth - 1] \o Expand[Rest(s, end), depth]

\* The pieces make up what the text means: nothing of it is given twice when
\* the iterator returns from a value, and nothing is skipped, but for the values
\* at full depth, which AtFullDepth describes.
IsExpansion ==
    /\ IsPrefix(out, Expand[text, Depth])
    /\ states = <<>> => out = Expand[text, Depth]

\* The iterator reaches its end, recursive entries included.
Ends == <>(states = <<>>)
=============================================================================
