------------------------------- MODULE ArgParse -------------------------------
(***************************************************************************)
(* util::parse_args: the fields of a command take their arguments out of   *)
(* the list, one field after the other in the order of the declaration.    *)
(***************************************************************************)
EXTENDS Integers, Sequences, SequencesExt

CONSTANTS
    Commands,   \* sequences of fields: a kind, the name on the command line and an id
    Subs,       \* the fields of the subcommands, by name
    Numbers,    \* the texts from which ston makes a number
    Tokens, MaxArgs     \* bound: the arguments there are, and how many of them

\* The forms an argument can have: key=value, --name, and any other word.
Word(w) == [form |-> "word", key |-> "", value |-> w]
Dash(k) == [form |-> "dash", key |-> k, value |-> ""]

ArgAssumption == MaxArgs \in Nat /\ Commands # {}

VARIABLES
    line,       \* the arguments after the path of the program
    args,       \* the list of those that are left
    todo,       \* the fields still to be filled, with a test for help at the ends of a command
    filled,     \* the fields that are filled
    result,     \* what they got, by id
    status      \* "parsing", "parsed", "missing", "help", "undefined"

vars == <<line, args, todo, filled, result, status>>

Help == [kind |-> "help", name |-> "help", id |-> "help"]
Command(fields) == <<Help>> \o fields \o <<Help>>

Init ==
    /\ line \in UNION {[1..n -> Tokens] : n \in 0..MaxArgs} /\ args = line
    /\ \E c \in Commands : todo = Command(c)
    /\ filled = <<>> /\ result = [i \in {} |-> <<>>] /\ status = "parsing"

Keyed == {"number", "string", "optional"}
Field == Head(todo)
IsField(kinds) == status = "parsing" /\ todo # <<>> /\ Field.kind \in kinds
Fill(value) == /\ result' = [i \in DOMAIN result \cup {Field.id} |->
                                IF i = Field.id THEN value ELSE result[i]]
               /\ filled' = Append(filled, Field) /\ UNCHANGED <<line, status>>
Fail(how) == status' = how /\ UNCHANGED <<line, args, todo, filled, result>>

First(S) == CHOOSE i \in S : \A j \in S : i <= j
\* Mutation: the erased range is one too long.
WithoutNext(from, to) == SubSeq(args, 1, from - 1) \o SubSeq(args, to + 2, Len(args))
Without(from, to) == SubSeq(args, 1, from - 1) \o SubSeq(args, to + 1, Len(args))

-----------------------------------------------------------------------------
TestHelp ==
    /\ IsField({"help"})
    /\ IF args # <<>> /\ Head(args) = Dash("help") THEN Fail("help")
       ELSE todo' = Tail(todo) /\ UNCHANGED <<line, args, filled, result, status>>

\* arg_bool: the first --name anywhere in the list.
ArgBool ==
    LET hits == {i \in DOMAIN args : args[i] = Dash(Field.name)}
    IN  /\ IsField({"boolean"}) /\ todo' = Tail(todo)
        /\ IF hits = {} THEN Fill(<<>>) /\ UNCHANGED args
           ELSE Fill(<<Dash(Field.name)>>) /\ args' = Without(First(hits), First(hits))

\* arg_cast: any text is a string, and a number must be one.
Castable(value) == Field.kind = "number" => value.value \in Numbers

\* arg_by_key: the first key=value, or --key with the argument behind it,
\* whatever that is.
LastTaken(i) == IF args[i].form = "key" THEN i ELSE i + 1
ArgByKey ==
    LET hits == {i \in DOMAIN args : args[i].form \in {"key", "dash"} /\ args[i].key = Field.name}
        i == First(hits)
        value == IF args[i].form = "key" THEN Word(args[i].value) ELSE args[i + 1]
    IN  /\ IsField(Keyed)
        /\ IF hits = {}
           THEN IF Field.kind = "optional" THEN Fill(<<>>) /\ todo' = Tail(todo) /\ UNCHANGED args
                ELSE Fail("missing")
           ELSE IF LastTaken(i) > Len(args) \/ ~Castable(value) THEN Fail("missing")
           ELSE Fill(<<value>>) /\ args' = Without(i, LastTaken(i)) /\ todo' = Tail(todo)

\* A positional argument is the next of the list, a vector takes them all.
ArgNext ==
    /\ IsField({"positional"})
    /\ IF args = <<>> THEN Fail("missing")
       ELSE Fill(<<Head(args)>>) /\ args' = Tail(args) /\ todo' = Tail(todo)
ArgRest == IsField({"rest"}) /\ Fill(args) /\ args' = <<>> /\ todo' = Tail(todo)

\* parse_commands_var: the next argument names the subcommand, whose fields
\* come first.  Without the alternative null an empty list is not tested for.
Named(name) == args # <<>> /\ Head(args) = Word(name)
ParseVar ==
    /\ IsField({"sub", "optional sub"})
    /\ \/ \E name \in DOMAIN Subs :
            /\ Named(name) /\ Fill(<<Word(name)>>) /\ args' = Tail(args)
            /\ todo' = Command(Subs[name]) \o Tail(todo)
       \/ /\ \A name \in DOMAIN Subs : ~Named(name)
          /\ IF Field.kind = "optional sub"
             THEN Fill(<<>>) /\ todo' = Tail(todo) /\ UNCHANGED args
             ELSE Fail(IF args = <<>> THEN "undefined" ELSE "missing")

Parsed == /\ status = "parsing" /\ todo = <<>> /\ status' = "parsed"
          /\ UNCHANGED <<line, args, todo, filled, result>>

Next == TestHelp \/ ArgBool \/ ArgByKey \/ ArgNext \/ ArgRest \/ ParseVar \/ Parsed
Spec == Init /\ [][Next]_vars

-----------------------------------------------------------------------------
TypeOK == /\ status \in {"parsing", "parsed", "missing", "help", "undefined"}
          /\ DOMAIN result = {filled[i].id : i \in DOMAIN filled}
          /\ Len(args) <= Len(line)

\* A line that is written as it is meant to be: --key with a word behind it, no
\* option twice, none that no field has, and the options of a subcommand behind
\* its name.
ValueAt(i) == i > 1 /\ line[i - 1].form = "dash"
                /\ \E f \in ToSet(filled) : f.kind \in Keyed /\ f.name = line[i - 1].key
Options == {i \in DOMAIN line : line[i].form # "word" /\ ~ValueAt(i)}
IsOf(i, f) == /\ f.name = line[i].key
              /\ f.kind \in Keyed \/ (f.kind = "boolean" /\ line[i].form = "dash")
Behind(i, q) == \A p \in 1..(q - 1) : filled[p].kind \in {"sub", "optional sub"} =>
                    \E j \in 1..(i - 1) : ~ValueAt(j) /\ <<line[j]>> = result[filled[p].id]
Plain ==
    /\ \A i \in DOMAIN line : ValueAt(i) => line[i].form = "word"
    /\ \A i, j \in Options : line[i].key = line[j].key => i = j
    /\ \A i \in Options : \E q \in DOMAIN filled : IsOf(i, filled[q]) /\ Behind(i, q)

Meaning(f) ==
    LET at == {i \in Options : line[i].key = f.name}
        i == First(at)
    IN  IF at = {} THEN <<>>
        ELSE IF f.kind = "boolean" THEN <<line[i]>>
        ELSE IF line[i].form = "key" THEN <<Word(line[i].value)>> ELSE <<line[i + 1]>>

Words == LET at == SetToSortSeq({i \in DOMAIN line : line[i].form = "word" /\ ~ValueAt(i)}, <)
         IN  [k \in DOMAIN at |-> line[at[k]]]

\* In a plain line the order of the options means nothing: each option goes to
\* its field, wherever it stands, and the words that are left go to the
\* positional fields and the subcommand in their order, with none lost.
OptionsAnywhere == status = "parsed" /\ Plain =>
    /\ \A f \in ToSet(filled) : f.kind \in Keyed \cup {"boolean"} => result[f.id] = Meaning(f)
    /\ FoldLeft(LAMBDA s, f : s \o result[f.id], <<>>,
                SelectSeq(filled, LAMBDA f : f.kind \notin Keyed \cup {"boolean"})) \o args = Words
=============================================================================
