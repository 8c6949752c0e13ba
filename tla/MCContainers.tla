----------------------------- MODULE MCContainers -----------------------------
(*****************************************************************************)
(* The containers and the algorithms of core for TLC. A behaviour is of one  *)
(* of them, and the specification is the union of theirs.                    *)
(*****************************************************************************)
EXTENDS RingBuffer

CONSTANT Unused   \* the value of the variables of the parts that do not run

CONSTANTS
    MapCap, MapKeys, MapVals, MapDefault,       \* the robin map
    VarObjs, Alternatives, VarNums,             \* the variants
    FuncObjs, Callables, FuncNums,              \* the functions
    OptObjs, OptNums,                           \* the optional values
    Rank, MaxSize, IndexWidth,                  \* the index ranges
    LiteralWidth, MaxChars,                     \* the integer literals
    Letters, MaxText, Depth,                    \* the substitutions
    RangeChars, Delims, MaxRange,               \* the fields of a range
    MaxArgs                                     \* the command lines

Entry(key, value) == [what |-> key, replace_with |-> value]
K == <<"k">>
EntryTables ==
    {<<Entry(K, K)>>, <<Entry(K, <<>>), Entry(K, K)>>, <<Entry(K, <<"$", "{", "k", "}", "k">>)>>,
     <<Entry(K, <<"k", "$", "{", "}", "k">>), Entry(<<>>, K)>>, <<Entry(K, <<"{", "k", "}">>)>>,
     <<Entry(K, <<"$", "{", "}", "$", "{", "k", "}", "k">>)>>,
     <<Entry(K, <<"k", "$", "{", "k", "}", "k", "$", "{">>), Entry(<<>>, <<"{", "$", "{", "k", "}">>)>>}

FieldOf(kind, name) == [kind |-> kind, name |-> name, id |-> <<kind, name>>]
Flag == FieldOf("boolean", "test")
MainCommands ==
    {<<Flag, FieldOf("number", "lol"), FieldOf("sub", ""), FieldOf("rest", "")>>,
     <<FieldOf("optional", "lol"), Flag, FieldOf("positional", "file"), FieldOf("optional sub", "")>>}
SubCommands == [trace |-> <<FieldOf("boolean", "enable")>>,
                log   |-> <<FieldOf("string", "name"), FieldOf("positional", "to")>>]
ArgTokens ==
    {[form |-> "dash", key |-> k, value |-> ""] : k \in {"help", "test", "lol", "enable"}}
        \cup {[form |-> "word", key |-> "", value |-> v] : v \in {"1", "trace", "log"}}
        \cup {[form |-> "key", key |-> "lol", value |-> "1"], [form |-> "key", key |-> "name", value |-> "1"]}

VARIABLES
    part,   \* the part that runs in this behaviour
    cells, occupied, pc, carry, at, ret, assign, traits, mem, idx, bpos, made, bad, call, mgr,
    spent, bytes, throws, value, has_value, first, sizes, current, radix, steps, base, result,
    overflow, read, exact, text, entries, states, finding, out, range, allow_empty, b, e,
    repeat, fields, line, args, todo, filled, status

containersVars == <<part, data, start, insert, size, cells, occupied, pc, carry, at, ret, assign, traits, mem,
          idx, bpos, made, bad, call, mgr, spent, bytes, throws, value, has_value, first, sizes,
          current, radix, steps, base, result, overflow, read, exact, text, entries, states,
          finding, out, range, allow_empty, b, e, repeat, fields, line, args, todo, filled,
          status>>

\* A map, whose keys may share a home.
Map == INSTANCE RobinMap WITH
    Cap <- MapCap, Keys <- MapKeys, Vals <- MapVals, DefaultVal <- MapDefault, data <- cells

\* Variants.
Var == INSTANCE VarHolder WITH
    Objs <- VarObjs, Types <- Alternatives, Nums <- VarNums

\* Functions, whose callables may throw.
Func == INSTANCE FunctionHolder WITH
    Objs <- FuncObjs, Nums <- FuncNums

\* Optional values.
Opt == INSTANCE OptHolder WITH
    Objs <- OptObjs, Nums <- OptNums

\* Index ranges from the origin.
Indexes == INSTANCE DimensionalSeq WITH
    Width <- IndexWidth, Starts <- FALSE, size <- sizes

\* Literals.
Literal == INSTANCE IntLiteral WITH
    Width <- LiteralWidth

\* Texts: values with variables, recursive and empty ones, an empty key.
Substitution == INSTANCE Subst WITH
    MaxLen <- MaxText, Tables <- EntryTables

\* Ranges with delimiters.
Splitting == INSTANCE Split WITH
    MaxLen <- MaxRange, Chars <- RangeChars

\* Arguments for two commands.
Args == INSTANCE ArgParse WITH
    Commands <- MainCommands, Subs <- SubCommands, Numbers <- {"1"}, Tokens <- ArgTokens

ASSUME MCContainersAssumption ==
    /\ RingAssumption /\ Map!RobinAssumption /\ Var!VarAssumption /\ Func!FunctionAssumption
    /\ Opt!OptAssumption /\ Indexes!DimensionalAssumption /\ Literal!LiteralAssumption
    /\ Substitution!SubstAssumption /\ Splitting!SplitAssumption /\ Args!ArgAssumption

-----------------------------------------------------------------------------

NotRingBuffer == <<cells, occupied, pc, carry, at, ret, assign, traits, mem, idx, bpos, made,
                   bad, call, mgr, spent, bytes, throws, value, has_value, first, sizes,
                   current, radix, steps, base, result, overflow, read, exact, text, entries,
                   states, finding, out, range, allow_empty, b, e, repeat, fields, line, args,
                   todo, filled, status>>
NotRobinMap == <<data, start, insert, size, traits, mem, idx, bpos, made, bad, call, mgr, spent,
                 bytes, throws, value, has_value, first, sizes, current, radix, steps, base,
                 result, overflow, read, exact, text, entries, states, finding, out, range,
                 allow_empty, b, e, repeat, fields, line, args, todo, filled, status>>
NoRobinMap ==
    /\ cells = Unused /\ occupied = Unused /\ pc = Unused /\ carry = Unused /\ at = Unused
    /\ ret = Unused /\ assign = Unused
NotVarHolder == <<data, start, insert, size, cells, occupied, pc, carry, at, ret, assign, call,
                  mgr, bytes, throws, value, has_value, first, sizes, current, radix,
                  steps, base, result, overflow, read, exact, text, entries, states, finding,
                  out, range, allow_empty, b, e, repeat, fields, line, args, todo, filled,
                  status>>
NoVarHolder ==
    /\ traits = Unused /\ mem = Unused /\ idx = Unused /\ bpos = Unused /\ made = Unused
    /\ bad = Unused
NotFunctionHolder == <<data, start, insert, size, cells, occupied, pc, carry, at, ret, assign,
                       idx, bpos, bytes, throws, value, has_value, first, sizes, current, radix,
                       steps, base, result, overflow, read, exact, text, entries, states,
                       finding, out, range, allow_empty, b, e, repeat, fields, line, args, todo,
                       filled, status>>
NotOptHolder == <<data, start, insert, size, cells, occupied, pc, carry, at, ret, assign,
                  traits, mem, idx, bpos, call, mgr, spent, first, sizes, current, radix, steps,
                  base, result, overflow, read, exact, text, entries, states, finding, out,
                  range, allow_empty, b, e, repeat, fields, line, args, todo, filled, status>>
NotDimensionalSeq == <<data, start, insert, size, cells, occupied, pc, carry, at, ret, assign,
                       traits, mem, idx, bpos, made, bad, call, mgr, spent, bytes, throws,
                       value, has_value, base, result, overflow, read, exact, text, entries,
                       states, finding, out, range, allow_empty, b, e, repeat, fields, line,
                       args, todo, filled, status>>
NoDimensionalSeq ==
    /\ first = Unused /\ sizes = Unused /\ current = Unused /\ radix = Unused /\ steps = Unused
NotIntLiteral == <<data, start, insert, size, cells, occupied, pc, carry, at, ret, assign,
                   traits, mem, idx, bpos, made, bad, call, mgr, spent, bytes, throws, value,
                   has_value, first, sizes, current, radix, steps, text, entries, states,
                   finding, out, range, allow_empty, b, e, repeat, fields, line, args, todo,
                   filled, status>>
NoIntLiteral ==
    /\ base = Unused /\ result = Unused /\ overflow = Unused /\ read = Unused /\ exact = Unused
NotSubst == <<data, start, insert, size, cells, occupied, pc, carry, at, ret, assign, traits,
              mem, idx, bpos, made, bad, call, mgr, spent, bytes, throws, value, has_value,
              first, sizes, current, radix, steps, base, result, overflow, read, exact, range,
              allow_empty, b, e, repeat, fields, line, args, todo, filled, status>>
NoSubst ==
    /\ text = Unused /\ entries = Unused /\ states = Unused /\ finding = Unused /\ out = Unused
NotSplit == <<data, start, insert, size, cells, occupied, pc, carry, at, ret, assign, traits,
              mem, idx, bpos, made, bad, call, mgr, spent, bytes, throws, value, has_value,
              first, sizes, current, radix, steps, base, result, overflow, read, exact, text,
              entries, states, finding, out, line, args, todo, filled, status>>
NoSplit ==
    /\ range = Unused /\ allow_empty = Unused /\ b = Unused /\ e = Unused /\ repeat = Unused
    /\ fields = Unused
NotArgParse == <<data, start, insert, size, cells, occupied, pc, carry, at, ret, assign, traits,
                 mem, idx, bpos, made, bad, call, mgr, spent, bytes, throws, value, has_value,
                 first, sizes, current, radix, steps, base, overflow, read, exact, text,
                 entries, states, finding, out, range, allow_empty, b, e, repeat, fields>>

ContainersInit ==
    \/ /\ part = "ring" /\ Init /\ NoRobinMap /\ NoVarHolder /\ NoDimensionalSeq /\ NoIntLiteral
       /\ NoSubst /\ NoSplit /\ call = Unused /\ mgr = Unused /\ spent = Unused /\ bytes = Unused
       /\ throws = Unused /\ value = Unused /\ has_value = Unused /\ line = Unused
       /\ args = Unused /\ todo = Unused /\ filled = Unused /\ status = Unused
    \/ /\ part = "map" /\ Map!Init /\ data = <<Default>> /\ start = 0 /\ insert = 0 /\ size = 0
       /\ NoVarHolder /\ NoDimensionalSeq /\ NoIntLiteral /\ NoSubst /\ NoSplit /\ call = Unused
       /\ mgr = Unused /\ spent = Unused /\ bytes = Unused /\ throws = Unused /\ value = Unused
       /\ has_value = Unused /\ line = Unused /\ args = Unused /\ todo = Unused /\ filled = Unused
       /\ status = Unused
    \/ /\ part = "var" /\ Var!Init /\ data = <<Default>> /\ start = 0 /\ insert = 0 /\ size = 0
       /\ NoRobinMap /\ NoDimensionalSeq /\ NoIntLiteral /\ NoSubst /\ NoSplit /\ call = Unused
       /\ mgr = Unused /\ bytes = Unused /\ throws = Unused /\ value = Unused
       /\ has_value = Unused /\ line = Unused /\ args = Unused /\ todo = Unused /\ filled = Unused
       /\ status = Unused
    \/ /\ part = "function" /\ Func!Init /\ data = <<Default>> /\ start = 0 /\ insert = 0
       /\ size = 0 /\ NoRobinMap /\ NoDimensionalSeq /\ NoIntLiteral /\ NoSubst /\ NoSplit
       /\ idx = Unused /\ bpos = Unused /\ bytes = Unused /\ throws = Unused /\ value = Unused
       /\ has_value = Unused /\ line = Unused /\ args = Unused /\ todo = Unused /\ filled = Unused
       /\ status = Unused
    \/ /\ part = "opt" /\ Opt!Init /\ data = <<Default>> /\ start = 0 /\ insert = 0 /\ size = 0
       /\ NoRobinMap /\ NoDimensionalSeq /\ NoIntLiteral /\ NoSubst /\ NoSplit /\ traits = Unused
       /\ mem = Unused /\ idx = Unused /\ bpos = Unused /\ call = Unused /\ mgr = Unused
       /\ spent = Unused /\ line = Unused /\ args = Unused /\ todo = Unused /\ filled = Unused
       /\ status = Unused
    \/ /\ part = "indexes" /\ Indexes!Init /\ data = <<Default>> /\ start = 0 /\ insert = 0
       /\ size = 0 /\ NoRobinMap /\ NoVarHolder /\ NoIntLiteral /\ NoSubst /\ NoSplit
       /\ call = Unused /\ mgr = Unused /\ spent = Unused /\ bytes = Unused /\ throws = Unused
       /\ value = Unused /\ has_value = Unused /\ line = Unused /\ args = Unused /\ todo = Unused
       /\ filled = Unused /\ status = Unused
    \/ /\ part = "literal" /\ Literal!Init /\ data = <<Default>> /\ start = 0 /\ insert = 0
       /\ size = 0 /\ NoRobinMap /\ NoVarHolder /\ NoDimensionalSeq /\ NoSubst /\ NoSplit
       /\ call = Unused /\ mgr = Unused /\ spent = Unused /\ bytes = Unused /\ throws = Unused
       /\ value = Unused /\ has_value = Unused /\ line = Unused /\ args = Unused /\ todo = Unused
       /\ filled = Unused /\ status = Unused
    \/ /\ part = "subst" /\ Substitution!Init /\ data = <<Default>> /\ start = 0 /\ insert = 0
       /\ size = 0 /\ NoRobinMap /\ NoVarHolder /\ NoDimensionalSeq /\ NoIntLiteral /\ NoSplit
       /\ call = Unused /\ mgr = Unused /\ spent = Unused /\ bytes = Unused /\ throws = Unused
       /\ value = Unused /\ has_value = Unused /\ line = Unused /\ args = Unused /\ todo = Unused
       /\ filled = Unused /\ status = Unused
    \/ /\ part = "split" /\ Splitting!Init /\ data = <<Default>> /\ start = 0 /\ insert = 0
       /\ size = 0 /\ NoRobinMap /\ NoVarHolder /\ NoDimensionalSeq /\ NoIntLiteral /\ NoSubst
       /\ call = Unused /\ mgr = Unused /\ spent = Unused /\ bytes = Unused /\ throws = Unused
       /\ value = Unused /\ has_value = Unused /\ line = Unused /\ args = Unused /\ todo = Unused
       /\ filled = Unused /\ status = Unused
    \/ /\ part = "args" /\ Args!Init /\ data = <<Default>> /\ start = 0 /\ insert = 0 /\ size = 0
       /\ NoRobinMap /\ NoVarHolder /\ NoDimensionalSeq /\ NoSubst /\ NoSplit /\ call = Unused
       /\ mgr = Unused /\ spent = Unused /\ bytes = Unused /\ throws = Unused /\ value = Unused
       /\ has_value = Unused /\ base = Unused /\ overflow = Unused /\ read = Unused
       /\ exact = Unused

RingStep == part = "ring" /\ Next /\ UNCHANGED <<part, NotRingBuffer>>
MapStep == part = "map" /\ Map!Next /\ UNCHANGED <<part, NotRobinMap>>
VarStep == part = "var" /\ Var!Next /\ UNCHANGED <<part, NotVarHolder>>
FuncStep == part = "function" /\ Func!Next /\ UNCHANGED <<part, NotFunctionHolder>>
OptStep == part = "opt" /\ Opt!Next /\ UNCHANGED <<part, NotOptHolder>>
IndexesStep == part = "indexes" /\ Indexes!Next /\ UNCHANGED <<part, NotDimensionalSeq>>
LiteralStep == part = "literal" /\ Literal!Next /\ UNCHANGED <<part, NotIntLiteral>>
SubstitutionStep == part = "subst" /\ Substitution!Next /\ UNCHANGED <<part, NotSubst>>
SplittingStep == part = "split" /\ Splitting!Next /\ UNCHANGED <<part, NotSplit>>
ArgsStep == part = "args" /\ Args!Next /\ UNCHANGED <<part, NotArgParse>>

\* These may stop, and what is undefined ends; the others never do.
Rests == part \in {"var", "function", "literal", "subst", "split", "args"} /\ UNCHANGED containersVars

ContainersNext == \/ RingStep \/ MapStep \/ VarStep \/ FuncStep \/ OptStep \/ IndexesStep
                  \/ LiteralStep \/ SubstitutionStep \/ SplittingStep \/ ArgsStep \/ Rests

ContainersSpec ==
    /\ ContainersInit /\ [][ContainersNext]_containersVars
    /\ WF_containersVars(part = "map" /\ Map!Relocate /\ UNCHANGED <<part, NotRobinMap>>)
    /\ WF_containersVars(part = "map" /\ Map!Shift /\ UNCHANGED <<part, NotRobinMap>>)
    /\ WF_containersVars(part = "subst" /\ Substitution!Next /\ UNCHANGED <<part, NotSubst>>)

-----------------------------------------------------------------------------
\* Robin map: between two calls every stored key is found, in one cell, the
\* size counts them, and every element is where its distance says while others
\* are displaced and shifted.
EveryKeyFound ==
    part = "map" => Map!TypeOK /\ Map!EveryKeyFound /\ Map!DistanceTrue /\ Map!OccupiedCounts

\* Variant, function and optional value: through exceptions in every
\* construction one value lives in the storage, it is destroyed once, and it is
\* read, called or assigned to only while it lives; with these exceptions.  A
\* variant whose values are built in place has none after a throw, and what
\* VarHolder names under OnlyLiving and a function that was reset or left by a
\* throw end in a value destroyed or read that does not live: nothing else does.
DestroyedOnce ==
    /\ part = "var" => Var!TypeOK /\ Var!OneLives /\ Var!OnlyLiving
    /\ part = "function" => Func!TypeOK /\ Func!DestroyedOnce /\ Func!Callable
    /\ part = "opt" => Opt!TypeOK /\ Opt!OneLives /\ Opt!OnlyLiving

\* The algorithms give what their reference definitions give: a literal that
\* fits has the value that was written, and in base 2 one that does not is
\* refused; the pieces of a substitution make up the expanded text, in which a
\* value at full depth is given as AtFullDepth of Subst says, parts of it
\* twice; split gives
\* the fields in order, each once, and all of them; the options of a plain
\* command line can stand in any order, and no word is lost; the index vectors
\* are those of the nested loops, walked forth and back.
AsReference ==
    /\ part = "literal" => Literal!TypeOK /\ Literal!FitsExactly /\ Literal!BinarySeen
    /\ part = "subst" => Substitution!TypeOK /\ Substitution!IsExpansion
    /\ part = "split" => Splitting!TypeOK /\ Splitting!IsSplit
    /\ part = "args" => Args!TypeOK /\ Args!OptionsAnywhere
    /\ part = "indexes" => Indexes!TypeOK /\ Indexes!AsLoops

\* Robin map and substitution: every emplace and erase ends, and the iterator
\* of a substitution reaches its end, recursive entries included.
LoopsEnd ==
    /\ (part = "map" /\ pc # "idle") ~> (part = "map" => pc = "idle")
    /\ (part = "subst") ~> (part = "subst" => states = <<>>)

\* Each container implements its abstract specification: the robin map is a map
\* with the element in hand, at every step of a displacement; an operation of a
\* variant, a function or an optional gives its value to the target alone; one
\* that throws changes nothing else, and leaves the target as it was or, for a
\* function and for a variant that is built in place, marked as Lost, until
\* something undefined is done; skip of a ring is a push of the default value
\* although it writes nothing.
KeepPromises ==
    /\ part = "map" => Map!M!Init
    /\ [][part = "map" => Map!M!Next \/ UNCHANGED Map!M!vars]_containersVars
    /\ part = "var" => Var!H!Init
    /\ [][part = "var" /\ ~bad' => Var!H!Next \/ UNCHANGED Var!H!vars]_containersVars
    /\ part = "function" => Func!H!Init
    /\ [][part = "function" /\ ~bad' => Func!H!Next \/ UNCHANGED Func!H!vars]_containersVars
    /\ part = "opt" => Opt!H!Init
    /\ [][part = "opt" => Opt!H!Next \/ UNCHANGED Opt!H!vars]_containersVars
    /\ [][part = "ring" => SkipPushesDefault]_containersVars
=============================================================================
