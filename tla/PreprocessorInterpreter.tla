---------------------- MODULE PreprocessorInterpreter ----------------------
(***************************************************************************)
(* The interpreter of the preprocessor (preprocessor/interpreter and       *)
(* preprocessor/nodes): what executing a node of the tree does to the      *)
(* scopes, to the tables of macros and to the lines of the source.         *)
(*                                                                         *)
(* A token is the sequence of the words of its text: the lexer makes       *)
(* tokens of one word, a macro call is replaced by one token that holds    *)
(* its whole text and is never cut again.  The state of an interpreter is  *)
(* a record: scopes, the callables under their names (sensitive,           *)
(* nonSensitive), the pending nodes of the second pass and its flag, the   *)
(* tokens every line was last rewritten to (out), what each EQU became     *)
(* (constant), the branch each condition took (result), the next scope id, *)
(* and the error thrown ("" for none).                                     *)
(***************************************************************************)
EXTENDS Integers, Sequences, SequencesExt, TLC

CONSTANTS
    Lower,        \* lower case of a name: a function on the names that have one
    LocalLabels,  \* the words that start with %%
    MaxNumber,    \* numbers are 0 .. MaxNumber
    MaxDepth      \* nested macro calls the call stack of the host allows

Null == <<>>                       \* the value of a variable declared but not resolved
Literals == {ToString(n) : n \in 0 .. MaxNumber}
Number(word) == CHOOSE n \in 0 .. MaxNumber : ToString(n) = word
Punctuation == {"(", ")", ",", "+", "[", "]"}
IsKeyword(token) == Len(token) = 1 /\ token[1] \notin Literals \cup Punctuation

ToLower(name) == IF name \in DOMAIN Lower THEN Lower[name] ELSE name
Tokens(words) == [i \in DOMAIN words |-> <<words[i]>>]
Text(tokens) == FlattenSeq(tokens)
Parameter(i) == "%" \o ToString(i)

InterpreterInit(ids) ==
    [scopes |-> <<[id |-> 0, vars |-> <<>>]>>, sensitive |-> <<>>, nonSensitive |-> <<>>,
     pending |-> <<>>, second |-> FALSE, out |-> [i \in ids |-> <<>>],
     constant |-> [i \in ids |-> "unknown"], result |-> [i \in ids |-> FALSE],
     fresh |-> 1, err |-> ""]

Throw(st, code) == [st EXCEPT !.err = code]
Ok(st) == st.err = ""

-----------------------------------------------------------------------------
(* Variables and callables. *)

\* The scopes that know the name, innermost last.
GetVariable(st, name) ==
    LET knowing == {i \in DOMAIN st.scopes : name \in DOMAIN st.scopes[i].vars}
    IN IF knowing = {} THEN Null
       ELSE st.scopes[CHOOSE i \in knowing : \A j \in knowing : j <= i].vars[name]

\* Mutant of SetVariable: a known name is bound again.
SetVariableAlways(st, name, value, allowRedefine) ==
    [st EXCEPT !.scopes[Len(st.scopes)].vars = (name :> value) @@ @]

SetVariable(st, name, value, allowRedefine) ==
    LET current == Len(st.scopes)
        known == name \in DOMAIN st.scopes[current].vars
    IN IF known /\ ~allowRedefine THEN Throw(st, "VARIABLE_ALREADY_EXISTS_IN_CURRENT_SCOPE")
       ELSE [st EXCEPT !.scopes[current].vars = (name :> value) @@ @]

In(table, name) == IF name \in DOMAIN table THEN table[name] ELSE <<>>
Without(table, name) == [n \in DOMAIN table \ {name} |-> table[n]]

\* A name known to both tables yields the callables of the first one twice.
GetCallables(st, name, caseSensitive) ==
    LET exact == In(st.sensitive, name)
        folded == In(st.nonSensitive, ToLower(name))
    IN IF caseSensitive /\ exact # <<>> THEN exact
       ELSE IF exact # <<>> /\ folded # <<>> THEN exact \o exact
       ELSE IF exact # <<>> THEN exact ELSE folded

UndefRuntimeCallable(st, name, caseSensitive) ==
    [st EXCEPT !.nonSensitive = Without(@, name),
               !.sensitive = IF caseSensitive THEN Without(@, name) ELSE @]

ArgsCount(node) == IF node.line.d = "macro" THEN node.line.argc ELSE Len(node.line.args)

\* Mutant of DefineRuntimeCallable: a macro defined twice is appended to the first.
DefineRuntimeCallableTwice(st, nodes, id) ==
    LET name == nodes[id].line.name
    IN IF nodes[id].line.cs
       THEN [st EXCEPT !.sensitive = (name :> Append(In(@, name), id)) @@ @]
       ELSE [st EXCEPT !.nonSensitive = (ToLower(name) :> Append(In(@, ToLower(name)), id)) @@ @]

\* Callables of one name differ in their number of arguments; the only one
\* without arguments may be defined again.
DefineRuntimeCallable(st, nodes, id) ==
    LET node == nodes[id]
        name == node.line.name
        sensitive == node.line.cs
        known == GetCallables(st, name, sensitive)
        argc == ArgsCount(node)
        duplicated == \E i \in DOMAIN known : ArgsCount(nodes[known[i]]) = argc
        clash == duplicated \/ (known # <<>> /\ argc = 0)
        redefine == duplicated /\ argc = 0 /\ Len(known) = 1
        cleared == IF clash THEN UndefRuntimeCallable(st, name, sensitive) ELSE st
    IN IF clash /\ ~redefine THEN Throw(st, "MACRO_ALREADY_EXISTS")
       ELSE IF sensitive
            THEN [cleared EXCEPT !.sensitive = (name :> Append(In(@, name), id)) @@ @]
            ELSE [cleared EXCEPT !.nonSensitive =
                    (ToLower(name) :> Append(In(@, ToLower(name)), id)) @@ @]

-----------------------------------------------------------------------------
(* The arguments of a call: fetchRuntimeCallArgsList, from token i on.     *)

RECURSIVE FetchArgs(_, _, _, _, _, _)
FetchArgs(tokens, i, separatorNesting, nesting, buffer, args) ==
    LET done(at) == [args |-> IF buffer = <<>> THEN args ELSE Append(args, buffer), at |-> at, err |-> ""]
        word == IF Len(tokens[i]) = 1 THEN tokens[i][1] ELSE ""
        next(n, b, a) == FetchArgs(tokens, i + 1, separatorNesting, n, b, a)
        push == Append(buffer, tokens[i])
    IN IF i > Len(tokens) THEN done(i)
       ELSE IF word = "(" THEN next(nesting + 1, IF nesting > 0 THEN push ELSE buffer, args)
       ELSE IF word = ")" THEN IF nesting = 1 THEN done(i)
                               ELSE next(nesting - 1, IF nesting > 1 THEN push ELSE buffer, args)
       ELSE IF word = "," /\ nesting = separatorNesting
            THEN IF buffer = <<>> THEN [args |-> args, at |-> i, err |-> "INCORRECT_ARGS_LIST"]
                 ELSE next(nesting, <<>>, Append(args, buffer))
       ELSE next(nesting, push, args)

\* The value of a text: literals joined by +, brackets around them.  A caller that
\* resolves names gets 0 for every operand that is no literal (a name without a
\* value, two operands run together); for the others such a text has no value.
Value(words, resolves) ==
    LET bare == SelectSeq(words, LAMBDA w : w \notin {"(", ")"})
        opened == Len(SelectSeq(words, LAMBDA w : w = "("))
        closed == Len(SelectSeq(words, LAMBDA w : w = ")"))
        joins(i) == i \notin DOMAIN bare \/ bare[i] = "+"
        operands == {i \in DOMAIN bare : bare[i] \in Literals /\ joins(i - 1) /\ joins(i + 1)}
        proper == /\ bare # <<>> /\ opened = closed
                  /\ resolves \/ operands = {i \in 1 .. Len(bare) : i % 2 = 1}
    IN [known |-> proper,
        number |-> FoldLeft(LAMBDA sum, i : sum + IF i \in operands THEN Number(bare[i]) ELSE 0,
                            0, [i \in DOMAIN bare |-> i])]

\* extractNestableTokensList from token i on: all that stands in brackets up to the
\* end of the line, without the first bracket and the last one.
Bracketed(tokens, i) ==
    LET step(acc, t) ==
            LET nesting == acc.nesting + IF t = <<"[">> THEN 1 ELSE 0
            IN [nesting |-> nesting - IF t = <<"]">> THEN 1 ELSE 0,
                buffer |-> IF nesting > 0 THEN Append(acc.buffer, t) ELSE acc.buffer]
        read == FoldLeft(step, [nesting |-> 0, buffer |-> <<>>], SubSeq(tokens, i, Len(tokens))).buffer
    IN SubSeq(read, 2, Len(read) - 1)

-----------------------------------------------------------------------------
(* Rewriting tokens and executing nodes.                                   *)

EnterScope(st, variables) ==
    [st EXCEPT !.scopes = Append(@, [id |-> st.fresh, vars |-> variables]), !.fresh = @ + 1]

\* Mutant of LeaveScope: the scope of a call stays.
LeaveScopeNever(st) == st

\* Not reached when the body throws.
LeaveScope(st) == IF Ok(st) THEN [st EXCEPT !.scopes = Front(@)] ELSE st

RECURSIVE Scan(_, _, _, _, _, _), ScanArgs(_, _, _, _, _), RuntimeCall(_, _, _, _, _),
          ExecNode(_, _, _, _), ExecList(_, _, _, _), ExecTree(_, _, _, _), Visit(_, _, _, _),
          Emit(_, _, _), EmitList(_, _, _)

\* What stands behind a name that is called: its arguments and the token they end at.
FetchCall(st, nodes, callables, tokens, i) ==
    LET inline == i > 1 \/ \A c \in DOMAIN callables : ArgsCount(nodes[callables[c]]) = 0
        bracket == i < Len(tokens) /\ tokens[i + 1] = <<"(">>
    IN IF ~inline \/ bracket THEN FetchArgs(tokens, i + 1, IF bracket THEN 1 ELSE 0, 0, <<>>, <<>>)
       ELSE [args |-> <<>>, at |-> i + 1, err |-> ""]

\* An inline expression, rewritten to inner, is replaced by its value and ends the line.
EvalInline(inner, tokens, i) ==
    LET value == Value(Text(inner.tokens), TRUE)
    IN IF ~Ok(inner.st) THEN [st |-> inner.st, tokens |-> tokens]
       ELSE IF ~value.known THEN [st |-> Throw(inner.st, "INCORRECT_BRACKETS"), tokens |-> tokens]
       ELSE [st |-> inner.st, tokens |-> Append(SubSeq(tokens, 1, i - 1), <<ToString(value.number)>>)]

\* removeMacrosFromTokens from token i on: variables, labels of the scope, inline
\* expressions and calls are replaced, what replaces them is not scanned again.
\* A bracketed call skips one token less than it has arguments past its bracket.
Scan(st, nodes, tokens, original, i, depth) ==
    IF ~Ok(st) \/ i > Len(tokens) THEN [st |-> st, tokens |-> tokens]
    ELSE IF ~IsKeyword(tokens[i]) THEN Scan(st, nodes, tokens, original, i + 1, depth)
    ELSE
      LET word == tokens[i][1]
          variable == GetVariable(st, word)
          callables == GetCallables(st, word, TRUE)
          next(s, t) == Scan(s, nodes, t, original, i + 1, depth)
          \* fetched: what FetchCall found; read: its arguments, rewritten; call: the result.
          replace(fetched, read, call) ==
            LET skipped == IF Len(read.args) > 1 THEN Len(read.args) - 1 ELSE 0
            IN next(call.st, SubSeq(tokens, 1, i - 1) \o <<call.text>>
                             \o SubSeq(tokens, fetched.at + skipped, Len(tokens)))
          invoke(fetched, read) ==
            LET fitting == SelectSeq(callables, LAMBDA c : ArgsCount(nodes[c]) = Len(read.args))
            IN IF ~Ok(read.st) \/ fitting = <<>> THEN next(read.st, tokens)
               ELSE replace(fetched, read,
                            RuntimeCall(read.st, nodes, fitting[1],
                                        [a \in DOMAIN read.args |-> Text(read.args[a])], depth + 1))
          expand(fetched) ==
            IF fetched.err # "" THEN [st |-> Throw(st, fetched.err), tokens |-> tokens]
            ELSE invoke(fetched, ScanArgs(st, nodes, fetched.args, 1, depth))
      IN IF variable # Null THEN next(st, [tokens EXCEPT ![i] = variable])
         ELSE IF word \in LocalLabels
              THEN next(st, [tokens EXCEPT ![i] = <<word \o ToString(Last(st.scopes).id)>>])
         ELSE IF word = "%" /\ i < Len(tokens) /\ tokens[i + 1] = <<"[">>
              THEN EvalInline(Scan(st, nodes, Bracketed(original, i), Bracketed(original, i), 1, depth), tokens, i)
         ELSE IF word = "%" \/ callables = <<>> THEN next(st, tokens)
         ELSE expand(FetchCall(st, nodes, callables, tokens, i))

\* Every argument is rewritten before the call.
ScanArgs(st, nodes, args, i, depth) ==
    LET next(r) == ScanArgs(r.st, nodes, [args EXCEPT ![i] = r.tokens], i + 1, depth)
    IN IF i > Len(args) THEN [st |-> st, args |-> args]
       ELSE next(Scan(st, nodes, args[i], args[i], 1, depth))

\* The words of a %define with the arguments put in, rewritten once more; one
\* without words stands for its name.
CallDefine(st, nodes, id, args, depth) ==
    LET line == nodes[id].line
        replaced == [i \in DOMAIN line.expr |->
                        IF line.expr[i] \in ToSet(line.args)
                        THEN args[CHOOSE a \in DOMAIN line.args : line.args[a] = line.expr[i]]
                        ELSE <<line.expr[i]>>]
        result(expanded) == [st |-> expanded.st, text |-> Text(expanded.tokens)]
    IN IF line.expr = <<>> THEN [st |-> st, text |-> <<line.name>>]
       ELSE result(Scan(st, nodes, replaced, replaced, 1, depth))

\* The body of a %macro is executed as a tree in a scope of its own.
CallMacro(st, nodes, id, args, depth) ==
    LET variables == [name \in {Parameter(i) : i \in DOMAIN args} |->
                        args[CHOOSE i \in DOMAIN args : Parameter(i) = name]]
        leave(ran) == [ran EXCEPT !.st = LeaveScope(@)]
    IN leave(ExecTree(EnterScope(st, variables), nodes, nodes[id].body, depth))

RuntimeCall(st, nodes, id, args, depth) ==
    IF depth > MaxDepth THEN [st |-> Throw(st, "RangeError"), text |-> <<>>]
    ELSE IF nodes[id].line.d = "define" THEN CallDefine(st, nodes, id, args, depth)
    ELSE CallMacro(st, nodes, id, args, depth)

-----------------------------------------------------------------------------
\* The value of a text rewritten to r: one token, a number or a text that evaluates to one.
SingleValue(r) ==
    LET v == Value(r.tokens[1], FALSE)
    IN IF ~Ok(r.st) THEN [st |-> r.st, number |-> 0]
       ELSE IF Len(r.tokens) # 1 \/ ~v.known
            THEN [st |-> Throw(r.st, "INCORRECT_VALUE_EXPRESSION"), number |-> 0]
       ELSE [st |-> r.st, number |-> v.number]

\* A value node.
ValueOf(st, nodes, words, depth) == SingleValue(Scan(st, nodes, Tokens(words), Tokens(words), 1, depth))

\* evalExpression: the sum of the operands, evaluated from left to right.
Evaluate(st, nodes, operands, depth) ==
    LET plus(number, v) == [v EXCEPT !.number = number + @]
    IN FoldLeft(LAMBDA acc, words :
                    IF Ok(acc.st) THEN plus(acc.number, ValueOf(acc.st, nodes, words, depth)) ELSE acc,
                [st |-> st, number |-> 0], operands)

\* The tokens a line was rewritten to are kept, unless the rewriting failed.
KeepTokens(rewritten, id) ==
    IF Ok(rewritten.st) THEN [rewritten.st EXCEPT !.out[id] = rewritten.tokens] ELSE rewritten.st

\* An EQU named after a macro is a line; the others bind their name to a value.
TryEqu(st, nodes, id, depth) ==
    LET line == nodes[id].line
        asText == IF st.out[id] # <<>> THEN st.out[id]
                  ELSE Tokens(<<line.name, "equ">> \o FlattenSeq(line.expr))
        constant(s) == IF Ok(s) THEN [s EXCEPT !.constant[id] = "yes"] ELSE s
        bind(value) == IF Ok(value.st)
                       THEN constant(SetVariable(value.st, line.name, <<ToString(value.number)>>, value.st.second))
                       ELSE value.st
    IN IF GetCallables(st, line.name, TRUE) # <<>> THEN KeepTokens(Scan(st, nodes, asText, asText, 1, depth), id)
       ELSE bind(Evaluate(st, nodes, line.expr, depth))

\* An error inside an EQU is swallowed: the first pass declares the name without a
\* value and defers the node, the second one leaves the line to the assembler.
CatchEqu(tried, name, id) ==
    LET caught == [tried EXCEPT !.err = ""]
        defer(s) == IF Ok(s) THEN [s EXCEPT !.pending = Append(@, id)] ELSE s
    IN IF Ok(tried) THEN tried
       ELSE IF tried.second THEN [caught EXCEPT !.constant[id] = "no"]
       ELSE defer(SetVariable(caught, name, Null, FALSE))

ExecEqu(st, nodes, id, depth) == CatchEqu(TryEqu(st, nodes, id, depth), nodes[id].line.name, id)

Chosen(st, nodes, id) == IF st.result[id] THEN nodes[id].body ELSE nodes[id].alternate

\* A line starts from the tokens it was last rewritten to.
ExecLine(st, nodes, id, depth) ==
    LET from == IF st.out[id] # <<>> THEN st.out[id] ELSE Tokens(nodes[id].line.toks)
    IN KeepTokens(Scan(st, nodes, from, from, 1, depth), id)

TakeBranch(st, nodes, id, holds, depth) ==
    LET taken == [st EXCEPT !.result[id] = (holds # nodes[id].line.neg)]
    IN ExecList(taken, nodes, Chosen(taken, nodes, id), depth)

ExecIf(st, nodes, id, depth) ==
    LET branch(test) == IF Ok(test.st) THEN TakeBranch(test.st, nodes, id, test.number # 0, depth) ELSE test.st
    IN branch(Evaluate(st, nodes, nodes[id].line.expr, depth))

ExecIfDef(st, nodes, id, depth) ==
    LET name == nodes[id].line.name
        defined == GetVariable(st, name) # Null \/ GetCallables(st, name, TRUE) # <<>>
    IN TakeBranch(st, nodes, id, defined, depth)

ExecUndef(st, nodes, id) == UndefRuntimeCallable(st, nodes[id].line.name, TRUE)

ExecDefine(st, nodes, id) == DefineRuntimeCallable(st, nodes, id)

ExecMacro(st, nodes, id) == DefineRuntimeCallable(st, nodes, id)

ExecNode(st, nodes, id, depth) ==
    LET d == nodes[id].line.d
    IN CASE d = "text" -> ExecLine(st, nodes, id, depth)
         [] d = "blank" -> st
         [] d = "define" -> ExecDefine(st, nodes, id)
         [] d = "macro" -> ExecMacro(st, nodes, id)
         [] d = "undef" -> ExecUndef(st, nodes, id)
         [] d = "equ" -> ExecEqu(st, nodes, id, depth)
         [] d \in {"if", "elif"} -> ExecIf(st, nodes, id, depth)
         [] d \in {"ifdef", "elifdef"} -> ExecIfDef(st, nodes, id, depth)

ExecList(st, nodes, ids, depth) ==
    FoldLeft(LAMBDA s, id : IF Ok(s) THEN ExecNode(s, nodes, id, depth) ELSE s, st, ids)

-----------------------------------------------------------------------------
(* execTree: first pass, second pass over the deferred nodes, and a walk   *)
(* over the whole tree that rewrites every line once more, those of the    *)
(* bodies of macros and of the branches not taken included, and collects   *)
(* the text of the outermost statements before it walks into them.         *)

BeginTree(st) == [st EXCEPT !.second = FALSE, !.pending = <<>>]

BeginSecondPass(st) == [st EXCEPT !.second = (st.pending # <<>>) \/ @]
EndSecondPass(st) == [st EXCEPT !.pending = <<>>]

\* The text of a node: a line as it is now, an EQU unless it was made a constant,
\* the branch taken of a condition.
Emit(st, nodes, id) ==
    LET line == nodes[id].line
    IN CASE line.d = "text" -> Text(st.out[id])
         [] line.d = "equ" -> IF st.constant[id] = "yes" THEN <<>>
                              ELSE IF st.out[id] # <<>> THEN Text(st.out[id])
                              ELSE <<line.name, "equ">> \o FlattenSeq(line.expr)
         [] line.d \in {"if", "elif", "ifdef", "elifdef"} -> EmitList(st, nodes, Chosen(st, nodes, id))
         [] OTHER -> <<>>

EmitList(st, nodes, ids) == FlattenSeq([i \in DOMAIN ids |-> Emit(st, nodes, ids[i])])

\* Entering a node of the walk executes it when it is a line.
EnterNode(st, nodes, id, depth) == IF nodes[id].line.d = "text" THEN ExecNode(st, nodes, id, depth) ELSE st

WalkBelow(st, nodes, id, depth) ==
    FoldLeft(LAMBDA s, child : IF Ok(s) THEN Visit(s, nodes, child, depth) ELSE s,
             st, nodes[id].body \o nodes[id].alternate)

Visit(st, nodes, id, depth) == WalkBelow(EnterNode(st, nodes, id, depth), nodes, id, depth)

EmitAndWalk(st, nodes, id, depth) ==
    IF Ok(st) THEN [st |-> WalkBelow(st, nodes, id, depth), text |-> Emit(st, nodes, id)]
    ELSE [st |-> st, text |-> <<>>]

\* Mutant of VisitOutermost: a line is emitted as the passes left it.
VisitOutermostAsIs(st, nodes, id, depth) == EmitAndWalk(st, nodes, id, depth)

\* A statement right below the root of the walk: rewritten when it is a line,
\* emitted, then walked into.
VisitOutermost(st, nodes, id, depth) == EmitAndWalk(EnterNode(st, nodes, id, depth), nodes, id, depth)

\* The second pass, over the nodes the first one deferred.
ExecDeferred(first, nodes, depth) ==
    IF Ok(first) THEN EndSecondPass(ExecList(BeginSecondPass(first), nodes, first.pending, depth)) ELSE first

\* The walk over the tree, with the text it emits.
EmitTree(st, nodes, ids, depth) ==
    LET append(text, v) == [v EXCEPT !.text = text \o @]
    IN FoldLeft(LAMBDA acc, id :
                    IF Ok(acc.st) THEN append(acc.text, VisitOutermost(acc.st, nodes, id, depth)) ELSE acc,
                [st |-> st, text |-> <<>>], ids)

ExecTree(st, nodes, ids, depth) ==
    EmitTree(ExecDeferred(ExecList(BeginTree(st), nodes, ids, depth), nodes, depth), nodes, ids, depth)

=============================================================================
