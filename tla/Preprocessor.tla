---------------------------- MODULE Preprocessor ----------------------------
(***************************************************************************)
(* A run of the preprocessor (preprocessor/index.ts): the grammar reads    *)
(* the source line by line, the interpreter executes the statements of the *)
(* document in a first pass, the deferred ones in a second pass, and walks *)
(* over the tree to emit its text.  A macro called by a statement runs to  *)
(* its end within the step of that statement.                              *)
(***************************************************************************)
EXTENDS PreprocessorGrammar, PreprocessorInterpreter

CONSTANTS
    Programs,     \* the sources considered
    Predefined    \* lines of definitions executed before every source (preExec)

VARIABLES
    source,       \* the lines of the source
    parser,       \* the state of the grammar
    st,           \* the state of the interpreter
    phase,        \* "parse", "first", "second", "walk", "done" or "failed"
    todo,         \* the statements left in this phase
    output        \* the text emitted so far, one entry for each statement
vars == <<source, parser, st, phase, todo, output>>

\* The nodes of the source, and after them the ones of the predefined lines.
Nodes == parser.nodes \o [i \in DOMAIN Predefined |-> Node(Predefined[i], <<>>, <<>>)]
PredefinedIds(p) == [i \in DOMAIN Predefined |-> Len(p.nodes) + i]

Init ==
    /\ source \in Programs
    /\ parser = ParserInit
    /\ st = InterpreterInit({})
    /\ phase = "parse"
    /\ todo = <<>>
    /\ output = <<>>

Parse ==
    /\ phase = "parse"
    /\ parser.verdict = "parsing"
    /\ parser' = ParseStep(parser, source)
    /\ UNCHANGED <<source, st, phase, todo, output>>

\* The grammar rejected the source: nothing is executed.
Reject ==
    /\ phase = "parse"
    /\ parser.verdict = "error"
    /\ phase' = "failed"
    /\ UNCHANGED <<source, parser, st, todo, output>>

\* The predefined lines are executed by the interpreter that executes the source.
Begin ==
    /\ phase = "parse"
    /\ parser.verdict = "parsed"
    /\ st' = BeginTree(ExecList(InterpreterInit(DOMAIN Nodes), Nodes, PredefinedIds(parser), 0))
    /\ phase' = "first"
    /\ todo' = Root(parser)
    /\ UNCHANGED <<source, parser, output>>

\* One statement of the first or of the second pass.
Execute ==
    /\ phase \in {"first", "second"}
    /\ Ok(st)
    /\ todo # <<>>
    /\ st' = ExecNode(st, Nodes, Head(todo), 0)
    /\ todo' = Tail(todo)
    /\ UNCHANGED <<source, parser, phase, output>>

SecondPass ==
    /\ phase = "first"
    /\ Ok(st)
    /\ todo = <<>>
    /\ st' = BeginSecondPass(st)
    /\ todo' = st.pending
    /\ phase' = "second"
    /\ UNCHANGED <<source, parser, output>>

Walk ==
    /\ phase = "second"
    /\ Ok(st)
    /\ todo = <<>>
    /\ st' = EndSecondPass(st)
    /\ todo' = Root(parser)
    /\ phase' = "walk"
    /\ UNCHANGED <<source, parser, output>>

EmitStatement ==
    /\ phase = "walk"
    /\ Ok(st)
    /\ todo # <<>>
    /\ \E v \in {VisitOutermost(st, Nodes, Head(todo), 0)} :
          /\ st' = v.st
          /\ output' = Append(output, v.text)
    /\ todo' = Tail(todo)
    /\ UNCHANGED <<source, parser, phase>>

Finish ==
    /\ phase = "walk"
    /\ Ok(st)
    /\ todo = <<>>
    /\ phase' = "done"
    /\ UNCHANGED <<source, parser, st, todo, output>>

\* An error leaves the interpreter and is the result of the preprocessor.
Fail ==
    /\ phase \in {"first", "second", "walk"}
    /\ ~Ok(st)
    /\ phase' = "failed"
    /\ UNCHANGED <<source, parser, st, todo, output>>

Next == Parse \/ Reject \/ Begin \/ Execute \/ SecondPass \/ Walk \/ EmitStatement \/ Finish \/ Fail

Spec == Init /\ [][Next]_vars

-----------------------------------------------------------------------------
(* Properties *)

\* The parser, the interpreter and the phase agree on what has been built so far.
TypeOK ==
    /\ phase \in {"parse", "first", "second", "walk", "done", "failed"}
    /\ parser.verdict \in {"parsing", "parsed", "error"}
    /\ parser.pos \in 1 .. Len(source) + 1
    /\ Len(parser.nodes) \in parser.pos - 1 .. Len(source)
    /\ \A i \in DOMAIN parser.frames : parser.frames[i].id \in 0 .. Len(source)
    /\ ToSet(todo) \subseteq DOMAIN parser.nodes
    /\ \A i \in DOMAIN st.scopes : st.scopes[i].id < st.fresh

\* The directives of a source are balanced: every opener is closed by its own
\* terminator, alternates stand between them in order.
Balanced(src) ==
    LET step(stack, line) ==
            IF stack = <<"bad">> THEN stack
            ELSE IF line.d \in Openers THEN Append(stack, line.d)
            ELSE IF line.d \notin Closers THEN stack
            ELSE IF stack = <<>> THEN <<"bad">>
            ELSE LET top == Last(stack)
                     fits == \/ line.d = "endmacro" /\ top = "macro"
                             \/ line.d = "endif" /\ top \in {"if", "ifdef", "else"}
                             \/ line.d = "else" /\ top \in {"if", "ifdef"}
                             \/ line.d = "elif" /\ top = "if"
                             \/ line.d = "elifdef" /\ top = "ifdef"
                 IN IF ~fits THEN <<"bad">>
                    ELSE IF line.d = "else" THEN Append(Front(stack), "else")
                    ELSE IF line.d \in {"elif", "elifdef"} THEN stack
                    ELSE Front(stack)
    IN FoldLeft(step, <<>>, src) = <<>>

RECURSIVE Below(_)
Below(ids) == UNION {{i} \cup Below(Nodes[i].body \o Nodes[i].alternate) : i \in ToSet(ids)}

\* The grammar never loses a line of a source whose directives are balanced: if it
\* accepts the source, every line that is a statement hangs somewhere below the root
\* (or() rewinds and drops the rest of a source when a terminator is missing).
OnlyUnbalancedIsDropped ==
    parser.verdict = "parsed" /\ Balanced(source) =>
        Below(Root(parser)) = {i \in DOMAIN source : source[i].d \notin Closers \ {"elif", "elifdef"}}

\* find() of a call takes the first callable with as many arguments as the call has:
\* in the table of exact names there is never a second one, however definitions,
\* undefinitions and macros that define macros are mixed.
OneCallablePerArity ==
    \A name \in DOMAIN st.sensitive :
        LET ids == st.sensitive[name]
        IN \A i, j \in DOMAIN ids : i # j => ArgsCount(Nodes[ids[i]]) # ArgsCount(Nodes[ids[j]])

\* enterScope leaves its scope unless its body throws, and only the expression of an
\* EQU (or the words of an EQU named after a macro) swallows what a body throws: a
\* scope outlives its call only in a source where an EQU calls a macro.
ScopesBalance ==
    Ok(st) /\ Len(st.scopes) > 1 =>
        \E i \in DOMAIN source :
            /\ source[i].d = "equ"
            /\ st.constant[i] # "yes"
            /\ \E j \in DOMAIN source : source[j].d = "macro"

\* Scopes nest: every scope has an identity of its own, and after a compilation
\* without errors the global one is the only one left, but for an EQU that
\* swallowed the failure of a macro.
ScopesNest == TypeOK /\ ScopesBalance

\* The words of a statement that is executed.
Words(i) ==
    CASE Nodes[i].line.d = "text" -> ToSet(Nodes[i].line.toks)
      [] Nodes[i].line.d = "equ" -> ToSet(FlattenSeq(Nodes[i].line.expr))
      [] OTHER -> {}

MacroNames == {Nodes[i].line.name : i \in {n \in DOMAIN Nodes : Nodes[n].line.d = "macro"}}

\* The call in line j may have been replaced by its text before EQU i had a value:
\* the line comes first, the EQU may have waited for a name, or the call is of a
\* %macro whose body was rewritten by a call that comes first.
ExpandedBefore(i, j) ==
    \/ j < i
    \/ ~(Words(i) \subseteq Literals)
    \/ \E k \in ToSet(Root(parser)) : k < i /\ Words(k) \cap Words(j) \cap MacroNames # {}

\* An EQU leaves the output only when its value can be used: at the end its name is
\* bound, and no line that stands outside conditions and macros still mentions it,
\* wherever the EQU was resolved, in the first pass or in the second.  The exception
\* is the text of a call (removeMacrosFromTokens makes one token of it, which no
\* later pass looks into): what was replaced before the EQU had its value keeps the
\* name, as "db sum(b, 1)" before "b equ 2" does.
RemovedEquIsBound ==
    phase = "done" =>
        \A i \in ToSet(Root(parser)) :
            Nodes[i].line.d = "equ" /\ st.constant[i] = "yes" =>
                LET name == Nodes[i].line.name
                IN /\ GetVariable(st, name) # Null
                   /\ \A j \in ToSet(Root(parser)) :
                        Nodes[j].line.d = "text" =>
                          \A t \in DOMAIN st.out[j] :
                            name \in ToSet(st.out[j][t]) => Len(st.out[j][t]) > 1 /\ ExpandedBefore(i, j)

\* Two EQUs of one name in the outermost scope are an error, also when one of them
\* had to wait for the second pass (which itself may bind a name again): a source
\* that goes through never resolved both, unless a swallowed error or a macro
\* called in between changed the scope or the pass it was in.
RedefinitionIsReported ==
    phase = "done" /\ Len(st.scopes) = 1 /\ (\A i \in DOMAIN source : source[i].d # "macro") =>
        \A i, j \in ToSet(Root(parser)) :
            /\ i # j
            /\ Nodes[i].line.d = "equ" /\ Nodes[j].line.d = "equ"
            /\ Nodes[i].line.name = Nodes[j].line.name
            => ~(st.constant[i] = "yes" /\ st.constant[j] = "yes")

\* The comment of runtimeCall says that a call "creates $0, $1, $2 variables": every
\* call of a macro would see its own arguments.  Here: two calls of one macro that
\* pass different numbers, on lines of their own, to a body that mentions its
\* argument do not expand to the same text.
CallsSeeTheirOwnArguments ==
    phase = "done" =>
        \A i, j, k \in ToSet(Root(parser)) :
            LET called(n) == /\ Nodes[n].line.d = "text"
                             /\ Len(Nodes[n].line.toks) = 2
                             /\ Nodes[n].line.toks[1] = Nodes[k].line.name
                             /\ Nodes[n].line.toks[2] \in Literals
            IN /\ Nodes[k].line.d = "macro" /\ Nodes[k].line.argc = 1
               /\ \E b \in ToSet(Nodes[k].body) :
                     Nodes[b].line.d = "text" /\ Parameter(1) \in ToSet(Nodes[b].line.toks)
               /\ called(i) /\ called(j) /\ Nodes[i].line.toks[2] # Nodes[j].line.toks[2]
               => Text(st.out[i]) # Text(st.out[j])

=============================================================================
