--------------------------- MODULE MCPreprocessor ---------------------------
EXTENDS Preprocessor

textLine(words) == [d |-> "text", toks |-> words]
equ(name, operands) == [d |-> "equ", name |-> name, expr |-> operands]
define(name, args, words) == [d |-> "define", name |-> name, cs |-> TRUE, args |-> args, expr |-> words]
macro(name, n) == [d |-> "macro", name |-> name, cs |-> TRUE, argc |-> n]
if(operand) == [d |-> "if", neg |-> FALSE, expr |-> <<operand>>]
ifdef(name) == [d |-> "ifdef", neg |-> FALSE, name |-> name]
only(d) == [d |-> d]

MCLower == "A" :> "a"
MCPredefined == <<[define("A", <<>>, <<"3">>) EXCEPT !.cs = FALSE],
                  define("sum", <<"x", "y">>, <<"(", "x", "+", "y", ")">>)>>

\* Lines that stand anywhere.
Lines == {textLine(<<"mov", "a">>), textLine(<<"mov", "b">>), textLine(<<"m", "1">>),
        textLine(<<"%", "[", "b", "+", "1", "]">>), textLine(<<"db", "sum", "(", "b", ",", "1", ")">>),
        textLine(<<"db", "sum", "(", "c", ",", "1", ")">>), equ("c", <<<<"b">>>>), define("m", <<>>, <<"b", "+", "1">>),
        textLine(<<"db", "sum", "(", ",", "1", ")">>), textLine(<<"%", "[", "1", "]", ",", "%", "[", "2", "]">>),
        textLine(<<"%", "[", ")", "]">>), equ("a", <<<<"b">>, <<"1">>>>), equ("b", <<<<"2">>>>), equ("a", <<<<"m">>>>), equ("ax", <<<<"1">>>>),
        define("b", <<>>, <<"4">>), define("m", <<"x">>, <<"x">>), define("a", <<>>, <<"b">>),
        define(NoName, <<>>, <<>>), [d |-> "undef", name |-> "b"]}
Directives == {macro("m", 1), macro("m", 0), only("endmacro"), if(<<"b">>), [if(<<"1">>) EXCEPT !.d = "elif"],
               ifdef("a"), [ifdef("b") EXCEPT !.d = "elifdef", !.neg = TRUE], only("else"), only("endif"),
               only("blank")}

\* The line in the body of a macro, and lines after it, which may call the macro.
Bodies == {textLine(<<"mov", "%1">>), textLine(<<"%%l", "b">>), textLine(<<"db", "sum", "(", "b", ",", "1", ")">>),
           equ("b", <<<<"5">>>>), equ("a", <<<<"c">>>>),
           define("a", <<>>, <<"6">>), [define("b", <<"x">>, <<"x">>) EXCEPT !.cs = FALSE]}
Callers == {textLine(<<"m", "1">>), textLine(<<"m", "2">>), equ("a", <<<<"m", "(", "1", ")">>>>), equ("c", <<<<"b">>>>),
            textLine(<<"mov", "a">>), equ("b", <<<<"2">>>>), if(<<"a">>)}
Condition == <<if(<<"1">>), textLine(<<"mov", "a">>), only("else"), textLine(<<"m", "1">>), only("endif")>>

MCPrograms ==
    {<<x, y, z>> : x \in Lines \cup Directives, y \in Lines \cup Directives, z \in Lines \cup Directives}
      \cup {<<macro("m", 1), x, only("endmacro"), y, z, w>> : x \in Bodies, y \in Callers, z \in Callers, w \in Callers}
      \cup {<<x>> \o Condition \o <<y>> : x \in Lines, y \in Lines}
      \cup {<<if(<<"b">>), x, [if(<<"1">>) EXCEPT !.d = "elif", !.neg = TRUE], y, only("else"), z, only("endif")>> :
                x \in Lines, y \in Directives, z \in Bodies}
=============================================================================
