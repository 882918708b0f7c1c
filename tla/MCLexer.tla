------------------------------ MODULE MCLexer ------------------------------
(***************************************************************************)
(* Every text of up to three characters, of five over two smaller          *)
(* alphabets, and some longer ones, read with the two configurations that  *)
(* exist.                                                                  *)
(***************************************************************************)
EXTENDS Lexer, TLC

Texts(n) == UNION {[1 .. k -> Characters] : k \in 0 .. n}

\* the assembler: asmLexer(null, ...)
AsmConfig ==
  [signOperatorsAsSeparateTokens |-> FALSE,
   allowBracketPrefixKeyword     |-> FALSE,
   consumeBracketContent         |-> TRUE,
   words                         |-> <<"letter", "letter">> :> "REGISTER"]

\* the preprocessor: Grammar.process
GrammarConfig ==
  [signOperatorsAsSeparateTokens |-> TRUE,
   allowBracketPrefixKeyword     |-> TRUE,
   consumeBracketContent         |-> FALSE,
   words                         |-> <<"letter", "letter">> :> "IDENTIFIER"]

MCConfigurations == {AsmConfig, GrammarConfig}

LongTexts ==
  { \* a register, an address with brackets in it, a remark
    <<"letter", "letter", "comma", "blank", "square", "letter", "square", "letter",
      "unsquare", "unsquare", "comment", "square", "newline", "letter">>,
    \* a word broken over two lines, and brackets over two lines
    <<"letter", "backslash", "letter", "newline", "blank", "letter", "blank", "letter", "newline", "digit">>,
    <<"square", "newline", "unsquare", "letter", "newline", "letter">>,
    \* a call, with a sign before its argument
    <<"letter", "letter", "open", "minus", "digit", "close", "return", "newline", "letter">>,
    <<"letter", "blank", "minus", "blank", "digit", "equals", "equals", "digit", "newline">>,
    \* a quote with a bracket, a remark and a newline in it
    <<"double", "single", "close", "comment", "newline", "double", "letter", "minus", "minus", "digit">>}

Alphabets ==
  {{"letter", "minus", "newline", "backslash", "comment", "single"},
   {"letter", "blank", "open", "close", "newline", "return"}}

MCSources == Texts(3) \cup UNION {[1 .. 5 -> alphabet] : alphabet \in Alphabets} \cup LongTexts
=============================================================================
