------------------------------- MODULE Lexer -------------------------------
(***************************************************************************)
(* The lexer (packages/compiler-lexer/src/lexer.ts) as a machine over the  *)
(* characters of a source.  An action is one call of parseCharacter with   *)
(* the step of the loop around it.                                         *)
(*                                                                         *)
(* It runs twice in an assembly, with two configurations: the preprocessor *)
(* wants brackets and signs as tokens of their own, the assembler takes    *)
(* the content of brackets as one token and reads signs into numbers.      *)
(*                                                                         *)
(* A character is a class.  A text is a sequence of positions in the       *)
(* source, so that a token says which characters it was made of.           *)
(***************************************************************************)
EXTENDS Integers, Sequences, FiniteSets

CONSTANTS
  Sources,        \* texts to read
  Configurations  \* LexerConfig

Characters ==
  {"letter", "digit", "equals", "minus", "comma", "blank", "return", "newline",
   "single", "double", "open", "close", "square", "unsquare", "comment", "backslash"}

\* TokenKind: what a word may mean, and what else a token may be
WordKinds == {"IDENTIFIER", "REGISTER", "BYTE_SIZE_OVERRIDE", "BRANCH_ADDRESSING_TYPE"}
Kinds     == WordKinds \cup Characters \cup {"BRACKET_PREFIX", "none"}

ASSUME LexerAssumption ==
  /\ Sources \subseteq Seq(Characters)
  /\ \A c \in Configurations :
       /\ c.signOperatorsAsSeparateTokens \in BOOLEAN
       /\ c.allowBracketPrefixKeyword \in BOOLEAN
       /\ c.consumeBracketContent \in BOOLEAN
       /\ \A word \in DOMAIN c.words : c.words[word] \in WordKinds

VARIABLES
  code,         \* the source
  config,       \* how it is read
  offset,       \* the next character
  tokenBuffer,  \* positions of the word that is being read
  tokens,       \* what was yielded
  row, column,  \* location
  result        \* "reading", "done" or the code of the error that was thrown

vars == <<code, config, offset, tokenBuffer, tokens, row, column, result>>
-----------------------------------------------------------------------------
At(p)  == IF p \in 1 .. Len(code) THEN code[p] ELSE "undefined"
Here   == At(offset)

Positions(at) == {at[i] : i \in DOMAIN at}
Text(at)      == [i \in DOMAIN at |-> code[at[i]]]

Quotes   == {"single", "double"}
Brackets == {"open", "close", "square", "unsquare"}

FlipBracket(c) ==
  CASE c = "open"   -> "close"    [] c = "close"    -> "open"
    [] c = "square" -> "unsquare" [] c = "unsquare" -> "square"

\* TERMINAL_CHARACTERS of one character and of two
Terminals == {"comma", "minus"}
Pairs     == {<<"minus", "minus">>, <<"equals", "equals">>}

\* Number.isInteger(+c): the number of a blank is 0
Integral == {"digit", "blank", "return", "newline"}

\* NumberToken.parse: digits, perhaps behind a sign
IsNumber(text) ==
  /\ \E i \in DOMAIN text : text[i] = "digit"
  /\ \A i \in DOMAIN text : text[i] = "digit" \/ (i = 1 /\ text[i] = "minus")

\* the words with a meaning of their own: identifiers of a grammar, or
\* registers, sizes and kinds of branches of the assembler
KindOf(text) ==
  IF text \in DOMAIN config.words THEN config.words[text] ELSE "none"

Token(type, kind, at, col) ==
  [type |-> type, kind |-> kind, at |-> at, row |-> row, column |-> col]

\* parseToken
ParseToken(at) ==
  Token(IF IsNumber(Text(at)) THEN "NUMBER" ELSE "KEYWORD",
        KindOf(Text(at)), at, column - Len(at))

\* R.trim: only the carriage return of a line end is a blank that a word keeps
Trim(at) ==
  LET kept == {i \in DOMAIN at : code[at[i]] # "return"}
  IN  IF kept = {}
      THEN <<>>
      ELSE SubSeq(at, CHOOSE i \in kept : \A j \in kept : i <= j,
                      CHOOSE i \in kept : \A j \in kept : j <= i)

\* the tokens, and the word of the buffer if there is one
WithWord(at) == IF at = <<>> THEN tokens ELSE Append(tokens, ParseToken(at))

\* appendCharToken
AppendCharToken(type, at) ==
  /\ tokens' = Append(WithWord(Trim(tokenBuffer)), Token(type, "none", at, column))
  /\ tokenBuffer' = <<>>

\* Mutant of Advance: the column counts steps of the loop.
AdvanceOne(p) ==
  /\ offset' = p + 1
  /\ row' = IF Here = "newline" THEN row + 1 ELSE row
  /\ column' = IF Here = "newline" THEN 0 ELSE column + 1
  /\ UNCHANGED <<code, config, result>>

\* p is the last character that parseCharacter has read
Advance(p) ==
  /\ offset' = p + 1
  /\ row' = IF Here = "newline" THEN row + 1 ELSE row
  /\ column' = IF Here = "newline" THEN 0 ELSE column + (p + 1 - offset)
  /\ UNCHANGED <<code, config, result>>

Throw(error) ==
  /\ result' = error
  /\ UNCHANGED <<code, config, offset, tokenBuffer, tokens, row, column>>

Stretch(p) == [i \in 1 .. p + 1 - offset |-> offset + i - 1]
-----------------------------------------------------------------------------
Reading == result = "reading" /\ offset <= Len(code)

\* the newline that ends this line, if one does
LineEnd ==
  {n \in offset + 1 .. Len(code) :
     code[n] = "newline" /\ \A m \in offset + 1 .. n - 1 : code[m] # "newline"}

\* the loop leaves the newline behind, and the step around it one more character
Continuation ==
  /\ Reading /\ Here = "backslash"
  /\ UNCHANGED <<tokens, tokenBuffer>>
  /\ \/ LineEnd = {} /\ Advance(Len(code) + 1)
     \/ \E n \in LineEnd : Advance(n + 1)

\* Mutant of Comment: the newline belongs to the remark.
CommentTakesNewline ==
  /\ Reading /\ Here = "comment"
  /\ UNCHANGED <<tokens, tokenBuffer>>
  /\ \/ LineEnd = {} /\ Advance(Len(code) + 1)
     \/ \E n \in LineEnd : Advance(n)

Comment ==
  /\ Reading /\ Here = "comment"
  /\ UNCHANGED <<tokens, tokenBuffer>>
  /\ \/ LineEnd = {} /\ Advance(Len(code) + 1)
     \/ \E n \in LineEnd : Advance(n - 1)

\* appendTokenWithSpaces, behind the tokens that are there already
Fetch(type, before, ends) ==
  \/ ends = {} /\ Throw("UNTERMINATED_STRING")
  \/ \E p \in ends :
       /\ tokens' = Append(before, Token(type, Here, Stretch(p), column))
       /\ tokenBuffer' = <<>>
       /\ Advance(p)

QuoteEnd ==
  {p \in offset + 1 .. Len(code) :
     code[p] = Here /\ \A q \in offset + 1 .. p - 1 : code[q] # Here}

Quote ==
  /\ Reading /\ Here \in Quotes
  /\ IF tokenBuffer # <<>> THEN Throw("UNKNOWN_TOKEN")
                           ELSE Fetch("QUOTE", tokens, QuoteEnd)

CountOf(c, p) == Cardinality({q \in offset + 1 .. p : code[q] = c})
Nesting(p)    == 1 + CountOf(Here, p) - CountOf(FlipBracket(Here), p)

BracketEnd ==
  {p \in offset + 1 .. Len(code) :
     Nesting(p) = 0 /\ \A q \in offset + 1 .. p - 1 : Nesting(q) > 0}

\* Mutant of WithPrefix: only a call keeps the word before the bracket.
PrefixForgotten ==
  IF tokenBuffer # <<>> /\ Here = "open"
  THEN Append(tokens, Token("KEYWORD", "BRACKET_PREFIX", tokenBuffer, column))
  ELSE tokens

\* a word before a bracket: test[123], or the name of a call before (
WithPrefix ==
  IF tokenBuffer # <<>> /\ Here = "open"
  THEN Append(tokens, Token("KEYWORD", "BRACKET_PREFIX", tokenBuffer, column))
  ELSE WithWord(tokenBuffer)

\* closing brackets are brackets as well: without an opening one before them
\* they open a content of their own
Bracket ==
  /\ Reading /\ Here \in Brackets
  /\ IF tokenBuffer # <<>> /\ ~config.allowBracketPrefixKeyword
     THEN Throw("UNKNOWN_TOKEN")
     ELSE IF config.consumeBracketContent
     THEN Fetch("BRACKET", WithPrefix, BracketEnd)
     ELSE /\ tokens' = Append(WithPrefix, Token("BRACKET", Here, <<offset>>, column))
          /\ tokenBuffer' = <<>>
          /\ Advance(offset)

EndOfLine ==
  /\ Reading /\ Here = "newline"
  /\ AppendCharToken("EOL", <<offset>>)
  /\ Advance(offset)

Ahead    == <<Here, At(offset + 1)>>
IsPair   == Ahead \in Pairs
IsSign   == ~config.signOperatorsAsSeparateTokens /\ Here = "minus" /\ At(offset + 1) \in Integral
IsLetter == Here \notin Quotes \cup Brackets \cup Terminals
                          \cup {"backslash", "comment", "newline", "blank"}

PairTerminal ==
  /\ Reading /\ IsPair
  /\ AppendCharToken("terminal", <<offset, offset + 1>>)
  /\ Advance(offset + 1)

Terminal ==
  /\ Reading /\ Here \in Terminals /\ ~IsPair /\ ~IsSign
  /\ AppendCharToken("terminal", <<offset>>)
  /\ Advance(offset)

\* a character of a word, or the sign of a number, even behind other characters
Letter ==
  /\ Reading /\ ~IsPair /\ (IsLetter \/ IsSign)
  /\ tokenBuffer' = Append(tokenBuffer, offset)
  /\ UNCHANGED tokens
  /\ Advance(offset)

Blank ==
  /\ Reading /\ Here = "blank"
  /\ tokens' = WithWord(tokenBuffer)
  /\ tokenBuffer' = <<>>
  /\ Advance(offset)

EndOfFile ==
  /\ result = "reading" /\ offset > Len(code)
  /\ tokens' = Append(WithWord(tokenBuffer), Token("EOF", "none", <<>>, column))
  /\ tokenBuffer' = <<>>
  /\ result' = "done"
  /\ UNCHANGED <<code, config, offset, row, column>>
-----------------------------------------------------------------------------
Init ==
  /\ code \in Sources
  /\ config \in Configurations
  /\ offset = 1 /\ row = 0 /\ column = 0
  /\ tokenBuffer = <<>> /\ tokens = <<>>
  /\ result = "reading"

Next ==
  \/ Continuation \/ Comment \/ Quote \/ Bracket \/ EndOfLine
  \/ PairTerminal \/ Terminal \/ Letter \/ Blank \/ EndOfFile

Spec == Init /\ [][Next]_vars
-----------------------------------------------------------------------------
Tokens ==
  [type : {"QUOTE", "BRACKET", "KEYWORD", "NUMBER", "terminal", "EOL", "EOF"}, kind : Kinds,
   at : Seq(1 .. Len(code)), row : Nat, column : Int]

(* Where the state lives: the loop may leave the last character two behind. *)
TypeOK ==
  /\ code \in Sources /\ config \in Configurations
  /\ offset \in 1 .. Len(code) + 2
  /\ tokenBuffer \in Seq(1 .. Len(code))
  /\ tokens \in Seq(Tokens)
  /\ row \in Nat /\ column \in Nat
  /\ result \in {"reading", "done", "UNKNOWN_TOKEN", "UNTERMINATED_STRING"}

\* p belongs to a token or to the word that will be one
Taken(p) ==
  \/ p \in Positions(tokenBuffer)
  \/ \E i \in DOMAIN tokens : p \in Positions(tokens[i].at)

SameLine(q, p) == \A n \in q .. p : code[n] # "newline"

\* a remark, or a line end with everything from the backslash to the first
\* character of the next line
Dropped(p) ==
  \E q \in 1 .. p :
    /\ ~Taken(q)
    /\ \/ code[q] = "comment" /\ SameLine(q, p)
       \/ code[q] = "backslash" /\ SameLine(q, p - 1)
       \/ code[q] = "backslash" /\ code[p - 1] = "newline" /\ SameLine(q, p - 2)

\* what was read is in a token or in the word being read, or it is a blank,
\* or it was dropped on purpose
NothingIsLost ==
  \A p \in 1 .. Len(code) :
    p < offset => Taken(p) \/ Dropped(p) \/ code[p] \in {"blank", "return"}

Increasing(at) == \A i, j \in DOMAIN at : i < j => at[i] < at[j]
Before(a, b)   == \A p \in Positions(a), q \in Positions(b) : p < q

\* tokens come in the order of the source and share no characters
InOrder ==
  /\ Increasing(tokenBuffer)
  /\ \A i \in DOMAIN tokens :
       /\ Increasing(tokens[i].at)
       /\ Before(tokens[i].at, tokenBuffer)
       /\ \A j \in DOMAIN tokens : i < j => Before(tokens[i].at, tokens[j].at)

(***************************************************************************)
(* Every character is read once: whatever the offset has passed is part of *)
(* exactly one token, in the order of the source, unless it is a blank, in *)
(* a remark or broken off with a backslash.  The buffer and the offset     *)
(* move on their own, a terminal flushes the word before it, a bracket its *)
(* prefix, and each of the inner loops leaves the offset elsewhere.        *)
(***************************************************************************)
CharactersOnce == TypeOK /\ NothingIsLost /\ InOrder

IsWord(t)      == t.type \in {"KEYWORD", "NUMBER"}
WordCharacters == {"letter", "digit"}
LastOf(at)     == at[Len(at)]

(***************************************************************************)
(* A word is neither split nor glued to another one: its characters follow *)
(* each other in the source unless a backslash breaks the line between     *)
(* them, and what is next to it is no letter or digit, unless it is the    *)
(* one that a broken line loses.                                           *)
(***************************************************************************)
WordsStayWhole ==
  \A k \in DOMAIN tokens :
    LET at == tokens[k].at
    IN  IsWord(tokens[k]) =>
          /\ \A i \in 1 .. Len(at) - 1 :
               at[i + 1] = at[i] + 1 \/ At(at[i] + 1) = "backslash"
          /\ At(LastOf(at) + 1) \notin WordCharacters
          /\ At(at[1] - 1) \in WordCharacters => At(at[1] - 2) = "newline"

NewlinesBefore(p) == {n \in 1 .. p - 1 : code[n] = "newline"}

\* newlines that ended a line for the lexer
Lines == {n \in 1 .. Len(code) :
            code[n] = "newline" /\ \E i \in DOMAIN tokens :
                                     tokens[i].type = "EOL" /\ tokens[i].at = <<n>>}

(***************************************************************************)
(* As long as every newline before it ended a line, a token tells its line *)
(* and its column.  (A newline in a quote, in brackets or behind a         *)
(* backslash does not count: the rest of the source is reported a row too  *)
(* high.  The column of a word is counted back from where it was noticed,  *)
(* which is wrong behind a remark, a carriage return or before a bracket.) *)
(***************************************************************************)
LocationsPoint ==
  \A k \in DOMAIN tokens :
    LET t     == tokens[k]
        first == t.at[1]
        lines == NewlinesBefore(first)
    IN  t.at # <<>> /\ lines \subseteq Lines =>
          /\ t.row = Cardinality(lines)
          /\ \/ IsWord(t) /\ At(LastOf(t.at) + 1) \in {"comment", "backslash", "return", "open"}
             \/ IsWord(t) /\ "backslash" \in {code[p] : p \in first .. LastOf(t.at)}
             \/ \E p \in {0} \cup lines :
                  (\A n \in lines : n <= p) /\ t.column = first - p - 1

=============================================================================
