------------------------ MODULE PreprocessorGrammar ------------------------
(***************************************************************************)
(* The grammar of the preprocessor (preprocessor/grammar.ts on top of the  *)
(* predictive parser compiler-grammar/Grammar.ts): it turns the lines of a *)
(* source into a tree of statements.                                       *)
(*                                                                         *)
(* A source is a sequence of lines, a line a record whose field d names    *)
(* the directive it starts with:                                           *)
(*   text (toks), blank, equ (name, expr), define (name, cs, args, expr),  *)
(*   undef (name), macro (name, cs, argc), endmacro, if (neg, expr),       *)
(*   elif (neg, expr), ifdef (neg, name), elifdef (neg, name), else, endif *)
(* and a name is NoName where the keyword is missing.  A node of the tree  *)
(* is named by the number of the line that starts it.                      *)
(***************************************************************************)
EXTENDS Integers, Sequences, SequencesExt

CONSTANT Reserved        \* words an EQU may not be named after

NoName == ""

Openers == {"if", "ifdef", "macro"}
Conditions == {"if", "elif", "ifdef", "elifdef"}
Closers == {"else", "elif", "elifdef", "endif", "endmacro"}

(***************************************************************************)
(* The state of the parser: the line it stands on, one frame for every     *)
(* production stmt() in progress (the list it collected and, for a         *)
(* condition, the consequent already complete), the nodes built, the       *)
(* number of match calls of the production tried last, and the verdict.    *)
(***************************************************************************)
Frame(id, d) == [id |-> id, d |-> d, part |-> "body", list |-> <<>>, consequent |-> <<>>]

ParserInit == [pos |-> 1, frames |-> <<Frame(0, "root")>>, nodes |-> <<>>, nesting |-> 0, verdict |-> "parsing"]

TopFrame(p) == Last(p.frames)

Child(p, id) == [p EXCEPT !.frames[Len(p.frames)].list = Append(@, id)]

Node(line, body, alternate) ==
    [d |-> line.d, line |-> line, body |-> body, alternate |-> alternate]

\* The match calls (identifier and match, without those that ask to be ignored)
\* counted when a production has returned and the end of its line was read: a
\* line of text makes none, every other line leaves at least one.
MatchCalls(line) == IF line.d = "text" THEN 0 ELSE 1

\* A directive without the name it needs has made two calls: or() does not try
\* the next production any more.
Nameless(line) == line.d \in {"define", "undef", "macro", "ifdef", "elifdef"} /\ line.name = NoName

\* A production of one line: its node is appended to the list in progress.
Leaf(p, line) ==
    [Child(p, p.pos) EXCEPT !.pos = @ + 1, !.nodes = Append(@, Node(line, <<>>, <<>>)),
                            !.nesting = MatchCalls(line)]

\* The rest of a production with a body is left to the frame it opens.
Opened(p, line) ==
    [p EXCEPT !.pos = @ + 1, !.frames = Append(@, Frame(p.pos, line.d)),
              !.nodes = Append(@, Node(line, <<>>, <<>>)), !.nesting = MatchCalls(line)]

SyntaxError(p) == [p EXCEPT !.verdict = "error"]

NewLine(p, line) == Leaf(p, line)

SyntaxLine(p, line) == Leaf(p, line)

UndefStmt(p, line) == IF Nameless(line) THEN SyntaxError(p) ELSE Leaf(p, line)

DefineStmt(p, line) == IF Nameless(line) THEN SyntaxError(p) ELSE Leaf(p, line)

\* An EQU named after an instruction or a register is a non critical error: the line
\* is read again, as a line of text.
EquStmt(p, line) ==
    IF line.name \in Reserved
    THEN SyntaxLine(p, [d |-> "text", toks |-> <<line.name, "equ">> \o FlattenSeq(line.expr)])
    ELSE Leaf(p, line)

\* The productions with a body up to that body; elif and elifdef enter here too.
IfStmt(p, line) == Opened(p, line)

IfDefStmt(p, line) == IF Nameless(line) THEN SyntaxError(p) ELSE Opened(p, line)

MacroStmt(p, line) == IF Nameless(line) THEN SyntaxError(p) ELSE Opened(p, line)

\* Reads a line that has no node of its own: %else and the terminators.
Consume(p, line) ==
    [p EXCEPT !.pos = @ + 1, !.nodes = Append(@, Node(line, <<>>, <<>>)), !.nesting = MatchCalls(line)]

\* The production of the innermost frame returns its node to the list (or the
\* alternate) of the frame below.
Return(p) ==
    LET f == TopFrame(p)
        below == Front(p.frames)
        isElse == f.d \in {"elif", "elifdef"}
        node == IF f.part = "body" THEN [p.nodes[f.id] EXCEPT !.body = f.list]
                ELSE [p.nodes[f.id] EXCEPT !.body = f.consequent, !.alternate = f.list]
    IN [p EXCEPT !.nodes[f.id] = node,
                 !.frames = IF isElse
                            THEN [below EXCEPT ![Len(below)].part = "closing",
                                               ![Len(below)].consequent = Last(below).list,
                                               ![Len(below)].list = <<f.id>>]
                            ELSE [below EXCEPT ![Len(below)].list = Append(@, f.id)]]

\* A production fails before its second match call: or() rewinds to the line it
\* started at, no other production takes a directive, and the list of statements
\* around it ends there.  The production around that list then misses its own
\* terminator and fails in the same way, down to the root, whose list is the result.
GiveUp(p) ==
    LET first == IF Len(p.frames) > 1 THEN p.frames[2].id ELSE p.pos
    IN [p EXCEPT !.pos = first, !.frames = <<Head(p.frames)>>, !.verdict = "parsed"]

\* The line that ends the list of the innermost frame, "eof" after the last one.
Terminator(p, src) == IF p.pos > Len(src) THEN "eof" ELSE src[p.pos].d

\* Mutant of Alternates: every condition asks for %elif.
AlternatesElif(d) == "elif"

Alternates(d) == IF d \in {"if", "elif"} THEN "elif" ELSE "elifdef"

\* The match calls still counted where a branch has ended: those of the statement
\* before it in an %else part at the end of the file, none where a statement or an
\* alternate was tried in vain.
CallsAfterBranch(p, src) ==
    LET part == TopFrame(p).part
    IN IF part = "closing" \/ (part = "else" /\ Terminator(p, src) = "eof") THEN p.nesting ELSE 0

\* What follows the list of a condition: an alternate, the end of an alternate, or
\* the terminator.
EndOfBranch(p, src) ==
    LET f == TopFrame(p)
        at == Terminator(p, src)
        calls == CallsAfterBranch(p, src)
        else == [Consume(p, src[p.pos]) EXCEPT !.frames[Len(p.frames)].part = "else",
                                               !.frames[Len(p.frames)].consequent = f.list,
                                               !.frames[Len(p.frames)].list = <<>>]
    IN IF f.part = "body" /\ at = "else" THEN else
       ELSE IF f.part = "body" /\ at = Alternates(f.d)
       THEN IF at = "elif" THEN IfStmt(p, src[p.pos]) ELSE IfDefStmt(p, src[p.pos])
       ELSE IF f.d \in {"elif", "elifdef"} THEN Return([p EXCEPT !.nesting = calls])
       ELSE IF at = "endif" THEN Consume(Return(p), src[p.pos])
       ELSE IF calls + 1 > 1 THEN SyntaxError(p) ELSE GiveUp(p)

\* What follows the body of a macro.  %endmacro is asked for with the match calls of
\* the statement before it still counted when the list ended at the end of the file.
EndOfMacro(p, src) ==
    LET at == Terminator(p, src)
        calls == IF at = "eof" THEN p.nesting ELSE 0
    IN IF at = "endmacro" THEN Consume(Return(p), src[p.pos])
       ELSE IF calls + 1 > 1 THEN SyntaxError(p) ELSE GiveUp(p)

EndOfList(p, src) ==
    CASE TopFrame(p).d = "root" -> GiveUp(p)
      [] TopFrame(p).d = "macro" -> EndOfMacro(p, src)
      [] TopFrame(p).d \in Conditions -> EndOfBranch(p, src)

\* stmt(): the production that takes the next line.
Statement(p, line) ==
    CASE line.d = "blank" -> NewLine(p, line)
      [] line.d = "undef" -> UndefStmt(p, line)
      [] line.d = "if" -> IfStmt(p, line)
      [] line.d = "ifdef" -> IfDefStmt(p, line)
      [] line.d = "define" -> DefineStmt(p, line)
      [] line.d = "macro" -> MacroStmt(p, line)
      [] line.d = "equ" -> EquStmt(p, line)
      [] line.d = "text" -> SyntaxLine(p, line)

\* matchList: the next statement of the list in progress, or its end.
ParseStep(p, src) ==
    LET listEnds == TopFrame(p).part = "closing" \/ p.pos > Len(src) \/ src[p.pos].d \in Closers
    IN IF listEnds THEN EndOfList(p, src) ELSE Statement(p, src[p.pos])

\* The statements of the document.
Root(p) == Head(p.frames).list

=============================================================================
