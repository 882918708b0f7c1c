---------------------------- MODULE MathExpression ----------------------------
(***************************************************************************)
(* The expression evaluator of compiler-rpn: tokens are moved to postfix   *)
(* order by operator priority (toRPN), and the postfix list is reduced on  *)
(* a stack of numbers (reducePostfixToNumber).                             *)
(***************************************************************************)
EXTENDS Integers, Sequences, SequencesExt, FiniteSetsExt, TLC

Number(n) == [t |-> "num", n |-> n]
Name(name) == [t |-> "name", name |-> name]
Op(op) == [t |-> "op", op |-> op]

\* Priorities of the operators (MathOperator.OPERATORS); all of them are left associative.
Priority == "(" :> 0 @@ ")" :> 0 @@ "<<" :> 1 @@ "+" :> 2 @@ "-" :> 2 @@ "*" :> 3

Resolver(op, a, b) ==
    CASE op = "+" -> a + b
      [] op = "-" -> a - b
      [] op = "*" -> a * b
      [] op = "<<" -> a * 2^b

\* The operators above the last one of stack that belongs to stop leave the stack, the top first.
Left(stack, stop) == Max({0} \cup {i \in DOMAIN stack : stack[i] \in stop})
Unwound(s, stop) ==
    [s EXCEPT !.stack = SubSeq(s.stack, 1, Left(s.stack, stop)),
              !.buffer = @ \o [i \in 1..(Len(s.stack) - Left(s.stack, stop)) |-> Op(s.stack[Len(s.stack) + 1 - i])]]

\* A sign that opens the expression or a bracket is a sign of 0.
Prefixed(toks, i) == toks[i].op \in {"+", "-"} /\ (i = 1 \/ toks[i - 1] = Op("("))

Pushed(s, op) == [s EXCEPT !.stack = Append(@, op)]

\* The operators that stay on the stack when op arrives.
Stronger(op) == {o \in DOMAIN Priority : Priority[o] < Priority[op]}

Shunted(s, toks, i) ==
    LET tok == toks[i]
        zero == [s EXCEPT !.buffer = Append(@, Number(0))]
        unwound == Unwound(s, {"("})
    IN CASE tok.t # "op" -> [s EXCEPT !.buffer = Append(@, tok)]
         [] tok = Op("(") -> Pushed(s, "(")
         [] tok = Op(")") /\ unwound.stack = <<>> -> [s EXCEPT !.code = "MISSING_LEFT_BRACKET"]
         [] tok = Op(")") /\ unwound.stack # <<>> -> [unwound EXCEPT !.stack = Front(@)]
         [] OTHER -> Pushed(Unwound(IF Prefixed(toks, i) THEN zero ELSE s, Stronger(tok.op)), tok.op)

RECURSIVE ShuntedTo(_, _)
ShuntedTo(toks, i) ==
    IF i = 0 THEN [buffer |-> <<>>, stack |-> <<>>, code |-> "ok"]
    ELSE LET s == ShuntedTo(toks, i - 1)
         IN IF s.code = "ok" THEN Shunted(s, toks, i) ELSE s

Closed(s) ==
    IF s.code = "ok" /\ Contains(s.stack, "(") THEN [s EXCEPT !.code = "INCORRECT_BRACKETS"] ELSE Unwound(s, {})

ToRPN(toks) == Closed(ShuntedTo(toks, Len(toks)))

\* One element of the postfix list: missing operands of a sign are zeros under the whole stack.
Reduced(s, tok, names) ==
    LET missing == IF Len(s.stack) >= 2 THEN 0 ELSE 2 - Len(s.stack)
        full == [i \in 1..missing |-> 0] \o s.stack
        rest == SubSeq(full, 1, Len(full) - 2)
        value == Resolver(tok.op, full[Len(full) - 1], full[Len(full)])
    IN CASE tok.t = "num" -> [s EXCEPT !.stack = Append(@, tok.n)]
         [] tok.t = "name" /\ tok.name \in DOMAIN names -> [s EXCEPT !.stack = Append(@, names[tok.name])]
         [] tok.t = "name" /\ tok.name \notin DOMAIN names -> [s EXCEPT !.code = "UNKNOWN_KEYWORD"]
         [] tok.t = "op" /\ missing > 0 /\ tok.op \notin {"+", "-"} -> [s EXCEPT !.code = "MISSING_OPERANDS"]
         [] OTHER -> [s EXCEPT !.stack = Append(rest, value)]

RECURSIVE ReducedTo(_, _, _)
ReducedTo(postfix, i, names) ==
    IF i = 0 THEN [stack |-> <<>>, code |-> "ok"]
    ELSE LET s == ReducedTo(postfix, i - 1, names)
         IN IF s.code = "ok" THEN Reduced(s, postfix[i], names) ELSE s

Answer(end) == [code |-> end.code, n |-> IF end.code = "ok" THEN Last(end.stack) ELSE 0]

ReducePostfix(postfix, names) ==
    IF postfix.code = "ok" THEN Answer(ReducedTo(postfix.buffer, Len(postfix.buffer), names))
    ELSE [code |-> postfix.code, n |-> 0]

\* The value of an expression of known names: its code is "ok" or the error thrown.
Evaluate(toks, names) == ReducePostfix(ToRPN(toks), names)
=============================================================================
