------------------------------ MODULE MCAssembler ------------------------------
(***************************************************************************)
(* Lines and machines for Assembler.                                       *)
(***************************************************************************)
EXTENDS Assembler

At == 512

Line(op, operands) == [op |-> op, prefixes |-> <<>>, operands |-> operands, at |-> At, ahead |-> FALSE, label |-> 5]
WithLabel(lines, labels) == {[l EXCEPT !.label = n] : l \in lines, n \in labels}
Lines2(ops, lefts, rights) == {Line(op, <<l, r>>) : op \in ops, l \in lefts, r \in rights}
Lines1(ops, operands) == {Line(op, <<o>>) : op \in ops, o \in operands}

Two == {"add", "or", "adc", "sbb", "and", "sub", "xor", "cmp", "test", "mov"}
Pairs == {<<"bx", "si">>, <<"bx", "di">>, <<"bp", "si">>, <<"bp", "di">>, <<"si", "bx">>, <<"di", "bp">>,
          <<"si">>, <<"di">>, <<"bp">>, <<"bx">>}
Disps == {NoTree, Lit(5), Lit(127), Lit(128), Lit(255), Lit(4660), Neg(Lit(5)), Neg(Lit(128)), Neg(Lit(129)), Sym,
          Bin("+", Sym, Lit(2)), Bin("-", Lit(2), Sym), Bin("*", Lit(3), Sym)}

Addresses == {M(regs, e) : regs \in Pairs, e \in Disps} \cup {M(<<>>, e) : e \in Disps \ {NoTree}}
Overridden == {SegM(s, regs, e) : s \in {"es", "cs", "ss", "ds"}, regs \in {<<>>, <<"bx">>, <<"bp", "si">>}, e \in {Lit(200), Sym}}
FewAddresses == {M(<<"bx", "si">>, NoTree), M(<<"bp">>, Lit(200)), M(<<>>, Sym)}

Immediates == {Lit(0), Lit(5), Lit(127), Lit(128), Lit(200), Lit(255), Lit(256), Lit(4660), Lit(65408), Lit(65535),
               Lit(-1), Lit(-128), Lit(-129), Lit(-200), Sym}

SomeRegisters == {R("ax"), R("bx"), R("di"), R("al"), R("ch"), R("bl")}

\* Every address, with every form of MOV and one operator that reads and writes.
MemoryLines ==
    Lines2({"mov", "sub"}, {R("ax"), R("ch"), R("di")}, Addresses \cup Overridden)
      \cup Lines2({"mov", "sub"}, Addresses \cup Overridden, {R("al"), R("dx")})
      \cup Lines2({"lea"}, {R("dx")}, Addresses)

\* Every operator, with every pair of operands.
OperatorLines ==
    Lines2(Two \cup {"xchg"}, SomeRegisters, SomeRegisters \cup FewAddresses)
      \cup Lines2(Two \cup {"xchg"}, FewAddresses, {R("cx"), R("bh")})
      \cup Lines2(Two, {R("ax"), R("bx"), R("al"), R("bl")}, {I(e) : e \in Immediates})
      \cup Lines2(Two, {Sized(a, size) : a \in FewAddresses, size \in {1, 2}}, {I(e) : e \in {Lit(5), Lit(200), Lit(65535), Lit(-1), Sym}})
      \cup Lines2(Two, FewAddresses, {Sized(I(Lit(5)), 1), Sized(I(Lit(5)), 2), Sized(I(Lit(300)), 1), I(Lit(5))})

UnaryLines ==
    Lines1(Unaries, SomeRegisters \cup {Sized(a, size) : a \in FewAddresses, size \in {1, 2}} \cup FewAddresses)
      \cup Lines2(Shifts, {R("ax"), R("bl"), R("ch")} \cup {Sized(a, size) : a \in FewAddresses, size \in {1, 2}},
                  {I(Lit(1)), I(Lit(3)), I(Lit(9)), R("cl"), I(Lit(300))})

SegmentLines ==
    Lines2({"mov"}, {R("es"), R("ds")}, {R("bx"), R("al"), R("cs"), I(Lit(5)), M(<<"bx">>, Lit(5))})
      \cup Lines2({"mov"}, {R("bx"), R("bl"), M(<<"bx">>, Lit(5))}, {R("es"), R("ss")})

WrongLines ==
    Lines2({"mov", "add"}, {M(<<"bx", "bp">>, NoTree), M(<<"ax">>, NoTree), M(<<"si", "di">>, Lit(5)), I(Lit(5))},
           {R("ax"), R("bl"), M(<<"bx">>, NoTree)})
      \cup Lines2({"lea"}, {R("dl"), M(<<"bx">>, NoTree)}, {R("bx"), M(<<"bx">>, NoTree)})

\* Jumps to labels ahead, behind, and at the edges of a short jump.
JumpLines ==
    {[l EXCEPT !.ahead = TRUE, !.label = n] : l \in Lines1(Jumps, {I(Sym), I(Bin("+", Sym, Lit(2)))}), n \in {0, 1, 120, 126, 127, 128, 129, 1000}}
      \cup WithLabel(Lines1(Jumps, {I(Sym)}), {0, At - 200, At - 130, At - 127, At - 126, At - 125, At})
      \cup Lines1({"jmp"}, {R("bx"), M(<<"bx">>, Lit(5)), M(<<>>, Sym), R("bl")})

\* Segments written as prefixes, before addresses with and without a segment of their own, and before jumps.
PrefixedLines ==
    {[l EXCEPT !.prefixes = p] :
        l \in Lines2({"mov"}, {R("cx")}, FewAddresses \cup {SegM("es", <<"bx">>, Lit(5))})
               \cup WithLabel(Lines1(Jumps, {I(Sym)}), {At - 200, At - 127, At - 126, At - 125, At - 124, At})
               \cup {[j EXCEPT !.ahead = TRUE] : j \in WithLabel(Lines1(Jumps, {I(Sym)}), {0, 125, 126, 127, 200})},
        p \in {<<"es">>, <<"ds">>, <<"es", "ss">>}}

Leaves == {Lit(2), Lit(3), Sym}
Small == Leaves \cup {Neg(Lit(2))}
Products == {Bin(op, l, r) : op \in {"+", "-", "*"}, l \in Small, r \in Leaves} \cup {Bin("<<", l, Lit(2)) : l \in Leaves}
Trees == {Bin(op, l, r) : op \in {"+", "-", "*"}, l \in Products, r \in Leaves}
           \cup {Bin(op, l, r) : op \in {"+", "-", "*"}, l \in Small, r \in Products}
           \cup {Bin("<<", l, Lit(3)) : l \in Products} \cup {Bin("<<", Lit(2), Bin("+", Lit(2), Lit(3)))} \cup {Neg(e) : e \in Products}
ExpressionLines ==
    Lines2({"mov"}, {R("bx")}, {I(e) : e \in Trees}) \cup Lines2({"mov"}, {R("cx")}, {M(<<"bx", "si">>, e) : e \in Trees})

MCLines ==
    WithLabel(MemoryLines, {200, 4660}) \cup WithLabel(OperatorLines, {300}) \cup UnaryLines \cup SegmentLines
      \cup WrongLines \cup JumpLines \cup PrefixedLines \cup WithLabel(ExpressionLines, {7})

RegisterFile(ax, bx, cx, dx, si, di, bp) ==
    "ax" :> ax @@ "bx" :> bx @@ "cx" :> cx @@ "dx" :> dx @@ "si" :> si @@ "di" :> di @@ "bp" :> bp @@ "sp" :> 4094
      @@ "es" :> 768 @@ "cs" :> 0 @@ "ss" :> 512 @@ "ds" :> 256 @@ "ip" :> 0

NewMachine(r, f) ==
    [r |-> r, f |-> f, mem |-> <<>>, code |-> <<>>, pos |-> 0, segment |-> "ds", jump |-> NoJump, fault |-> "none"]

\* The sums of the second machine wrap around; its results carry, and are zero.
MCMachines ==
    {NewMachine(RegisterFile(4660, 22136, 513, 30600, 100, 7, 300), [cf |-> 0, pf |-> 0, zf |-> 0, sf |-> 0, of |-> 1]),
     NewMachine(RegisterFile(32768, 65520, 65283, 65535, 32, 3, 65530), [cf |-> 1, pf |-> 0, zf |-> 1, sf |-> 0, of |-> 0]),
     NewMachine(RegisterFile(255, 2, 3, 32767, 1, 65535, 4), [cf |-> 1, pf |-> 1, zf |-> 0, sf |-> 1, of |-> 1])}
=============================================================================
