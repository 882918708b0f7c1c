---------------------------- MODULE X86Compiler ----------------------------
(***************************************************************************)
(* The two passes of the assembler (parser/compiler/X86Compiler.ts).  The  *)
(* first pass walks the AST once, gives every label an address and every   *)
(* node a blob with an optimistic size.  The second pass iterates over the *)
(* blobs, resolves labels, expands TIMES and resizes jumps, and repeats    *)
(* until a whole pass changes nothing or maxPasses is used up.             *)
(*                                                                         *)
(* nodesOffsets is a JavaScript Map that the second pass mutates while it  *)
(* iterates over it: it is modelled as the sequence of its entries in      *)
(* insertion order, with seen the number of live entries the iterator has  *)
(* passed.  An entry that is deleted and set again goes to the end and is  *)
(* visited (again) in the same pass, as the Map iterator does.             *)
(***************************************************************************)
EXTENDS Integers, Sequences, SequencesExt

CONSTANTS
  Programs,   \* the ASTs to assemble: a set of sequences of AST nodes
  Origin,     \* [org] of the program, the address of its first byte
  ShortMax,   \* reach of a one-byte displacement (127 in the code)
  LongMax,    \* reach of a two-byte displacement (32767 in the code)
  MaxPasses,  \* passes the second pass may use (7 in the code)
  NIL         \* null: an EQU or an argument that has no value yet

ASSUME BoundsAssumption ==
  /\ Origin \in Nat
  /\ ShortMax \in Nat /\ LongMax \in Nat /\ ShortMax < LongMax
  /\ MaxPasses \in Nat \ {0}
  /\ NIL \notin Int

NoRef == "none" \* an argument that names no label

(***************************************************************************)
(* AST nodes.  An instruction is abstracted to its mnemonic class: "fixed" *)
(* has one size whatever its operands, "jmp" may be short (2 bytes) or     *)
(* near (3), "near" is a jmp with the NEAR keyword, "jcc" may be short (2) *)
(* or long (4), "mov" has a 16-bit immediate that names a label.           *)
(***************************************************************************)
Label(n)       == [kind |-> "LABEL", name |-> n]
Fixed(n)       == [kind |-> "INSTRUCTION", mn |-> "fixed", size |-> n, ref |-> NoRef]
Ref(mn, n, to) == [kind |-> "INSTRUCTION", mn |-> mn, size |-> n, ref |-> to]
Jmp(to)        == Ref("jmp", 2, to)
Near(to)       == Ref("near", 2, to)
Jcc(to)        == Ref("jcc", 2, to)
Mov(to)        == Ref("mov", 3, to)
Data(n)        == [kind |-> "DEFINE", size |-> n, ref |-> NoRef]
DataRef(to)    == [kind |-> "DEFINE", size |-> 2, ref |-> to]
Equ(n, k, sign, to) == [kind |-> "EQU", name |-> n, add |-> k, sign |-> sign, ref |-> to]
Times(n, body) == [kind |-> "TIMES", count |-> n, pad |-> FALSE, body |-> body]
PadTo(n, body) == [kind |-> "TIMES", count |-> n, pad |-> TRUE, body |-> body]

Jumps == {"jmp", "near", "jcc"}

\* What the parser makes of the lines of a program: every instruction has the
\* bytes of its shortest schema, and every definition has bytes (db "", which has
\* none, is left out).
Names      == STRING
LabelNodes == [kind : {"LABEL"}, name : Names]
EquNodes   == [kind : {"EQU"}, name : Names, add : Int, sign : {-1, 1}, ref : Names]

ByteNodes ==
  [kind : {"INSTRUCTION"}, mn : {"fixed"}, size : Nat \ {0}, ref : {NoRef}]
    \cup [kind : {"INSTRUCTION"}, mn : Jumps, size : {2}, ref : Names \ {NoRef}]
    \cup [kind : {"INSTRUCTION"}, mn : {"mov"}, size : {3}, ref : Names \ {NoRef}]
    \cup [kind : {"DEFINE"}, size : Nat \ {0}, ref : Names]

TimesNodes == [kind : {"TIMES"}, count : Int, pad : BOOLEAN, body : ByteNodes]

ASSUME ProgramsAssumption ==
  Programs \subseteq Seq(LabelNodes \cup EquNodes \cup ByteNodes \cup TimesNodes)

VARIABLES
  prog,          \* tree.astNodes
  phase,         \* "first", "second", "done", "error"
  error,         \* the ParserErrorCode that ended the compilation
  next,          \* index of the AST node the first pass processes next
  offset,        \* offset of the first pass
  labels,        \* labels: name -> address
  equ,           \* equ: name -> [val, labeled]
  nodesOffsets,  \* the Map address -> blob, entries in insertion order
  pass,          \* passes done
  seen,          \* entries the running pass has visited
  needPass,      \* needPass of the running pass
  needSort,      \* needSort: a TIMES appended blobs out of order
  blobs          \* SecondPassResult.blobs

firstVars == <<next, offset>>
passVars  == <<pass, seen, needPass, needSort>>
vars == <<prog, phase, error, firstVars, labels, equ, nodesOffsets, passVars, blobs>>

-----------------------------------------------------------------------------
(* Maps.                                                                   *)

Defined == DOMAIN labels \cup DOMAIN equ

With(f, k, v) == [x \in DOMAIN f \cup {k} |-> IF x = k THEN v ELSE f[x]]

At(map, addr) == {i \in DOMAIN map : map[i].at = addr}

\* Map.set: a present key keeps its place, a new one goes to the end.
MapSet(map, addr, blob) ==
  IF At(map, addr) = {}
    THEN Append(map, [at |-> addr, blob |-> blob])
    ELSE [i \in DOMAIN map |-> IF map[i].at = addr THEN [at |-> addr, blob |-> blob] ELSE map[i]]

\* What is left of a map when all other entries are deleted.
Only(map, entries) ==
  LET only[i \in 0 .. Len(map)] ==
        IF i = 0 THEN <<>>
        ELSE IF map[i] \in entries THEN Append(only[i - 1], map[i]) ELSE only[i - 1]
  IN  only[Len(map)]

Blob(i, ast, size) ==
  [node |-> i, ast |-> ast, size |-> size, val |-> NIL, slaves |-> <<>>]

-----------------------------------------------------------------------------
(* First pass.                                                             *)

Init ==
  /\ prog \in Programs
  /\ phase = "first" /\ error = "none"
  /\ next = 1 /\ offset = 0
  /\ labels = <<>> /\ equ = <<>> /\ nodesOffsets = <<>>
  /\ pass = 0 /\ seen = 0 /\ needPass = FALSE /\ needSort = FALSE
  /\ blobs = <<>>

\* emitBlob: a zero-size blob becomes a slave of the blob at its address; a
\* sized blob that arrives at the address of zero-size ones takes them over.
EmitBlob(map, addr, blob) ==
  LET prev == At(map, addr) IN
  IF prev = {} THEN MapSet(map, addr, blob)
  ELSE LET old == map[CHOOSE i \in prev : TRUE].blob IN
       IF blob.size = 0
         THEN MapSet(map, addr, [old EXCEPT !.slaves = Append(@, blob.ast.name)])
         ELSE MapSet(map, addr, [blob EXCEPT !.slaves = Append(old.slaves, old.ast.name)])

Fail(code) ==
  /\ phase' = "error" /\ error' = code
  /\ UNCHANGED <<prog, firstVars, labels, equ, nodesOffsets, passVars, blobs>>

FirstPassNode(kinds) ==
  phase = "first" /\ next <= Len(prog) /\ prog[next].kind \in kinds

\* INSTRUCTION and DEFINE take the bytes of their shortest schema, TIMES one.
FirstPassSized ==
  /\ FirstPassNode({"INSTRUCTION", "DEFINE", "TIMES"})
  /\ LET ast  == prog[next]
         size == IF ast.kind = "TIMES" THEN 1 ELSE ast.size IN
     /\ nodesOffsets' = EmitBlob(nodesOffsets, Origin + offset, Blob(next, ast, size))
     /\ offset' = offset + size
  /\ next' = next + 1
  /\ UNCHANGED <<prog, phase, error, labels, equ, passVars, blobs>>

\* An EQU over numbers has its value at once, one that names a keyword waits.
FirstPassEqu ==
  /\ FirstPassNode({"EQU"})
  /\ LET ast == prog[next] IN
     IF ast.name \in Defined THEN Fail("EQU_ALREADY_DEFINED")
     ELSE /\ equ' = With(equ, ast.name,
                         [val     |-> IF ast.ref = NoRef THEN ast.add ELSE NIL,
                          labeled |-> ast.ref # NoRef])
          /\ nodesOffsets' = EmitBlob(nodesOffsets, Origin + offset, Blob(next, ast, 0))
          /\ next' = next + 1
          /\ UNCHANGED <<prog, phase, error, offset, labels, passVars, blobs>>

FirstPassLabel ==
  /\ FirstPassNode({"LABEL"})
  /\ LET name == prog[next].name IN
     IF name \in Defined THEN Fail("LABEL_ALREADY_DEFINED")
     ELSE /\ labels' = With(labels, name, Origin + offset)
          /\ next' = next + 1
          /\ UNCHANGED <<prog, phase, error, offset, equ, nodesOffsets, passVars, blobs>>

BeginSecondPass ==
  /\ phase = "first" /\ next > Len(prog)
  /\ phase' = "second"
  /\ UNCHANGED <<prog, error, firstVars, labels, equ, nodesOffsets, passVars, blobs>>

-----------------------------------------------------------------------------
(* Second pass.                                                            *)

\* labelResolver: equ.get(name).val ?? 0, else labels.get(name).
Resolve(eqs, name) ==
  IF name \in DOMAIN eqs
    THEN IF eqs[name].val = NIL THEN 0 ELSE eqs[name].val
    ELSE labels[name]

\* Mutant of Moved: a label at the resized block moves with what follows it.
MovedAtBlock(a, addr, enlarge) == IF a >= addr THEN a + enlarge ELSE a

\* The shift of an address, and of the labels, when the block at addr grows.
Moved(a, addr, enlarge) == IF a > addr THEN a + enlarge ELSE a

\* resizeBlockAtOffset: the labels behind addr move ...
ResizedLabels(addr, enlarge) == [l \in DOMAIN labels |-> Moved(labels[l], addr, enlarge)]

\* ... and the entries behind it are deleted and set again, at the end.
Resized(map, addr, enlarge) ==
  LET kept  == Only(map, {e \in ToSet(map) : e.at <= addr})
      moved == Only(map, {e \in ToSet(map) : e.at > addr}) IN
  kept \o [i \in DOMAIN moved |-> [moved[i] EXCEPT !.at = Moved(@, addr, enlarge)]]

\* How many of the entries the iterator has passed survive the resize in place.
SeenAfter(map, i, addr, gone) ==
  Cardinality({j \in 1..i : map[j].at <= addr /\ map[j].at \notin gone})

\* passEqu on one EQU, with the values the EQUs before it got in this visit.
EquAst(name) == prog[CHOOSE i \in DOMAIN prog : prog[i].kind = "EQU" /\ prog[i].name = name]

PassEqu(eqs, name) ==
  LET ast == EquAst(name) IN
  IF eqs[name].labeled
    THEN [eqs EXCEPT ![name].val = ast.add + ast.sign * Resolve(eqs, ast.ref)]
    ELSE eqs

PassEqus(names) ==
  LET eqs[i \in 0 .. Len(names)] ==
        IF i = 0 THEN equ ELSE PassEqu(eqs[i - 1], names[i])
  IN  eqs[Len(names)]

\* Mutant of EquChanged: a first value is no change.
EquChangedOnlyAgain(eqs, names) ==
  \E n \in ToSet(names) : equ[n].labeled /\ equ[n].val # NIL /\ eqs[n].val # equ[n].val

\* Mutant of EquChanged: an EQU that names a label counts as changed each time.
EquChangedAlways(eqs, names) == \E n \in ToSet(names) : equ[n].labeled

\* passEqu: true when the value is new or another one.
EquChanged(eqs, names) ==
  \E n \in ToSet(names) :
     equ[n].labeled /\ (equ[n].val = NIL \/ eqs[n].val # equ[n].val)

\* The EQUs a visit evaluates: the slaves of the blob, and the blob if it is one.
EqusAt(b) == IF b.ast.kind = "EQU" THEN Append(b.slaves, b.ast.name) ELSE b.slaves

Visiting == phase = "second" /\ seen < Len(nodesOffsets)
Current  == nodesOffsets[seen + 1]

\* rpn throws UNKNOWN_KEYWORD on a name that is neither a label nor an EQU.
RefsOf(b) ==
  {EquAst(n).ref : n \in ToSet(EqusAt(b))}
    \cup IF b.ast.kind \in {"INSTRUCTION", "DEFINE"} THEN {b.ast.ref} ELSE {}

UnknownKeyword ==
  /\ Visiting
  /\ ~(RefsOf(Current.blob) \subseteq Defined \cup {NoRef})
  /\ Fail("UNKNOWN_KEYWORD")

Visit(kind) ==
  /\ Visiting
  /\ Current.blob.ast.kind = kind
  /\ RefsOf(Current.blob) \subseteq Defined \cup {NoRef}

\* Leaves the layout as it is.
SameLayout ==
  /\ seen' = seen + 1
  /\ UNCHANGED <<prog, phase, error, firstVars, labels, pass, needSort, blobs>>

VisitEqu ==
  /\ Visit("EQU")
  /\ LET eqs == PassEqus(EqusAt(Current.blob)) IN
     /\ equ' = eqs
     /\ needPass' = (needPass \/ EquChanged(eqs, EqusAt(Current.blob)))
  /\ UNCHANGED nodesOffsets
  /\ SameLayout

\* tryResolveOffsets: a reference is resolved on the first visit and its
\* offset is spliced from the unresolved ones, so it is never resolved again.
VisitDefinition ==
  /\ Visit("DEFINE")
  /\ LET b   == Current.blob
         eqs == PassEqus(b.slaves) IN
     /\ equ' = eqs
     /\ needPass' = (needPass \/ EquChanged(eqs, b.slaves))
     /\ nodesOffsets' =
          IF b.ast.ref # NoRef /\ b.val = NIL
            THEN [nodesOffsets EXCEPT ![seen + 1].blob.val = Resolve(eqs, b.ast.ref)]
            ELSE nodesOffsets
  /\ SameLayout

\* relLabel and nearPointer: the schema sizes that match a resolved target.
Reach(n) == IF n < 0 THEN -n ELSE n

SchemaSizes(mn, val, addr) ==
  CASE mn = "jmp"  -> {3} \cup IF Reach(val - addr - 1) <= ShortMax THEN {2} ELSE {}
    [] mn = "near" -> {3}
    [] mn = "jcc"  -> (IF Reach(val - addr - 1) <= ShortMax THEN {2} ELSE {})
                      \cup IF /\ Reach(val - addr - 2) > ShortMax
                              /\ Reach(val - addr - 2) <= LongMax THEN {4} ELSE {}
    [] OTHER       -> {3}

Shortest(sizes) == CHOOSE s \in sizes : \A t \in sizes : s <= t

\* tryResolveSchema, recompile, and resize the block when its size changed.
\* The recompiled blob is a new one: it has no slaves.
VisitInstruction ==
  /\ Visit("INSTRUCTION")
  /\ LET addr  == Current.at
         b     == Current.blob
         eqs   == PassEqus(b.slaves)
         val   == Resolve(eqs, b.ast.ref)
         sizes == SchemaSizes(b.ast.mn, val, addr)
         grow  == Shortest(sizes) - b.size IN
     \/ /\ b.ast.mn = "fixed"          \* isConstantSize
        /\ equ' = eqs
        /\ needPass' = (needPass \/ EquChanged(eqs, b.slaves))
        /\ UNCHANGED nodesOffsets
        /\ SameLayout
     \/ /\ b.ast.mn # "fixed" /\ sizes = {}
        /\ phase' = "error" /\ error' = "UNKNOWN_COMPILER_INSTRUCTION"
        /\ equ' = eqs
        /\ UNCHANGED <<prog, firstVars, labels, nodesOffsets, passVars, blobs>>
     \/ /\ b.ast.mn # "fixed" /\ sizes # {} /\ grow = 0
        /\ equ' = eqs
        /\ needPass' = (needPass \/ EquChanged(eqs, b.slaves))
        /\ nodesOffsets' = [nodesOffsets EXCEPT ![seen + 1].blob.val = val]
        /\ SameLayout
     \/ /\ b.ast.mn # "fixed" /\ sizes # {} /\ grow # 0
        /\ equ' = eqs
        /\ needPass' = TRUE
        /\ nodesOffsets' =
             Resized(MapSet(nodesOffsets, addr,
                            [Blob(b.node, b.ast, Shortest(sizes)) EXCEPT !.val = val]),
                     addr, grow)
        /\ labels' = ResizedLabels(addr, grow)
        /\ seen' = SeenAfter(nodesOffsets, seen + 1, addr, {})
        /\ UNCHANGED <<prog, phase, error, firstVars, pass, needSort, blobs>>

\* BinaryRepeatedNode.pass: the repeated node is compiled count times at the
\* TIMES' own address; the TIMES is deleted and what follows makes room.
Repetitions(ast, addr) == IF ast.pad THEN ast.count - (addr - Origin) ELSE ast.count

VisitTimes ==
  /\ Visit("TIMES")
  /\ LET addr == Current.at
         b    == Current.blob
         eqs  == PassEqus(b.slaves)
         n    == Repetitions(b.ast, addr)
         body == b.ast.body
         rest == Only(nodesOffsets, {e \in ToSet(nodesOffsets) : e.at # addr})
         room == Resized(rest, addr, n * body.size - 1) IN
     \/ /\ n < 0
        /\ phase' = "error" /\ error' = "INCORRECT_TIMES_VALUE"
        /\ equ' = eqs
        /\ UNCHANGED <<prog, firstVars, labels, nodesOffsets, passVars, blobs>>
     \/ /\ n >= 0
        /\ equ' = eqs
        /\ labels' = ResizedLabels(addr, n * body.size - 1)
        /\ \/ /\ n = 0                 \* the iteration goes on
              /\ nodesOffsets' = room
              /\ needPass' = (needPass \/ EquChanged(eqs, b.slaves))
              /\ seen' = SeenAfter(nodesOffsets, seen + 1, addr, {addr})
              /\ UNCHANGED needSort
           \/ /\ n > 0                 \* break: the rest of the pass is skipped
              /\ nodesOffsets' =
                   room \o [k \in 1 .. n |-> [at   |-> addr + (k - 1) * body.size,
                                             blob |-> Blob(b.node, body, body.size)]]
              /\ needPass' = TRUE /\ needSort' = TRUE
              /\ seen' = Len(nodesOffsets')
        /\ UNCHANGED <<prog, phase, error, firstVars, pass, blobs>>

\* Mutant of NextPass: the passes are not counted.
NextPassUncounted ==
  /\ phase = "second" /\ seen = Len(nodesOffsets) /\ needPass
  /\ seen' = 0 /\ needPass' = FALSE
  /\ UNCHANGED <<prog, phase, error, firstVars, labels, equ, nodesOffsets,
                 pass, needSort, blobs>>

\* The pass is over and something changed: another one, if any is left.
NextPass ==
  /\ phase = "second" /\ seen = Len(nodesOffsets) /\ needPass
  /\ IF pass + 1 < MaxPasses
       THEN phase' = phase /\ error' = error
       ELSE phase' = "error" /\ error' = "UNABLE_TO_COMPILE_FILE"
  /\ pass' = pass + 1 /\ seen' = 0 /\ needPass' = FALSE
  /\ UNCHANGED <<prog, firstVars, labels, equ, nodesOffsets, needSort, blobs>>

\* Mutant of Ordered: the Map's insertion order is taken for address order.
Unordered(map) == map

\* orderedOffsets: sorted by address, only when a TIMES was expanded.
Rank(map, d) == Cardinality({e \in ToSet(map) : e.at < d.at})
Sorted(map)  == [i \in DOMAIN map |-> CHOOSE d \in ToSet(map) : Rank(map, d) = i - 1]
Ordered(map) == IF needSort THEN Sorted(map) ELSE map

\* Nothing changed: the blobs that have bytes, in the order getBinary writes them.
Emit ==
  /\ phase = "second" /\ seen = Len(nodesOffsets) /\ ~needPass
  /\ phase' = "done"
  /\ blobs' = Ordered(Only(nodesOffsets, {e \in ToSet(nodesOffsets) : e.blob.ast.kind # "EQU"}))
  /\ UNCHANGED <<prog, error, firstVars, labels, equ, nodesOffsets, passVars>>

Ended == phase \in {"done", "error"} /\ UNCHANGED vars

Next ==
  \/ FirstPassSized \/ FirstPassEqu \/ FirstPassLabel \/ BeginSecondPass
  \/ UnknownKeyword
  \/ VisitEqu \/ VisitDefinition \/ VisitInstruction \/ VisitTimes
  \/ NextPass \/ Emit
  \/ Ended

\* compile() runs to its end without yielding: every step that can be taken is.
Spec == Init /\ [][Next]_vars /\ WF_vars(Next)

-----------------------------------------------------------------------------
(* Properties.                                                             *)

AstKinds == {"INSTRUCTION", "DEFINE", "EQU", "TIMES"}

\* The shape of the state: a map has one entry per address and a blob names a
\* node of the tree.
TypeOK ==
  /\ phase \in {"first", "second", "done", "error"}
  /\ next \in 1 .. Len(prog) + 1 /\ offset \in Nat
  /\ \A l \in DOMAIN labels : labels[l] \in Nat /\ labels[l] >= Origin
  /\ \A n \in DOMAIN equ : equ[n].val \in Int \cup {NIL}
  /\ \A i \in DOMAIN nodesOffsets :
       /\ nodesOffsets[i].at \in Nat /\ nodesOffsets[i].at >= Origin
       /\ At(nodesOffsets, nodesOffsets[i].at) = {i}
       /\ nodesOffsets[i].blob.node \in DOMAIN prog
       /\ nodesOffsets[i].blob.ast.kind \in AstKinds
       /\ ToSet(nodesOffsets[i].blob.slaves) \subseteq DOMAIN equ
  /\ pass \in 0 .. MaxPasses
  /\ phase = "second" => seen \in 0 .. Len(nodesOffsets)
  /\ (phase = "error") = (error # "none")

Entries == ToSet(nodesOffsets)
Ends(e) == e.at + e.blob.size

\* However the passes resize, delete and append, the entries of nodesOffsets
\* tile the output: each starts where the bytes of those below it end, so no
\* blob overlaps or overwrites another and there is no hole
\* (resizeBlockAtOffset, appendBlobsAtOffset).
Tiled(entries) ==
  \A e \in entries :
    /\ \A d \in entries : d.at < e.at => Ends(d) <= e.at
    /\ e.at = Origin \/ \E d \in entries : d.at < e.at /\ Ends(d) = e.at

\* The address where the bytes of the nodes before the k-th end and those of the
\* nodes behind it start.
Stands(entries, addr, k) ==
  /\ \A e \in entries : /\ e.blob.node < k => Ends(e) <= addr
                        /\ e.blob.node > k => e.at >= addr
  /\ addr = Origin \/ \E e \in entries : e.blob.node < k /\ Ends(e) = addr

\* A label stands where it was written: the labels and the entries are shifted
\* by the same resizes, also when a label sits exactly at the resized block
\* (labels, resizeBlockAtOffset).
LabelsTrackLayout ==
  \A k \in DOMAIN prog :
    k < next /\ prog[k].kind = "LABEL" => Stands(Entries, labels[prog[k].name], k)

\* The output is laid out right at every moment of both passes: the entries of
\* the Map are well formed and unique, they tile the output, and the labels
\* stand where the bytes before them end.
LaidOut == TypeOK /\ Tiled(Entries) /\ LabelsTrackLayout

Copies(k) == Cardinality({i \in DOMAIN blobs : blobs[i].blob.node = k})
NoTimesVanished == \A k \in DOMAIN prog : prog[k].kind = "TIMES" => Copies(k) > 0

IsSettled(e) ==
  e.blob.ast.kind = "INSTRUCTION" /\ e.blob.ast.mn # "fixed"
    => /\ e.blob.val = Resolve(equ, e.blob.ast.ref)
       /\ e.blob.size = Shortest(SchemaSizes(e.blob.ast.mn, e.blob.val, e.at))

\* When the passes stop, what was emitted is a fixpoint of them: every jump and
\* immediate holds the final value of its label or EQU, in the shortest schema
\* that reaches it.  A pass that changed anything must have asked for another;
\* programs in which a TIMES expanded to nothing are excepted:
\* its end shifts what follows and asks for no pass.
Settled ==
  phase = "done" /\ NoTimesVanished => \A i \in DOMAIN blobs : IsSettled(blobs[i])

\* An EQU that still is in the map, as an entry or as the slave of one, has at
\* the end the value of its expression over the final labels, also when it
\* is written before the EQU or the label it names (passEqu).
Attached(name) ==
  \E i \in DOMAIN nodesOffsets : name \in ToSet(EqusAt(nodesOffsets[i].blob))

EquSettled(name) ==
  equ[name].labeled => PassEqu(equ, name) = equ

EqusSettled ==
  phase = "done" /\ NoTimesVanished
    => \A n \in DOMAIN equ : Attached(n) => EquSettled(n)

\* What is emitted is a fixpoint: no jump, immediate or EQU has a value that one
\* more pass would change (secondPass, needPass).
EmitsAFixpoint == Settled /\ EqusSettled

\* The binary is the program: getBinary concatenates the blobs, so they must
\* come in address order and without holes, in the order of the source, each
\* node once and the body of TIMES n times n times.
BinaryIsProgram ==
  phase = "done" =>
    /\ \A i \in 1 .. Len(blobs) - 1 :
         /\ blobs[i + 1].at = blobs[i].at + blobs[i].blob.size
         /\ blobs[i].blob.node <= blobs[i + 1].blob.node
    /\ \A k \in DOMAIN prog :
         CASE prog[k].kind \in {"INSTRUCTION", "DEFINE"} -> Copies(k) = 1
           [] prog[k].kind = "TIMES" /\ ~prog[k].pad     -> Copies(k) = prog[k].count
           [] OTHER                                      -> TRUE

\* The EQUs and the TIMES of the program, and its jumps, one for each copy of a
\* body: what can ask for another pass.
IsJump(b)    == b.ast.kind = "INSTRUCTION" /\ b.ast.mn \in Jumps
JumpEntries  == {i \in DOMAIN nodesOffsets : IsJump(nodesOffsets[i].blob)}
UnstableNodes == {k \in DOMAIN prog : prog[k].kind \in {"TIMES", "EQU"}}

\* What makes the passes chase each other: an EQU that is defined in terms of
\* itself, a jump whose target is an EQU and may come nearer when the code
\* grows, and a TIMES that expanded to nothing, so that the code shrank.
SelfDefined ==
  \E names \in SUBSET DOMAIN equ : names # {} /\ \A n \in names : EquAst(n).ref \in names

JumpsToEqu == \E i \in JumpEntries : nodesOffsets[i].blob.ast.ref \in DOMAIN equ

TimesVanished ==
  \E k \in DOMAIN prog : prog[k].kind = "TIMES" /\ \A e \in Entries : e.blob.node # k

Chasing == SelfDefined \/ JumpsToEqu \/ TimesVanished

\* A compilation gives up only for cause: each pass but the last one expanded a
\* TIMES, resized a jump or gave an EQU its last value, and none of them does so
\* twice; so a program with fewer of those than maxPasses is never
\* UNABLE_TO_COMPILE_FILE, unless something makes its passes chase each other
\* (secondPass, needPass, maxPasses).
GivesUpForCause ==
  error = "UNABLE_TO_COMPILE_FILE" /\ ~Chasing
    => Cardinality(JumpEntries) + Cardinality(UnstableNodes) >= MaxPasses

\* Every compilation ends, in a binary or in an error, whatever the jumps, EQUs
\* and TIMES make of each other: the iterator over the Map that a pass extends
\* runs dry and the passes are counted.
AssemblyEnds == <>(phase \in {"done", "error"})

=============================================================================
