# Verification of i8086.js

TLA+ specifications, model checking runs and machine-checked proofs for the
i8086.js assembler and PC emulator.  Every module is a translation of the
TypeScript source; where this text and the source differ, the source is right
and the module is to be mended.

    tlc -workers 2 -config <run>.cfg <module>.tla     check a run
    tlapm X87Proofs.tla                               check proofs, likewise for the other
                                                      modules *Proofs

`PROJECT.json` lists the runs, the mutants that show that each property can be
broken by a plausible bug, the source lines behind every definition (`map`),
the hazards and the theorems.  Paths below are relative to `src/packages/`,
line numbers are those of the named file.

## 1. Inventory

The repository is a monorepo: an assembler and its compiler toolkit
(`packages/compiler-*`), the emulator (`packages/emulator-x86-cpu`), two
packages of user interface (`packages/ui-*`), and a client and server
(`src/src`).  Everything but the server runs in one browser page.

| Component | State it keeps | Operations | Talks to | Correct when | Here |
|---|---|---|---|---|---|
| compiler-lexer | offset, buffer of a word, tokens, row and column | read a character, flush a word, quotes, brackets, remarks | grammar, AST parser | each character is in one token, words stay whole, tokens tell their place | `Lexer` |
| Preprocessor grammar on compiler-grammar | iterator, tree | match, or, process a block | lexer, interpreter | a balanced source loses no line | `PreprocessorGrammar` |
| Preprocessor interpreter | scopes, macros, pending statements, outputs | two exec passes, enter and leave a scope, call, emit | grammar, RPN, assembler | scopes nest; a removed EQU is bound; a call sees its own arguments | `PreprocessorInterpreter`, `Preprocessor` |
| compiler-rpn | operator stack | to postfix, reduce | both parsers | value of the expression | `MathExpression` |
| Parser and AST of an instruction | none | label substitution, arguments, memory phrase, matchers | RPN, encoding | an operand means what was written | `InstructionOperands` |
| Instruction encoding | none | choose a schema, emit bytes | compiler, CPU | the CPU does what the line says | `InstructionEncoding`, `Assembler` |
| Two-pass compiler (`X86Compiler.ts`, `types/Binary*.ts`) | labels, EQUs, the Map of blobs by address, pass counter | first pass, second pass (visit a blob, resize, expand TIMES, evaluate EQU), getBinary | AST below, page above | the binary is the program, laid out without holes, with final addresses in it; it ends | `X86Compiler` |
| CPU core (`X86CPU.ts`, `X86InstructionSet.ts`, `X86Stack.ts`) | registers, flags, prefixes, memory | tick: fetch, execute, fault; push/pop; interrupts; REP | ALU, x87, ports, devices | what is saved comes back; ip and sp wrap; prefixes belong to one instruction | `X86CPU`, `X86Execution` |
| ALU (`X86ALU.ts`) | flags | operators with flags, divide fault | CPU | flags are those of the result | `X86ALU` |
| x87 (`X87.ts`, `X87Regs.ts`) | eight registers, pointer, tags, status and control word | every ESC instruction | CPU tick | a program sees a stack | `X87`, `FpuStack`, `X87Discipline` |
| Machine life cycle (`X86CPU.exec/boot/halt`, `X86AbstractCPU`, `asap.ts`, `EditorContainer`) | clock, pause, devices, pending message | boot, slice, halt, release | event loop | released machines end; nobody else draws | `X86Machine` |
| BIOS (`BIOS.ts`) | key map, cursor, disk, timers | INT 10h, 13h, 15h, 16h, 1Ah | CPU, VGA, document | each wait is ended by its own event; printing is a terminal | waits in `X86Machine`, text in `BIOSText` |
| VGA registers and planes | register files, latch, four planes | modes, register writes, memory reads and writes | CPU, renderers | memory is what was written; bits as the hardware stores them | `VGAModes`, `VGA` |
| VGA renderers | dirty region, cell cache, canvas | mark, redraw | render loop | the canvas shows memory | `VGA`, `BIOSText`; order of frames in `X86Machine` |
| PIT, speaker, keyboard controller | counters, latch, byte flip-flop, gate | ports 40h-43h, 61h | CPU | bytes come in order; sound when both gates are open | `PIT` |
| CMOS, PS/2, device attachment | register index, ports, handlers | mount | CPU | | no |
| Ports and memory (`X86IO.ts`, `X86RAM.ts`, `X86Port.ts`) | RAM, regions | read, write | devices | little endian, right region | as instructions see it, `X86Execution` |
| ui-context-state, ui-webapp, editor, client | presentation | | | | life cycle only |
| Server (NestJS) | database rows | CRUD, uniqueness check | typeorm | unique values | no |

How they interact.  The page has one thread.  `EditorContainer` compiles (a
synchronous call: preprocessor, lexer again, AST, passes), mounts a new
`X86CPU`, and releases the one before.  The CPU posts itself messages (`asap`)
of about a millisecond of ticks; within a tick instructions call the ALU, the
x87, ports and devices directly.  Devices put timers, animation frames and
document listeners into the same event loop and change the CPU (`pause`,
registers) from there, between slices.

What is hard.  (a) A Map is mutated by the pass that iterates over it, and
sizes, labels and EQUs chase each other to a fixpoint with a cap of seven
passes.  (b) Long legal sequences of stack instructions move two tops, tags and
registers that must agree; exceptions leave instructions half done.  (c) What
one tick leaves (prefixes, ip at the end of its segment, frames of calls and
interrupts) is found by a later one.  (d) Messages, frames, timers and key
events of two machines interleave, and outlive `release()`.  (e) The same
statement of a source is executed by two passes and by a walk that emits it,
with scopes that come and go around callbacks.  (f) An operand goes through
five translations (tokens, argument, schema, bytes, ModRM decoder) with
boundaries at 128 and 256 in each.  (g) Renderers draw differences, against a
region or a cache that every writer has to keep true.  The full list, each at
its line, is under `hazards` in `PROJECT.json`; section 6 has those that no
property covers.

## 2. Modules

| Module | Models | Code it stands for |
|---|---|---|
| `Lexer` | the loop over the characters, in two configurations | `lexer.ts`, `Token.ts`, `asmLexer.ts` |
| `PreprocessorGrammar` | from lines to a tree of statements | `grammar.ts`, `Grammar.ts`, `TreeNode.ts` |
| `PreprocessorInterpreter` | what executing and emitting a node does | `PreprocessorInterpreter.ts`, `preprocessor/nodes` |
| `Preprocessor` | the two passes over a source | `preprocessor/index.ts` |
| `MathExpression` | shunting yard and postfix reduction | `MathExpression.ts`, `MathOperators.ts` |
| `InstructionOperands` | operands of an instruction | `ASTInstruction.ts`, `ASTInstructionMemPtrArg.ts`, matchers |
| `InstructionEncoding` | the table, the schema, the bytes | `BinaryInstruction.ts`, `binaryInstructionsDefs.json` |
| `X86ALU`, `X86Execution` | flags; an instruction executed from its bytes | `X86ALU.ts`, `X86CPU.ts`, `X86InstructionSet.ts` |
| `InstructionMeaning` | reference: what a line of assembly means | none, it is the specification |
| `Assembler` | a line from its tokens to its effect | the composition of the above |
| `X86Compiler` | `firstPass`, `secondPass`, `emitBlob`, `resizeBlockAtOffset`, `passEqu`, TIMES, schema choice | `X86Compiler.ts` and the `Binary*` types |
| `X87` | register file and instruction groups | `X87Regs.ts`, `X87.ts` |
| `FpuStack` | abstract: the stack a program is promised | none, it is the specification |
| `X87Discipline` | `X87` driven by a disciplined program, refinement of `FpuStack` | as `X87` |
| `X86CPU` | the tick: prefixes, stack, calls, interrupts, faults, strings | `X86CPU.ts`, `X86InstructionSet.ts`, `X86Stack.ts` |
| `X86Machine` | life of the machines over the event loop | `X86CPU.ts` exec/boot/halt, `X86AbstractCPU.ts`, `BIOS.ts` waits, `VGARenderLoopDriver.ts` |
| `PIT` | counters, latches, order of bytes, speaker and its gates | `PIT.ts`, `CountdownTimer.ts`, `SpeakerTimer.ts`, `Keyboard.ts` |
| `VGAModes` | registers, presets, what is derived from them | `VGAModesPresets.ts`, `VGA*Regs.ts`, `VGA.ts` measure |
| `VGA` | modes, planes, latch, canvas | `VGA.ts`, graphics renderer |
| `LinearMemory` | abstract: the memory a program believes in | none, it is the specification |
| `BIOSText` | INT 10h and the text renderer | `BIOS.ts`, `VideoMode.ts`, text renderer |
| `Terminal` | abstract: the terminal a printing program sees | none, it is the specification |
| `X87Proofs`, `PITProofs`, `X86MachineProofs`, `LexerProofs`, `X86CPUProofs`, `X86CompilerProofs`, `VGAProofs`, `BIOSTextProofs` | proofs about the module of the name (`X87Proofs`: also `X87Discipline`) | |
| `MC*` | constants of the runs | |

`Assembler` composes `MathExpression`, `InstructionOperands`,
`InstructionEncoding`, `X86Execution` and `InstructionMeaning`; `Preprocessor`
composes grammar and interpreter (which uses `MathExpression`); `VGA` is on
top of `VGAModes` and refines `LinearMemory`; `BIOSText` refines `Terminal`;
`X87Discipline` refines `FpuStack`.

### Lexer
An action is one call of `parseCharacter` with the step of the loop around it
(`Continuation`, `Comment`, `Quote`, `Bracket`, `Terminal`, `Letter`, ...).  Characters are
classes; a token holds the positions of its characters in the source, so that
"no character is lost or read twice" can be said.  The same program runs twice in
an assembly with two configurations, which are a constant.

### PreprocessorGrammar, PreprocessorInterpreter, Preprocessor
A source is a sequence of lines, a line the directive it starts with and its
operands.  The grammar is the predictive parser as operators; its result is the
table of nodes.  The interpreter's state is one record (scopes, callables, pending
nodes, outputs, the error thrown) that operators take and give back, so that an
exception in the middle leaves what the code leaves.  `Preprocessor` has an
action for each line the grammar reads (`Parse`), each statement that a pass
executes (`Execute`), the change to the deferred ones (`SecondPass`) and to the tree
(`Walk`), and each statement that is emitted (`EmitStatement`).  `MaxDepth` cuts recursion of macros short, as the
stack of JavaScript does, `MaxNumber` the numbers of expressions.

### MathExpression to Assembler
These are operators, translated function by function; `Assembler` is the machine
that applies them to one line: `Parse`, `Match`, `Encode`, again while
the size changes, and `Run`.  `InstructionMeaning` says what the line means without
encoding it: `Effect` on registers and memory, `Valid` for what an 8086 has.
The known gaps between the two are predicates with a name each (`Unmasked`,
`TestedItself`, `OverridesSS`, `OutOfReach`, `NotImplemented`, `Rejected`), so a
property says what does hold and section 6 what does not.

### X86Compiler
`nodesOffsets` is a JavaScript Map from addresses to blobs.  It is the sequence
of its entries in insertion order; `seen` is the place of the pass's iterator.
Setting a present key keeps its place, deleting and setting again moves it to
the end, behind the iterator: that is how an entry comes to be visited again in
the same pass, and what the properties are about.  An action is the visit of
one node (first pass) or of one entry (second pass) with everything the code
does there: resize, shift of all later labels and entries, re-insertion,
`needPass`.  `NextPass`, `Ordered` and `Emit` are the end of a pass, the sort and
the emission.  Instructions are abstracted to what makes their size differ.
`NIL` is the null of an EQU or an argument that has no value yet; `ProgramsAssumption`
says which nodes the parser makes, with their first sizes (`db ""`, which has no bytes, is left out).  The
layout is stated on the set of entries: `Tiled` (each starts where another ends)
and `Stands` (a label lies between the nodes before it and those behind it).

### X87, FpuStack, X87Discipline
The unit is one record; a register operation (`nth`, `setNthValue`, `safePush`,
`safePop`, `setStackPointer`, `reset`) is an operator from unit to unit that
does nothing once something was thrown.  An instruction is their composition in the
order of the code, so an exception in the middle leaves exactly what the code
leaves.  Numbers are `zero`, `inf`, others, and `undefined` (an array element
that was never written).  `uses` is the set of optional instructions that the
running program contains: properties that only hold without `FCLEX`, say, name it.
`FpuStack` is a stack, with no pointer, no tag and no wrap-around;
`X87Discipline` maps st(0)..st(height-1) to it.  The promise of a task switch is
made where a register in use holds a number (`InUseIsDefined`): FLDENV can give a tag
to a register that was never written.

### X86Machine
A record per CPU: what the object holds (`clock`, `pause`, `devices`,
`keymap.key`, `keymap.callback`) and what it has pending in the event loop
(`loop`, `frame`, `timers`).  A task of the loop is one action, but a slice is
`BeginSlice`, instructions, `EndSlice`, because its length is decided by the
clock of the page; `Slicing` keeps other tasks out meanwhile, as one thread does.
`SetMode` changes the renderer (`graphics`); `dirty` is that something in video memory is
not on the screen yet.  A frame may leave some of it undrawn (`drawn` in `Redrawn`: a canvas that was
replaced, a palette that was set); once the clock stands, the text renderer draws
everything and the graphics renderer nothing.
`fresh` is a history variable (keystrokes not yet read, 0 or 1).

### X86CPU
An action is a whole tick: prefix bytes, opcode, instruction, and the clearing
of the prefixes, or the early return before it.  Memory is not decoded; which
instruction is met is left open, but `frames`, a history of what the program
saved and how deep the stack was below it (`base`), keeps it to programs that pop what
they pushed and return from where they were called; everything else is arbitrary.
`cs` counts as a number, since the code increases it without a mask: `Selector` is what is
pushed of it, `CodeSegment` the segment fetched from (one range is taken off), and
`MaxCs` bounds it.  `X86CPUAssumption` asks for code segments longer than an opcode with its operands.

### PIT
An action is an access to one of the ports 40h-43h or 61h.  A counter is a record of
the fields of `CountdownTimer`, with a count as its two bytes; `Shown` is the set of
values `getValue` can answer, since the clock of the page runs on between any two
accesses.  `audio` and `oscillators` are what `SpeakerTimer` knows of its
AudioContext and what the page has: the difference is an oscillator nobody can
stop.  `since`, a history, keeps what a counter was told last and the first two
accesses behind it, which is what a driver would do with it.

### VGAModes, VGA, LinearMemory
A register is its number, a byte the set of its one bits.  What the code derives
(size of the screen, window, chain-4, odd/even) is derived from the
registers of the presets as they are in the source.  Actions are setting a mode,
writing a register, writing and reading memory in text and graphics modes, and
frames of the graphics renderer.  `plain` is a history: no register was written
since the mode was set, which is what the promise of `LinearMemory` needs.
`written` are the offsets written since then.

### BIOSText, Terminal
A cell is a character and an attribute.  An action is a service of INT 10h (mode,
cursor, page, clear, scroll, run of characters, teletype, string), and a frame of the text
renderer with its cache of cells.  `Terminal` is a grid and a cursor on it; `live`,
a history, is whether the program has stayed where a terminal can follow it.  The
cursor is an integer: teletype can take it below 0, a preset replaces its low 16 bits
(`CursorOfPreset`), and its column is a remainder with a sign (`Remainder`), so a mode set
starts a new terminal only when the cursor it leaves is on the grid.

## 3. Runs

Every property of a passing run has a mutant that breaks it.

| Run | Question | Bounds, and why they are enough |
|---|---|---|
| `MCLexer` | Is every character read once, in order; do words stay whole; do tokens tell where they are? | All texts of up to 3 of the 16 classes of characters, of 5 over two alphabets of six (words, signs, remarks, quotes, broken lines; brackets and returns), and six longer ones, in both configurations: every pair of classes meets in every state of the lexer that two characters reach. 181 692 states. |
| `MCPreprocessor` | Which lines does the grammar keep, what do the passes resolve, which scopes survive? | 31 201 sources of 3 to 7 lines: all triples of 30 lines and directives, a macro with each body called by each sequence of three callers, conditions with every branch. Three lines are a definition, a redefinition and a use in each order; forward use, in words and in arguments of calls, makes both passes run. 319 555 states. |
| `MCAssembler` | Does the machine do what the line says? | 7 518 lines in three machines: every addressing form with displacements on both sides of each byte boundary, every operator with every kind of operand and boundary immediate, labels ahead and behind at the edges of a short jump, expression trees of three leaves; the machines make sums wrap, carry, become zero. 61 210 states. |
| `MCX86Compiler` | Does every small program come out as itself, settled and without holes, and does every compilation end, and give up only for cause? | All sequences of up to 3 of 14 items between two labels and a backward jump: the items are every kind of node that can grow, shrink, vanish, multiply or chase; behind shorter ones one EQU, two or a reverse chain of four, which takes a pass for each. `ShortMax` 3 instead of 127, so that a few bytes make a jump long; 5 passes instead of 7, so that running out is reached. 92 884 states. |
| `MCX87` | Do tags, tops, images and exceptions agree after any sequence of instructions? | 2 registers: pointer wraps, pushes meet a full stack, st(1) differs from register 1. The state space is finite, no depth bound. Four kinds of programs. |
| `X87Discipline` | Is the unit a stack for a program that treats it as one? | 3 registers, so that st(i) can be neither top nor bottom; refinement of `FpuStack`. |
| `MCX86CPU` | Does everything that was saved come back, also where ip, sp and di wrap? | Code segments of 5 bytes, so instructions, calls and faults meet the end; a stack of 6 words that wraps; `MaxFrames` 2, so that frames nest in each order; 3 data cells, so that REP goes around. `MinIp` and `MinCx` bound what the code lets go below zero, `MaxCs` what it lets go up: twice over the 2 code segments, so that fetches wrap once and also fail to. 491 715 states. |
| `MCX86Machine` | Do waits, frames and slices of two machines keep apart and end? | Two machines, one released while the other runs; a key and a modifier. `timers` needs no bound: it is 0 or 1 by `WaitsKeepApart`. 36 275 states. |
| `MCPIT` | Are counts read and written whole, and does one oscillator sound at most? | Bytes of two values, so that the bytes of a count can differ and a count can be zero; one counter at a time, an ordinary one or the speaker's, because counters share nothing; the gates with both. |
| `MCVGA` | Is memory what was written, are bits stored as the hardware stores them, does the canvas catch up? | Six presets, one of each way from addresses to planes; 13 register settings, each write and read mode, mask, rotation and operation among them, and one that moves the window; 4 offsets into the window, two bytes; `MaxSteps` 3 writes or switches (frames are not counted), enough for set mode, set register, write with a loaded latch. 137 494 states. |
| `MCBIOSText` | Is the BIOS a terminal, and does a frame show memory? | Two text modes of 2x2 and 1x3 cells with two pages, so that lines wrap and scroll at once, and a graphics mode; `MaxSteps` 4 services: fill a line, leave it, scroll, print; or take the cursor below 0 and set a mode. 539 065 states. |

One run shows a violation, a disagreement between a comment and the code
(`findings` quotes both):

| Run | What is said, what happens |
|---|---|
| `MacroArguments` | A call of a `%macro` has its own arguments: a second call expands to those of the first (`CallsSeeTheirOwnArguments`). |

What the properties say, beside one type invariant in each module:

- `Lexer`: `CharactersOnce`, `WordsStayWhole`, `LocationsPoint`, the last two
  with their exceptions (section 6) written into them.
- `Preprocessor`: `ScopesNest`, `OnlyUnbalancedIsDropped`, `OneCallablePerArity`,
  `RemovedEquIsBound` (a definition leaves the output only when no word that
  remains names it, but for the text of a call that was replaced before the EQU had
  its value, section 6), `RedefinitionIsReported`, whichever pass resolves it.
- `Assembler`: `AnswerIsRight` (refused exactly when invalid, the named gaps
  apart), `RunsAsWritten` (the effect of the bytes is that of the line),
  `FlagsAreArithmetic`, `SizesMoveOneWay` (why the passes settle).
- `X86Compiler`: `LaidOut` at every moment of both passes, `EmitsAFixpoint`,
  `BinaryIsProgram`, `AssemblyEnds` (liveness), and `GivesUpForCause`: a program that ran out
  of passes has at least as many jumps (each copy of one in a TIMES counts), EQUs and
  TIMES as there are passes, unless it is `Chasing` (section 6).
- `X87`: `TopsAgree`, `TagsTruthful`, `TaskSwitchKeepsStack`, `ExceptionsAreTold`;
  `X87Discipline`: `NoHolesNoFaults`, `ImplementsStack` (refinement).
- `X86CPU`: `StackIntact`, `SavedComesBack`, `OwnPrefixes`, `RepeatsAreCounted`.
- `X86Machine`: `WaitsKeepApart`, `ScreenShowsTheEnd` (all that a halted machine left
  is on the screen in a text mode; in a graphics mode only that nobody draws over it),
  `OnlyMountedDraws`, `WhatIsLeftEnds` (liveness).
- `PIT`: `OneOscillator`, `CountsAreWhole`.
- `VGA`: `CanvasCatchesUp`, `BitsAreStored`, `ModesMeasure`, `IsLinearMemory` (refinement).
- `BIOSText`: `IsTerminal` (refinement), `ScreenIsTrue`.

Deadlock is checked in `MCX86Compiler`, `MCX87`, `X87Discipline` and
`MCX86Machine`.  It is not in the others, which really stop: a lexer at the end of
its text, a preprocessor and an assembler with their result, a CPU that threw
or hangs, a program that has used up its `MaxFrames`, `MinIp` or `MaxSteps`, a
PIT that threw.

### Fairness
`X86Compiler` has `WF_vars(Next)`: `compile()` is a synchronous call, the thread
does nothing else.  `X86Machine`: `EndSlice` is weakly fair, since a slice is
ended by `performance.now()`; messages, timers and frames are strongly fair,
since each is enabled only between slices and the event loop takes every
pending task in the end.  For frames this assumes a visible page (a browser
stops `requestAnimationFrame` of a hidden one).  Nothing is assumed of the user
or of the program: keys need not come, and a program need not halt.
The other modules have no fairness and no liveness property.

## 4. Proofs

`X87Proofs` proves for every number of registers from two on, every set of
values and every set of programs (`X87Assumption`):

| Theorem | Says |
|---|---|
| `TypeCorrect` | `Spec => []TypeOK` |
| `TopsAlwaysAgree` | the pointer and its copy in the status word agree, unless the program uses FCLEX |
| `TopIsNeverStray` | with FCLEX the copy is the pointer or zero |
| `TagsAlwaysTruthful` | a tag that is not empty tells the class of its register, unless FLDENV or FCLEX is used |
| `TaskSwitchesKeepStack` | FSAVE writes the stack a program sees and FRSTOR gives it back, wherever the top is at either |
| `ExceptionsAreAlwaysTold` | a push onto a register in use is reported and throws if unmasked; with everything masked nothing throws |

None of the three in the middle is inductive.  `IInv` joins them with types, and with
`ImageGood(saved)`: FRSTOR loads tags in the order of the register file
but registers in the order of the stack, from the top of the image on.  Its result
is truthful only if the image was: tag `(top + i) % NRegs` of the image must
be true of its i-th register, which FSAVE establishes from the truthful
tags and the agreeing tops of the unit.  So the three properties need each other.

The argument follows the code: a lemma for each register operation says it
preserves `Good`, one for each group of instructions composes them
(`StackInv`, `ArithmeticInv`, `ControlInv`), and `FsaveInv` and `RestoredGood` are
the two directions above.  `PhysInverse` is the arithmetic they share: the
register r is st((r - top) mod n).  The last two are action properties: `SaveKeeps` and
`RestoreGives` undo the two orders of an image with it, and `Quiet` (nothing was
thrown and everything is masked) is carried through each register operation by a
lemma of its own, up to `MaskedStack`, `MaskedArithmetic` and `MaskedControl`.

Its second half proves the refinement by `X87Discipline`, for every number of registers and
every set of values: `UnitImplementsStack`, that a program which keeps the discipline
of the stack sees `FpuStack`, and `DisciplineLeavesNoHoles`.  `Holds(u, s)` relates a
unit to a stack: from the top on, as many registers are in use as s is high, and
st(i - 1) is its i-th value; `ImageHolds` says the same of an image in the order of the
stack.  `DInv` is `Holds` for the unit with its own operands and `ImageHolds` for the saved
image.  A lemma tells for each register operation which stack it leaves (`SafePushHolds`:
one more on top, `SafePopHolds`, `SetNthValueHolds`), `FilledCount` that the height
is the number of registers in use, and each group of instructions is then one
action of `FpuStack` or a stutter (`StackImplements`, `ComputingImplements`, ...).

`PITProofs` proves all properties of `PIT` for every size of a byte and all programs
(`PITAssumption`): `TypeCorrect`, `OneOscillatorOnly`, `LatchIsWhole`, the action
property `ReloadAlwaysWhole`, and the two together as `CountsAlwaysWhole`.
`LatchReadsOneCount` speaks of two accesses that
are over; its invariant `Tracked` says what the counter holds between them: after
a latch the order is high, the latch is shut and holds the count; after the
first byte the order is low and the latch still shut; for a reload the low byte is
already in the countdown.  A lemma for each kind of access to one counter
(`ReadTracked`, `WriteTracked`, `CommandTracked`) carries it on, and `OneCounter`
lifts them to the timer, whose other counters nobody touches.

`X86MachineProofs` proves the safety properties of `X86Machine` for any number of
machines and keys (`MachineAssumption`): `WaitsAlwaysKeepApart`, `TheEndIsShown` and the
action property `OnlyMountedEverDraws`.  Each machine is `Good`: besides its waits,
a key that the program may read came after its last read (`Keystrokes`; without
it the count of keystrokes is not inductive), and `Life` relates what an object
holds to where it is in its life: an unborn one has nothing in the event loop,
a mounted one that runs has a frame to come, a released one has neither devices
nor a clock.  `TheEndIsShown` says of text modes that what a halted machine left is drawn, of
graphics modes that the screen stays its own; that its last pixels may be missing
there is a divergence of section 6.  `OneMounted` is what lets the screen be somebody's.  A lemma for each
operation on one CPU keeps `Good` (`HaltedGood`, `UnmountedGood`, `PressedGood`,
`ExecutedGood`), `OneChanges`, `MountInv` and `KeysChange` lift them to all machines.

`X86CPUProofs` proves every property of `X86CPU`, for every size of segments, stack
and words (`X86CPUAssumption`): `StackStaysIntact`, and the action properties
`WhatWasSavedComesBack`, `PrefixesAreOwn`, `RepetitionsAreCounted`.  `IInv` says which
values the registers can have between two ticks (`Fits`; cs is any natural number, and an
address comes back to its segment unless cs had gone around twice), that the frames lie on each
other without a gap and the last one on nothing (`Nested`), and that memory holds their
words where sp says they are (`Carries`).  `Nested` needs `base`, the depth below
a frame: without it the frame under one that is popped could be anywhere.  Each
instruction is proved `Sound`: it keeps the invariant and does what the action properties say.
`PushWord`, `PopWords` and `FrameRead` follow words through the stack, `FetchFits` and
`JumpFits` the instruction pointer around the end of its segment.  A repeated string
instruction is a recursive function of cx; `Counting` and `Recursion` (from
well-founded induction, with a set for the predicate) give that it exists, and
`FilledNext` and `ScanNext` say what one repetition adds.

`X86CompilerProofs` proves `OutputIsLaidOut` for every program, origin, reach of the jumps
and number of passes (`BoundsAssumption`, `ProgramsAssumption`): at every moment of both
passes the entries of the Map tile the output, each address has one, and labels stand
where the bytes before them end.  The proof looks at the Map as a set of entries:
`OnlyFacts`, `ResizedFacts`, `SetPresent` and `EmitBlobFacts` say what deleting,
shifting, replacing and adding make of the set, wherever the iterator is.  The invariant adds what
tiling alone does not keep: nodes follow each other in the order of the program
(`InOrder`), an entry has the bytes its node asks for (`Sized`), an EQU without bytes
belongs to one blob (`Owned`).  `ReplacedLayout` and `ReplacedStands` are the heart: an
entry is replaced by entries that fill another number of bytes, everything behind it moves by the
difference, and labels at its address stay while those behind move; a grown
jump, an expanded TIMES and one that vanishes are all cases of it (`ResizedEntry`,
`ExpandedEntry`, `CopiesFacts`).  Sizes may shrink as well as grow, and nothing is assumed of
when the passes end.

On top of it stand `FixpointIsEmitted` and `ProgramIsEmitted`, about what is emitted when
the passes stop.  `FInv` adds three parts to `IInv`.  `Kept`: an entry does not name an EQU twice
(`IsOnce`), every node has become what its kind asks for (`Made`: one entry, the count of a TIMES,
or the TIMES itself), and the entries are in address order unless a TIMES was expanded.
`Quiet`: in a pass that has not asked for another, the entries behind the iterator are `Steady`:
a visit would leave them as they are.  It is the invariant of a loop over a Map that the loop
changes: a resize asks for a pass (`FixInstructionStep`), `VisitSettles` and `SameValue` say that a visit
that asks for none leaves the values of all EQUs, so that what was steady before remains so
(`SteadyStays`).  Only a TIMES that expands to nothing moves labels and asks for no
pass, which is why `EmitsAFixpoint` excepts it (`VanishedIn`).  `Out` says it of the
blobs.  `OnlyOrder`, `ResizedOrder` and `DeletedOrder` tell which entries the iterator has passed when
some are deleted or set again, and that a program without a TIMES stays in order; with one,
`SortedFacts` shows that the sort gives each entry once, by ascending address.  `BlobsAdjoin` and `CopiesMade` draw
the conclusions.

`GivingUpHasCause` counts passes.  Sizes only grow: a jump that was made longer never
becomes shorter, since its distance grows with the code between (`SizeKept`, by
`ShiftedKeeps` and `ReplacedKeeps`), and a TIMES is expanded once; `Grown` counts both
and `ResizeGrows` and `ExpandGrows` say that it goes up.  A pass in which nothing grows must have settled an
EQU.  That an EQU changed does not say it: it may change once for each EQU
it rests on, and is visited before or after them.  So `Certain` is the largest set of EQUs that is
closed (`ClosedIn`: each of them has the value of its expression and names a label or another
of the set), or hangs in no entry that is visited.  A visit keeps what is certain (`CertainGrows`), and as
no EQU is defined by itself, some uncertain one names only certain ones: it is
`PendingIn` the rest of the pass and will be settled there (`PendingExists`).  `Budget` is
the invariant of the passes: so many passes as have been begun, so much has grown; or
nothing can grow any more (all entries are `Final`, or those already visited in the
running pass), and so much has grown or is certain.  `PassIsPaid` reads it at the end of a pass, and
`GrowthIsBounded` bounds both by the jumps, TIMES and EQUs of the program.  The
exceptions in `Chasing` are those the argument needs and the code has: each of
them shrinks code or turns an EQU against a jump.

`LexerProofs` proves all properties of `Lexer` for every set of texts and every
configuration (`LexerAssumption`).  `EveryCharacterOnce`:  `NothingIsLost` looks back over the whole source;
`IInv` joins it with the order of tokens and buffer (`Ordered`: what is in them was
read before the offset).  An action flushes the word, makes a token, or drops characters,
and `FlushWord`, `TokenStep` and `DropStep` say what each does to both; `StepKeeps`
composes them, and `PieceFacts` is about the prefix of a bracket that is split off a word.
`WordsAreWhole` needs a claim about the word that is still being read (`WordSoFar`): it
began where a word can begin, it has no gap but that of a broken line, and what comes next in
the source continues it or ends it.  Between a remark and the end of its line nothing
else is read, which is why a word before a remark is whole though its flush comes
later.  `TrimParts` is the one place where a word is cut.  `PlacesAreTold` needs that the row
counts the newlines that became tokens and the column runs along with the offset
(`Pointed`), for the next character and for each one in the buffer, since a token
takes the position the loop has when it is flushed.  Newlines that no token tells are the
exception of the property; as the others only grow in number, what was told of
a token stays true (`TellMore`, `EndOfLineTells`).

`VGAProofs` proves every property of `VGA`, for every choice of the presets, any interval of
offsets that fits the smallest window, all bytes and all register settings (`PresetsAssumption`,
`OffsetsAssumption`, `WritesAssumption`).  `BitsAlwaysStored` is a fact about operators:
`StoredBits` follows one bit through expansion, set/reset, operation and masks, for all
contents of registers and latch.  The modes are known to the other proofs by
`PresetFacts` alone: a preset is a text mode, or `Straight` (write mode 0,
nothing rotated, set, combined or masked, and the plane that is read among those
that are written).  `WindowIsMemory`, the refinement of `LinearMemory`, rests on cells: each offset has a
plane and an offset in it (`CellPlane`, `CellOffset`), no two share one (`CellsDiffer`), what is
read comes from the cell (`ReadsCell`), and a write changes of all cells that one
(`TextStores`, `GraphicsStores`), though a planar mode writes planes that no cell
is in.  `CanvasAlwaysCatchesUp` needs more than the dirty region in its invariant: a renderer
comes back from another mode with its old region and an image of another size, so `Shown` says that
what is outside of the region is on a canvas of the right size, and `Region` that a region
is empty only when nothing was written.  `MarkedPixels` is the arithmetic: the
pixels whose address was written lie between the two that the write marks, in
each of the three ways to count addresses.  `ModesAlwaysMeasure` evaluates
`measureMode` at the presets.

`BIOSTextProofs` proves both properties of `BIOSText`, for every set of modes, characters and
attributes and any number of calls (`ModesAssumption`: a mode has cells, and one has the most;
`HomesAssumption`: the cursor of a preset has two bytes; `CellsAssumption`, `StepsAssumption`).  `ScreenAlwaysTrue` is an invariant about the cache:
the renderer draws only cells whose entry differs from memory, so the image must be what the
cache says.  That is inductive only with its exceptions: a cache is emptied only when
text follows graphics, and a canvas that is replaced is empty under a full cache.  Hence
`CacheTrue` is claimed for text modes whose canvas was not `resized`, and `IInv` keeps the size of the
canvas with it; `FrameDraws` says what one frame leaves.  `ScreenImplementsTerminal` is the
refinement of `Terminal`.  A service works on a pen (memory, column, row), so each operation
has a lemma about pens: `Printed` for one character of each kind, `ScrollMovesRows` for the last row,
`RunFills` for runs.  The cursor counts rows from one and memory counts cells, so
`RowAndColumn`, `OneRowAndColumn` and `NumberOfCell` translate between numbers and rows.  `ScreenStep` composes them: as long as a program stays on the
screen each service is a step of the terminal, and once it leaves, the terminal
promises nothing until a mode set leaves the cursor on the grid, which it does not
when teletype had taken it below 0.

Only model-checked, and why:

- liveness (`AssemblyEnds`, `WhatIsLeftEnds`), which the prover does not do;
- `Preprocessor` and `Assembler`: executing a node, rewriting a line and calling a macro
  are mutually recursive, over trees, token lists and a depth of calls at once, as
  in the code, and the meaning of an instruction uses bit operators.  These are
  RECURSIVE operators and `Bitwise`, about which `tlapm` proves nothing; as functions they would
  need the set of all states of an interpreter as their domain.  The runs check the
  assembler against a reference and the preprocessor's invariants, both over bounded inputs.

## 5. What is done and what is left

The state machines of the assembler, the CPU, the x87, the timer, the display and
the page are modelled; so are the translations between them, on bounded inputs.
What would come next, in this order:

1. The index and data ports of the VGA with the attribute flip-flop and the DAC, below `VGA`.
2. Byte forms of IMUL and DIV, the other rotates and BCD in `X86Execution`, each with a gap to name.
3. Rows of the stack, string and x87 instructions in `InstructionEncoding`.

## 6. Known limits

### Not modelled
`components` gives the reason for each part; in short:

- Lexer: numbers in other bases and floats, terminals other than `,` `-` `--` `==`,
  identifiers beyond one sample word.
- Preprocessor: a word glued to `%[ ]` (one token, `PreprocessorInterpreter.ts:413`), columns of
  tokens, operators other than `+` in its expressions.
- Assembler: stack, string, x87 and 32 bit instructions, far pointers and SHORT,
  NEAR, FAR, LOCK and REP prefixes, quotes as operands, SIB bytes.
- CPU: in `X86Execution` IMUL, DIV, ROR, RCL, RCR and BCD; in `X86CPU` that the operand size
  prefix makes CALL push another address, and that HLT is followed by two fetched
  bytes.
- VGA: its ports, DAC and palettes, `addressSubstitution` of the CGA modes, the
  128K window.
- BIOS: disks, clock and palettes.  Devices are mounted once; the server and
  presentation are left out.

### Divergences met while modelling
Those named "modelled" are part of a module; where one limits a property, the
property says so.

Compiler:

- `X86Compiler.ts:548`: a TIMES that expands to nothing takes its bytes away
  without asking for another pass: labels behind it are stale (modelled).  As the code
  shrinks, sizes that later passes choose may alternate (`TimesVanished` in `Chasing`).
- `X86Compiler.ts:607`: a jump whose target is an EQU can come nearer when the code grows and
  become short again, which shrinks the code: such passes may never settle, and
  neither may those of an EQU that is defined by itself.  The compilation gives up (modelled).
- `BinaryDefinition.ts:204`: a `db` of a label is resolved once, with the address of that
  pass (modelled).
- `X86Compiler.ts:574`: a conditional jump between the two ranges has no schema (modelled).
- `X86Compiler.ts:591`: a recompiled blob loses the EQUs chained to it.
- `X86Compiler.ts:541`: `times n-($-$$)` is not expanded again when code before
  it grows in a later pass.
- A local label inside TIMES has no global.

Lexer (modelled):

- The character right after the newline of a broken line is lost: the loop and the
  step both move the offset.
- Rows do not count newlines in quotes, brackets and broken lines; the column of a
  word is wrong before a remark, a carriage return, or a call's bracket.
- A closing bracket opens a content of its own: a stray `]` swallows up to the
  next `[`; quotes inside consumed brackets are not seen.
- In the assembler's configuration `a-3` is one word and `- ` a word "-".
- An error discards all tokens.

Preprocessor (modelled):

- `ASTPreprocessorSyntaxLine.ts:55`: a `%macro` keeps the tokens of its first call (run `MacroArguments`).
- A bracketed call with one argument leaves its `)`, one with three or more drops tokens behind it.
- An unterminated `%if` or `%macro`, or a stray `%endif`, silently drops the rest of the source; it is
  a syntax error instead when calls of `match` of the statement before are still counted, as in a
  `%macro` or an `%else` part that ends with the file.
- A forward EQU passed to a call (`db sum(b, 1)` before `b equ 2`) stays in the text of the call, one
  token that no later pass looks into (`PreprocessorInterpreter.ts:477`), while the EQU is removed
  (`ExpandedBefore` in `RemovedEquIsBound`).
- A forward EQU that is used inside `%if` is removed though its use was not replaced.
- Lines of branches not taken and bodies of macros are executed by the walk that emits.
- A nested execution resets the pending statements of the outer one; the table of
  case-insensitive macros can hold duplicates; `%undef` of one looks for the raw case.
- Unknown names in `%[ ]` are zero and `%[ ]` ends its line; a scope stays when an EQU swallows
  the error of its body; defines in a circle end in a RangeError.
- RPN: `2--3` is -5, `2-+3` is 1, `2*-3` is an error; relations and bit operators of
  the preprocessor group to the right.

Encoding and execution of instructions (modelled):

- `test reg, [mem]` encodes `test reg, reg` and a stray displacement; TEST of words
  (84h, 85h, A8h, A9h) takes its flags from a byte.
- OF is never updated by ADD, ADC, SUB, SBB, CMP, since its set mask is FFh: JL and JG go
  wrong; PF counts a whole word; the carry of MUL on bytes looks at AL.
- SHL by 0 changes flags and its OF is that of the low byte; ROL is not masked
  and sets ZF; LEA is not masked, and the sum of an address wraps once only.
- An explicit DS on an address with BP still uses SS; `[bp]` alone is refused.
- A conditional jump of exactly 129 is refused, a prefixed short jump at its
  backward edge overflows its byte; shifts of a word in memory by other than 1 are refused.
- `shl [bx], cl` is accepted as one of a byte; `add word [bx], byte 5` is refused; a sign before
  a register is ignored; `[bx*1+si]` loses bx; `mov ax, label -3` is `mov ax, -3`.
- XCHG with memory throws, with bytes it is an unknown opcode.
- Not in a model: the target option never filters a schema; the carry of IMUL is inverted; ROR, RCL and
  RCR are wrong; ip past 65536 is cut with FFh; the word write of the block driver swaps its
  arguments; IN from port 0 fetches a byte of code.

x87 (modelled):

- `X87.ts:385`: FCLEX clears the top in the status word.
- `X87.ts:567`: `safePop` returns the new top, so FSTP to memory stores the register below.
- `X87.ts:726`: FFREE takes its index for a physical one, as FXAM does with tag 0;
  `:546`: FLD st(i) pushes what it reads after moving the top; `:607`: FUCOMPP throws.

CPU and machine (modelled):

- `constants/x86.ts:20`: REPNE is filed as a segment prefix and never repeats.
- `X86InstructionSet.ts:366`: LOOP with cx = 0 goes on with -1, and a REP after it hangs.
- `X86CPU.ts:341`: prefixes outlive an unknown opcode (`OwnPrefixes`).
- Faults and INT3 are masked by IF, and the flags at boot have IF clear.
- `BIOS.ts:210`: listeners on the document are never removed; a read of the
  key while a modifier is held returns none.
- `X86CPU.ts:367`: an exception ends the message loop while `clock` stays true (`Crash`).
- `X86CPU.ts:383`: `halt` only clears `clock`, which a slice looks at before its loop:
  a halted CPU goes on ticking until its slice is over.
- `X86CPU.ts:405`: cs is increased without a mask and leaves its 16 bits past F000:FFFF.  It is pushed
  truncated, and the physical address is right for one round only.
- A release does not silence the speaker; `boot()` does not reset `pause`, the prefixes or the x87.

PIT (modelled):

- `SpeakerTimer.ts:42`: `reset` only stops the sound, so a control word for the
  speaker leaves the order of bytes where it was (`ReloadIsWhole`
  assumes an even start there).
- `PIT.ts:113`: a latch leaves the counter in the mode of latches, and what is
  written to it before the next control word is lost.
- `PIT.ts:146`: a control word for channel 3 (read-back on later chips) throws.
- `CountdownTimer.ts:38`: `latched` survives a new control word: the first reads
  behind it may still show the latch.

Video:

- `VGAPixBufCanvasRenderer.ts:22`: marking the whole region stores -1 at both ends, and the next frame draws
  the pixels between them, which are none: in a graphics mode the last frame of a halted machine draws nothing,
  and a program that draws and halts in one slice loses its end
  (modelled in `VGA` and `X86Machine`, exception of `ScreenShowsTheEnd`).
- `UnionStruct.ts:116`, `VGAModesPresets.ts:55`: a preset replaces only the low 16 bits of the number of the
  cursor, which teletype can take below 0 (`VGA.ts:308`): after that a mode set leaves the cursor far off the screen.
  The column of such a cursor is negative (`VGA.ts:316`, modelled).
- Mode 4 is left in text by its preset and measured as 40x200 (left out of `ModesMeasure`).
- The cursor of the 40x25 and graphics presets is not at home; teletype past the last row writes on the next page, a
  line feed always scrolls page 0, and scrolling by several lines pulls rows of the next page in;
  the service that selects a page does not display it; INT 13h of the text services writes its string into one cell (modelled).
- The graphics palette, and a switch between modes of one size, leave a stale image; the start address is ignored
  without substitution.
- Function 11h of INT 10h always throws; 0Ah and 0Eh always use attribute 7.

Server: uniqueness is checked by a query before the insert; that one of two
requests loses is left to the unique column of the database.
