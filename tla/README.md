# A formal model of the SysY compiler

`compiler_1` translates SysY, a small C, to a three-address IR, and either executes the IR or
generates RISC-V assembly from it.  This directory holds TLA+ modules that model its parts, TLC
configurations that check them on bounded instances, and proofs that TLAPS checks.

## 1. The system

One process, one thread; `main.cpp` calls the passes in a fixed order and each works on the
result of the previous one.

| Component | Source | State | Operations |
|---|---|---|---|
| Driver | `main.cpp` | none | opens the files, runs the passes; `-e` prints `(uint8_t)` of main's value |
| Lexer | `front/lexical.cpp` | the automaton's state and the text of the token so far | `DFA::next`, `reset`, `Scanner::preprocess` (comments), `run` |
| Parser | `front/syntax.cpp` | `index` in the tokens, the tree under construction | one function per nonterminal, with backtracking |
| Semantic analyzer | `front/semantic.cpp` | symbol table (stack of scopes), counter of temporaries, flags `ExpT`, `SZ`, `const_n`, stacks `while_s`, `while_e`, the instructions so far | one `analysis...` function per nonterminal; emits IR |
| IR | `src/ir`, `include/ir` | data only | constructors, printing |
| IR executor | `tools/ir_executor.cpp` | globals, contexts, the stack of contexts, heap | `run`, `exec_ir`, `exec_lib_function` |
| Back end | `backend/generator.cpp` | `stackVarMap` (name to offset), `global_vars`, `Instr_ID`, the lines so far | `gen`, `funcSolve`, `paramSolve`, one `...Solve` function per kind of instruction |
| RISC-V printing, JSON, AST output | `backend/rv_*.cpp`, `third_party`, `abstract_syntax_tree.cpp` | none | printing |

How they interact: the analyzer leaves conventions in the IR that the executor and the back end
rely on, and that no type checks: relative offsets of `goto` are counted in instructions of the
same function; every function must end in a `return`; a name has one type in a function, and is a
global exactly if it carries no scope's suffix; temporaries are named `t<k>`; a pointer passed to
a function points into an array of a caller.  The executor resolves names dynamically (a name that
no local has is the global's), passes results through raw pointers into a caller's map, and
asserts types at every read.

What is hard in this code, and what makes each component correct:

- *Executor.*  The stack of contexts is handled so that `main` lies below itself and its `return`
  is executed twice; the result cell of a call is fixed before the callee runs and written through
  after any number of nested calls; which cell a name means depends on what the frame has written
  before; operators write one member of a union and leave the tag.  Correct: calls nest, a frame
  is changed by nobody else except at the one cell its call names, the second `return` of `main`
  has no effect, well-typed programs trip no assertion.
- *Analyzer.*  Offsets are patched by counting instructions already emitted; short-circuit code and
  `break`/`continue` jump over code generated by others; flags outlive the function that set them;
  temporaries share names with variables; scopes are distinguished by a suffix.  Correct: the code
  means what the source means, and keeps the conventions above.
- *Lexer.*  Comments are found by searching lines for marks, with a flag from line to line; a token
  comes out one character late.  Correct: the comments are those a reader from left to right finds,
  tokens are as long as they can be, no character is lost.
- *Parser.*  Rules are tried and given up on, which has to undo what they did; many tokens are taken
  without a look at them, and the analyzer finds children by their number.  Correct: the tree of a
  program is the one the grammar gives it, each token is in it once, no mistake shifts the children.
- *Back end.*  A frame of fixed size filled from above without a check; slots made when a name is
  first written; arrays passed as offsets that fit exactly one frame of difference; labels from a
  counter.  Correct: two live variables do not overlap, a frame is not overrun, saved registers
  survive, every jump has its label, the assembly means what the source means.

Nothing runs concurrently, nothing is persisted and nothing is retried, so there are no hazards of
interleaving, crash recovery or delivery.  `PROJECT.json` lists the hazards there are, each at its
line.

## 2. The modules

| Module | Models or shows |
|---|---|
| `IRExecutor` | `tools/ir_executor.cpp`, `include/tools/ir_executor.h`, the IR's data types: a state machine, one action per case of `exec_ir` |
| `CallProtocol` | abstract: activations of functions nest and each is completed once |
| `IRTyping` | a typing discipline for IR programs; the refinement mapping of the executor to `CallProtocol` |
| `IRBuild` | the constructors of IR (`Instruction`, `CallInst`, `Function`) |
| `SemanticAnalyzer` | `front/semantic.cpp`: one operator per `analysis...` function, on syntax trees |
| `SyntaxTrees` | the kinds of nodes of `abstract_syntax_tree.h`, as constructors |
| `SourceSemantics` | abstract: what a SysY program means, written from the language and not from the code |
| `Compiler` | `main.cpp` with `-e`: `SemanticAnalyzer`, then `IRExecutor`; beside it `SourceSemantics` |
| `Generator` | `backend/generator.cpp`: a state machine, one action per `...Solve` function |
| `RiscV` | external: what the assembly runs on, namely assembler and linker, the instructions of RV32IF that are used, the library |
| `BackEnd` | `main.cpp` with `-S`: `SemanticAnalyzer`, then `Generator`, then `RiscV`; beside it `SourceSemantics` |
| `Lexer` | `front/lexical.cpp`: `preprocess` line by line, `DFA::next` character by character; what the language says the tokens are |
| `Parser` | `front/syntax.cpp`: one operator per `parse...` function, one step per function or declaration of a file |
| `Sentences` | abstract: the grammar; the tokens a syntax tree is written as, and the tree a parse tree stands for |
| `SourceFamilies` | families of SysY sources, used by `MCCompiler`, `MCBackEnd` and `MCParser` |
| `MCIRExecutor`, `MCCompiler`, `MCBackEnd`, `MCLexer`, `MCParser` | instances for TLC |
| `IRExecutorProofs`, `CallProofs`, `TypingProofs` | TLAPS proofs about the executor |
| `GeneratorProofs` | TLAPS proofs about the frames of the generator, and about its jumps |
| `LexerProofs`, `CuttingProofs`, `SeparationProofs`, `CommentProofs` | TLAPS proofs about the scanner: no character is lost, the text is cut into the longest tokens, a blank separates tokens, and the comments that are removed are those of the text |

`Compiler` EXTENDS `IRTyping`, which EXTENDS `IRExecutor`; `BackEnd` EXTENDS `RiscV`, which EXTENDS
`Generator`; both INSTANCE `SemanticAnalyzer` and `SourceSemantics`.  `Parser` INSTANCEs `Sentences`.
`CallProofs` and `TypingProofs` EXTEND `IRExecutorProofs` and `IRTyping`; `CommentProofs` EXTENDS
`SeparationProofs`, that `CuttingProofs`, and that `LexerProofs`.

### The executor

The variables of `IRExecutor` are the members of `ir::Executor`, with the source's names, the
contents of its input and output, `heap` for the arrays of `new[]`, and `main_func_retval`, the
local of `run()`.  `contexts` holds every `Context` ever made: `cur_ctx`, the elements of
`cxt_stack` and the scope of an address are indices in it, so that a dangling pointer would be an
index that is never reused.  A `Value*` is an address: scope 0 for the globals, -1 for `nullptr`,
-2 for the local of `run()`.

`Run` is `run()` up to its loop, `RunFails` its two assertions.  Every turn of the loop is one of the
other actions.  The guard `Executing(ops)` says that the instruction is one of `ops` and that
nothing stops it; what stops it is `Faults`, the assertions of its case in the order of the code
and its undefined behaviour (`not_found`, `punned`, `bad_memory`, `division`), and the action `Stop`
ends the execution with one of them.  `Put` is `get_des_operand` followed by an assignment of a
whole `Value`, `PutMember` the assignment of one member that leaves the tag; `DesFirst` names the
cases that call `get_des_operand`, which may create the destination, before they read.

Abstractions: a literal operand carries its number, not its text; a float is counted in halves, so
`cvt_f2i` truncates and a division may lose less than a half; `getch`, `putch` and the formats of
`sylib` read and write whole numbers; an out-of-range `pc` is not told apart from one that has wrapped
around; the order of evaluation of `get_des_operand(...)->_val.m =
find_src_operand(...)`, which C++14 leaves open, is taken to be sources first.  Only an instruction whose
destination does not exist yet and is also one of its sources can tell the two orders apart: it finds
nothing, or a zero.  The analyzer defines a name before it reads it.

### The analyzer

The analyzer is deterministic and its state is passed along: an operator of `SemanticAnalyzer`
takes the state `st` (`buf`, the instructions so far; the counter of temporaries; the stack of scopes;
the flags `ExpT`, `SZ`, `const_n`; `while_s`, `while_e`) and returns the state after it, together with
what the C++ function leaves in its node (`v`, `t`).  A `throw`, an assertion or undefined behaviour
adds to `err`.  An operator has the name of the function it models; an inner step has a name of its
own (`OrRight`, `AfterThen`, `JumpBack`, ...), and takes the values it needs as parameters.  What the
code does wrongly the model does wrongly: the first letter of a name decides what a temporary is,
siblings share a suffix, `+` and `-` fold alike.

Abstractions: texts of numbers are numbers, in halves, with a flag for the point that
`analysisNumber` looks for and a mark for a minus or the digits of a computed float, by which the zero of
a constant is told from the texts `0` and `0.0` that `analysisInitVal` leaves alone; of `getTmp`'s names the number matters.  `analysisConstExp` and the other
one-line functions are merged with what they call.

### The back end

The variables of `Generator` are the members of `Generator` and of `stackVarMap`, with the places the
loops of `gen`, `funcSolve`, `paramSolve` and `CallSolve` are at (`func`, `instr`, `arg`, `stage`) and
one history variable, `arrays`, the elements `AllocSolve` has set aside in the frame.  Every action
writes the lines its function writes, in their order: a function is a `FuncSolve`, one `ParamSolve` per
parameter, one action per instruction, of a call one `CallArgument` per argument, and `FuncEnd`.  A
function of the code has one action, except that functions which differ in the instruction they write
only share one (`BinarySolve`, `FBinarySolve`).  What the code does with a name it does not know, it
does in the model: `find_operand` answers -1, and where the code uses that for an offset, so does the
model.

Abstractions: a line is a record of an operation, registers, an immediate and a symbol; the label of a
float constant is its value, for `getFloatConstantLabel` numbers them one-to-one; comments and
directives that build no word are left out.

`RiscV` is not code of the repository but what the code relies on.  A word of memory or a register holds
an int, a float (in halves) or something *unknown*: below `sp` nothing lasts, a function of the library
keeps only the registers it must.  A branch on an unknown word, an address made of one or its output is
an error, and so are an address that is nowhere, a label that is missing or an immediate that does not
fit.  `frames` is history: where each call came from, with `sp` and `s0`.

### The lexer

`Preprocess` is a turn of `preprocess`'s loop; then there is one action per state of `DFA::next` and
kind of character, in which `Emit` is a token that is complete and `Longer` one that is not.  A
character is a symbol; keywords, which the automaton does not tell apart until a token is complete, are
one symbol each, and two digits and two letters stand for all of them.

The reference is `Comments`, which reads the text a character at a time with a mode, and `TokensOf`, which
cuts what is left into the longest tokens.  `ScansTheSource` compares them for every source that is a
sequence of tokens once its comments are blanks.  Two kinds of comments are not blanks for the code, which
removes one block comment of a line and puts no blank in its place: one that begins on a line on which
another has ended, and one that has characters right in front of it and right behind it on its line.
`Comments` makes each of them `Odd`, a character of no token, so that the property says nothing of a source
with such a comment.  A number that begins with a point is a `FLOATLTR` of the language and of the
repository's token tests; right behind an operator the code makes it an `INTLTR` (end of section 5).
`CutInto` therefore says for every text that it is cut into the words of the language, without a
failing assertion, and for the texts that have no point behind an operator (`PointBehindOperator`) that the
tokens have the kinds of the language too.
`CutsTheText` is the automaton's half of this by itself, for whatever text `preprocess` hands it.

### The parser

A rule in progress is a record: where it began, the token it is at, the children it has given its node,
whether it goes on and why the program stopped.  `Child` is `if (!parse...(node)) ...; else
push_back`, with what the code does otherwise as a parameter: `Wrong` (the macro `WRONG_SOLVE`, which
sets the index back), `No` (`return false`, which does not), or an assertion.  The model stops where
the code would read past its last token.  A step of `ParserSpec` is a turn of
`get_abstract_syntax_tree`: a function, or else a declaration.

`Sentences` holds the grammar from both sides.  `Sentence` writes a syntax tree (the one the analyzer is
given) as tokens; `Meant` reads a parse tree back; `Production` says which children a node may have, as the
comments over the functions state it.  `OnlyClosingsUnchecked` leaves out two kinds of mistakes that get
through: closing tokens that are pushed without a look, and a variable alone, `x;`, which
`parser_statements` shows (section 5).  Where the parser answers `nullptr`, `TreeHoldsTheTokens` says what has
been parsed by then; that `main.cpp` dereferences the answer (lines 59 and 65) is outside the model.

## 3. What is checked

| Run | States | Shows |
|---|---|---|
| `executor` | 79 073 | 4800 programs of a family (`main` runs two of ten instructions, `f` one of eight, `v` one of six; they call each other, jump, run off their end, use and shadow a global), 2023 programs of ints, floats, pointers and library calls, 432 of them well-typed, and nine written out.  The stack keeps its order (`CallOrder`), every suspended context waits right behind a call of the function above it and its result cell is where that call said (`CallerWaits`), a step changes no other frame (`FrameIsolation`), the second `return` of `main` has no effect (`SecondReturnIsSilent`), activations nest (`CallsAreNested`, a refinement of `CallProtocol`); a program that keeps `WellTyped` trips no assertion about types and reads no union through a member nobody wrote (`TypeSafe`); the written-out ones give the answers their sources mean (`Answers`), and every execution ends |
| `compiler_units` | 117 372 | 588 sources of two statements (`break`, `continue`, `return`, nested loops and blocks) under conditions of `&&`, `\|\|`, `!`, relations and calls that print, 672 of arrays of one and two dimensions, conversions, shadowing, parameters, recursion, side effects on globals, and 144 of constants: sums, products and conversions of constants, lengths of arrays, constant arrays of three dimensions with full or flattened braces, a local constant named like a global one.  The translation prints and returns what the source means (`MeaningPreserved`), its jumps stay in their function (`JumpsStayInside`), it keeps the discipline under which `executor` finds no type fault (`WellTypedCode`), and it ends (`Completes`) |
| `backend_units` | 60 486 | 40 of the sources of loops, 28 of those of constants and 80 of frames: ten parameters, calls in the arguments of calls, arrays handed down through two calls, recursion, globals, floats, comparisons.  The assembly builds, never depends on an unknown word, prints and returns what the source means (`MachineMeans`) and ends (`MachineHalts`); saved registers stay saved (`FramesKept`), a return goes back to the call with the caller's `sp` and `s0` (`ReturnsToCaller`), slots and arrays are apart and in the frame (`SlotsApart`, `SlotsInFrame`), every jump has its label (`JumpsLand`) |
| `lexer` | 229 270 | All texts of up to five pieces of comments (`/*`, `*/`, `//`, `/`, `*`, a letter, a blank, a new line) and of up to four characters of tokens: the words, and where no point is behind an operator the kinds, are those of the language (`ScansTheSource` and its half `CutsTheText`), and for every source `NothingLost`, each character in one token |
| `parser` | 15 183 | 3766 sentences of expressions, conditions and statements of two levels, 175 sources of the families, and every token left out, doubled or replaced by any of 19 in three programs that use every rule, and their beginnings.  Sentences are parsed into the tree they were written for (`SentencesParsed`); the tree holds each token that was read once and in order (`TreeHoldsTheTokens`); of the mistakes only those get through that the code does not look for, closing tokens and a variable alone (`OnlyClosingsUnchecked`) |
| `compiler_names`, `compiler_scopes`, `compiler_closing`, `backend_globals`, `backend_library`, `backend_arrays`, `parser_statements` | | a source each that refutes a comment or an assertion of the code (section 5) |

**Bounds.**  Ints have eight bits (`IntMax = 127`) for the executor and the compiler, sixteen for the
machine, whose addresses are ints too; both overflow within a few instructions.  The machine has 24 000
bytes of stack, 15 frames of 1560 bytes; no source nests calls deeper than six, so that a segment fault
would be a bug of the code and not of the bound.  `Junk`, what an uninitialised int may hold, has two
values in the executor's run and one in the compiler's.  A run is bounded by its program and not by the
model: no program of the executor's families jumps backwards for ever or recurses without end, and no
source of the compiler's does.  `LoopBound` (20 or 40 turns of loops and calls) bounds the *meaning* of a
source in `SourceSemantics`, not the execution of its translation; a source that exceeds it is not
`Defined` and says nothing.  Two expressions of `backend_units`, which index an array far outside, are
undefined on purpose, so that the machine's faults are reached.
Instances this small are enough for the offsets, the flags and the stacks, because what goes wrong
there depends on how two or three constructs nest and on what a callee does between two reads; they
say nothing about large frames or long functions, about which `FramesApart`, `FramesHold` and
`JumpsArrive` (section 4) do.  For the
lexer, five pieces are enough to open and close a comment, in it a mark of the other kind, on two lines;
the automaton has one character of lookahead and operators have two.

**Fairness.**  `run()` is a loop that executes an instruction in every turn, in one thread: weak
fairness of `Run \/ RunFails \/ ExecIR` says that the process gets to run.  The same holds for the
loops of `gen` (`Translating`) and for the processor (`Executing`).  Nothing else is assumed; `Ended`
and `Stopped` are the stuttering of what is over.  `Terminates`, `Completes` and `MachineHalts` rest on
it.

**Seeded bugs.**  For each property of a passing run `PROJECT.json` names a mutant: an operator
placed before the definition it replaces, such as `ReturnAdvances` (a `return` increments `pc`),
`CallAgain` (the caller resumes at the call), `AbsoluteThen` (an offset forgets where it counts from),
`OnStackHigher` (the ninth argument a word too high) or `GivenUp` (a rule keeps its position when it
gives up).  Each is found by TLC under the run's own configuration.

**What the sources leave out**, because the code translates it differently from what it means; the model
reproduces each, and `hazards` in `PROJECT.json` lists them.  In the analyzer: variables whose name
begins with `t`; two declarations of a name with different types in sibling blocks; assignment to a
float variable; constants whose initializer subtracts, divides or takes a remainder; a local
constant named like a global variable; a parameter that is an array of two dimensions; two bare elements of one array as arguments of one call; an int *variable* for a float parameter;
inner braces with too few values, other than in the last row; a void function that ends in `if (..) ..;
else return;`.  In the back end: negative floats that become ints (rounded downwards, in globals to the
nearest); float globals; a global array passed to a parameter of another name; a float function that returns a
literal or a global, for which -1 is used as an offset; an array of a frame
passed to the library; comparisons of floats other than `<`; a ninth argument that is a float; frames
that do not fit.  `MeaningPreserved` and `MachineMeans` say nothing about these.  Nor does `TypeSafe` of the
int variable for a float parameter: its precondition is `WellTyped`, which such code is not.

## 4. What is proved

TLAPS checks the following about the executor for every set of programs, every input, every width of
ints and every content of uninitialised memory.  The only assumptions are those of `IRExecutor` on its
constants: `Programs` are IR programs, `null` and `main` are names, `IntMax` is a natural number, inputs
and `Junk` are ints and there is some `Junk`.

- `TypeCorrect` (`IRExecutorProofs`): `Spec => []TypeOK`.  The inductive invariant is `TypeInv`, the
  same with maps and sequences as sets.  One lemma per action, each from what the absence of `Faults`
  guarantees about its operands.
- `CallsInOrder`, `MainAnswersOnce`, `FramesIsolated` (`CallProofs`): `CallOrder`,
  `SecondReturnIsSilent` and `FrameIsolation` of every execution.  None is inductive.  `CallOrder` fails
  if the last context could still call: so `CallInv` adds `LastReturn`, that with an empty stack the
  instruction is the `return` that has just been executed, free of faults, whose value is already in
  place.  That in turn needs to know where `main` answers: `AnswersToCaller`, the first context answers
  into `run()`'s local and every other into the globals, the context below it in the chain, or nowhere.
  `FrameIsolation` follows from the same part.  The steps are `Run`, `Call` (the chain grows by a newer
  context), `Return` (the chain loses its end), and `Inner`, all other instructions, which keep to their
  frame.
- `SuspendedWait` (`CallProofs`): `Spec => []CallerWaits`.  The invariant `WaitInv` is `CallerWaits` pair by
  pair (`Waits`) and `Ordered`, that of any two contexts of the chain the later is the newer: `CallOrder`
  compares neighbours, and a call moves the current context, which must not be one of those that wait.
  What keeps a wait is `Growing`: no step takes a cell from a suspended context or from the globals, and
  none but its own resumption moves it.
- `Nested` (`CallProofs`): `Spec => CallsAreNested`, the executor implements `CallProtocol`.  Under
  the mapping of `IRTyping` the first of `main`'s two returns is a stutter, every other return is
  `Answer` or `Finish`.
- `WellTypedRunsSafely` (`TypingProofs`): `Spec => []TypeSafe`.  The invariant is `TypedInv`: if the
  program is `WellTyped`, then every cell of a frame has the type its function gives its name, every
  global the type of an entry of its name or the value type of it, and each holds the member of its
  tag or a zero (`Sound`); and what a context answers into is a cell of the type that its function
  returns (`AnswerTyped`).  The last is needed because a `return` writes into a frame of another
  function.  A step that could break it writes one cell; the lemmas say of each kind of write what it
  leaves.  The proof found a hole in the discipline: a global constant has a literal's type, and the
  first version of `OnlyDefined` let `def x <- x` of such a name pass, whose right side is then looked
  up in the globals and has the wrong tag.  It now forbids the name as an operand; the programs of the
  analyzer keep to that (`WellTypedCode`, run `compiler_units`).

About the back end, of `GenSpec` and every set of programs:

- `FramesApart` (`GeneratorProofs`): `GenSpec => []SlotsApart`: no two names
  and no arrays of a function share a word, and none reaches the saved registers.  `ProgramsAssumption`
  is that they are IR programs and that the length of an array is not negative; with a negative length
  the theorem is false.  `SlotsApart` is not inductive: a new slot is apart from the old ones because
  `offset` is below all of them, `Below`; that an `alloc` keeps it so needs to know that the length comes
  from a program, `Control`.  `SlotAdded` and `ElementsAdded` say what `add_operand` and `AllocSolve` do
  to a frame; of the actions only those that change the map have more than a line.

- `FramesHold` (`GeneratorProofs`): `[](Small(program) => SlotsInFrame)`.  `Small` says of every function
  that its parameters, its instructions and the elements of its arrays are no more than the 377 words
  between the saved registers and `sp`.  Without a hypothesis it is false: frames have one size whatever
  the function needs, which is the finding of `backend_arrays`.  The invariant `RoomLeft` compares the
  offset with what the instructions up to the current one may have taken.  `Small` counts one word per
  instruction and hence more than is needed; a function with more instructions may still fit.
- `JumpsArrive` (`GeneratorProofs`): `[](Inside(program) => JumpsLand)`.  `Inside` says that a `goto` leads to an
  instruction of its function or right behind the last.  (The
  analyzer's code satisfies `JumpsStayInside`, which is stricter: behind the last instruction there is
  nothing to execute, but there is a label.)  `JumpsLand` speaks of the complete assembly; `Landing` is what holds on the way:
  every number from the function's first label, `Base`, to the last one written has its label in the
  text, and what is jumped to has one or is a label of this function (`Own`).  `Base` is computed from
  `Instr_ID` and the place in the function, so that it takes a lemma, `Continued`, to say that it
  may stand still while `CallSolve` writes one instruction in several steps.

About the lexer, for every set of files that are sequences of lines, lines being sequences of characters
other than the one that ends a line, which `getline` leaves out:

- `EveryCharacterScanned` (`LexerProofs`): `LexerSpec => []NothingLost`.  The invariant `ScanInv` adds that
  nothing is pending at the beginning, after a blank and in the state `Empty`, and that the text ends in a
  blank, without which the last token would be lost.  The tokens are put together by `FlattenSeq` and what
  was read by `NonBlank`, both recursive functions.  The lemmas `FlattenAppend` and `NonBlankNext` say what
  one more element adds, for every sequence: by induction, which is there as `LeastNat`, that every set
  of natural numbers but the empty one has a least element.  (It follows from the library's theorem that
  strict inclusion of finite sets is well-founded and needs no operator as a parameter; the theorems of
  `NaturalsInduction` do.)
- `LongestTokens` (`CuttingProofs`): `LexerSpec => []CutsTheText`.  The reference, `TokensOf`, cuts a text
  by a recursive function that looks ahead for the longest token; the automaton looks at one character
  and never back.  The invariant `CutInv` says that what is cut from the text is the tokens so far
  followed by what is cut from the first pending character on (`Fed`), and what the state tells of the
  pending characters (`Shape`): `Ident` is letters and digits behind a letter, `FloatLiteral` has a point
  that counts, `op` is one of the operators.  Then `WordCompleted` and `OpCompleted` say that the
  automaton ends a token where the longest one ends, `KindIsType` that the state knows its kind, and
  `NoFailing` that an assertion fails only on a text that has no tokens.  One shape was not what it
  seemed: a point right behind an operator begins in the state of integers, so that `.5` is an `INTLTR`
  there, while a second point makes it a float that no token is.  The words are the same, the kind is not;
  so `CutInv` follows a cutting with the automaton's kinds (`KindAt`, a definition of the proof), and
  `SameSpelling` takes it back to the language: its words are those of `TokensOf`, and `CodeMeans` says that
  where no point is behind an operator the kinds are too.
- `SourceScanned` (`CommentProofs`): `LexerSpec => []ScansTheSource`, which `LongestTokens` is the other half
  of; it is about the words of every source and about the kinds where no point is behind an operator.  `preprocess` goes through the lines from the first to the last and keeps one flag, `Comments` is
  recursive from the end of the text; what meets in the middle is `HalfRead`: the tokens of the whole are
  those of what `preprocess` has put together and then those of what is read from the next line on, in the
  mode that `inBlockComment` stands for.  The two texts themselves are not the same, for they have their
  blanks in different places, and therefore `SeparationProofs` shows that the tokens of two texts with a
  blank between them are those of the one and then those of the other (`TokensJoin`).  `LineLeaves` is the
  step: the five cases of `WithoutBlock` against the modes of the reader.  It needs that nothing that is
  read is `Odd`, which a text of tokens gives (`TokensHaveNoOdd`): then a block comment is not glued
  (`NotGlued`) and none follows one that has ended (`AfterLeft`).  `LineThere` says where the lines are in the
  text, by induction over `FlattenSeq`.

The hypotheses are not vacuous: every program of `executor` counted as well-typed keeps the discipline,
every one that `backend_units` translates is `Inside`, most texts of `lexer` can be cut into tokens, and
the invariants `TypedInv`, `Landing`, `ScanInv`, `CutInv` and `HalfRead` were evaluated by TLC over the states
of `executor`, `backend_units` and `lexer` before they were proved.

Only model-checked: `Answers`, which compares with results written out; the liveness properties
`Terminates`, `Completes` and `MachineHalts`, which are outside what the prover handles; the compiler, the
meaning of sources and the parser, which are RECURSIVE operators over trees; hence also `MachineMeans`,
`FramesKept` and `ReturnsToCaller`, in whose module the meaning of sources is used.

## 5. Findings

Each is a run that expects a violation and ends in a source the model translates, or refuses, as the code
does.

| Run | Source | What the code says | What happens |
|---|---|---|---|
| `compiler_names` | `int total = 1; putint(total + 1); return total;` | `semantic.cpp:432`: an operand is put in a register so that a variable is not affected | `total` begins with `t`, is taken for a temporary, and becomes 2 |
| `compiler_scopes` | `{ int x = 1; ... } { float x = 1.5; ... }` | `semantic.h:62`: names of different scopes are told apart | both are `x_main_S2` |
| `compiler_closing` | `void show(int x) { if (x) putint(x); else return; }` | `ir_executor.cpp:177` asserts that there is an instruction | the jump over the else part leads behind the last one |
| `backend_globals` | `int a = 1; int b = a;` at file level | `generator.cpp:30`: -1 stands for a global | -1 is used as an offset: `lw s2,-1(s0)` |
| `backend_library` | `int v[3] = ...; putarray(3, v);` | `generator.cpp:548`: the actual address of an array is passed | what is passed is an offset; the library takes it for an address |
| `backend_arrays` | `int v[400]; v[0] = 1;` | `ir_operator.h:13`: `alloc` sets aside space on the stack for the array | the first elements are below `sp`, where the next frame will be |
| `parser_statements` | `x;` | `syntax.cpp:299`: `LVal '=' Exp ';'` | `=` and the expression are taken only if they are there; a statement of two children is built, of which the analyzer takes the third (`semantic.cpp:367`) |
| `parser_statements` | `x + 1;` | `syntax.cpp:322`: `[Exp] ';'` is a statement | a statement that begins with a name and no `(` is taken for an assignment; this one trips an assertion |

One disagreement has no run: the lexer fails the repository's token test of `95_float.sy`.  For the `.0` of
line 78, `if (.0 && ...`, `95_float.tk:373` expects a `FLOATLTR`, but behind an operator a point begins the state of
integers (`lexical.cpp:136-141`) and the token is an `INTLTR`.  It is wrong in the list of tokens only: the
analyzer makes a float of an `INTLTR` that begins with a point (`semantic.cpp:1109`).  The lexer's properties and
theorems leave the kinds of such texts out and say so.

## 6. The plan

Every component with logic of its own has its module now.  What is left, in the order of its weight:

1. `ReturnsToCaller` and `FramesKept` for all assembly with the prologue and epilogue of `FuncSolve` and
   `FuncEnd`, in a module apart from the meaning of sources.
2. The sources that the analyzer translates into something else (end of section 3): a family and a
   run of its own for each kind, constants that subtract or divide (`semantic.cpp:702`), arguments
   (`976`), parameters of two dimensions (`1054`), incomplete braces (`1519`), so that what holds is not
   hidden by what does not.
3. The pipeline as one: the tokens of `Lexer` as the input of `Parser`, whose tree `Sentences!Meant`
   turns into the analyzer's.

## 7. What is not modelled

The printing of trees, IR and assembly and the tables of RISC-V instructions (`backend/rv_*.cpp`), which
compute nothing and which the generator does not use; the vendored JSON library; of the driver all but
the order of the passes: files and options.  Of the driver's steps the scanner and the parser are
checked by themselves, the analyzer with the executor and with the back end.  `sylib`'s formats and the
timers of the library are left out of the executor; characters other than those of `Lexer`'s alphabet
and the order of magnitude of numbers are left out of the front end.
