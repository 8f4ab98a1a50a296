------------------------------ MODULE Compiler ------------------------------
(***************************************************************************)
(* The pipeline of main.cpp with -e: the semantic analyzer translates a    *)
(* syntax tree, the executor runs the result; beside them, what the source *)
(* means.  (The sets Programs and Names of the executor play no part: the  *)
(* programs are those the analyzer makes.)                                 *)
(***************************************************************************)
EXTENDS IRTyping, SequencesExt

CONSTANTS Unit(_),   \* the k-th compilation unit to translate
          Units,     \* the numbers of the units
          LoopBound  \* the turns of loops and calls a source's meaning may take

VARIABLES source,    \* the number of the unit that was compiled
          rejected,  \* what made the analyzer fail on it
          meaning    \* what it means: how it ends, main's result, what it prints

Analysis  == INSTANCE SemanticAnalyzer
Semantics == INSTANCE SourceSemantics WITH MaxInt <- IntMax, Fuel <- LoopBound

Compile(k) ==
  LET compiled == Analysis!get_ir_program(Unit(k))
  IN  /\ source = k
      /\ rejected = compiled.err
      /\ Executor(compiled.program)
      /\ meaning = Semantics!Meaning(Unit(k), input)

compilation == <<source, rejected, meaning>>
CompilerInit == \E k \in Units : Compile(k)
CompilerNext == Next /\ UNCHANGED compilation
CompilerSpec ==
  /\ CompilerInit
  /\ [][CompilerNext]_<<vars, compilation>>
  /\ WF_vars((Run \/ RunFails \/ ExecIR) /\ UNCHANGED compilation)

-----------------------------------------------------------------------------
\* The source has a meaning: it ends and nothing in it is undefined.
Defined == meaning.end = "go"

\* A source that has a meaning is accepted, and its translation does what the
\* source does: it prints what the source prints in the same order, returns what
\* main returns, and trips no assertion of the executor.
MeaningPreserved ==
  Defined =>
    /\ rejected = {}
    /\ status \in {"constructed", "running", "finished"}
    /\ IsPrefix(output, meaning.out)
    /\ status = "finished" => main_func_retval.n = meaning.result /\ output = meaning.out

\* A source that ends has a translation that ends.
Completes == <>(status = "finished" \/ ~Defined)

\* Every jump of the generated code lands on an instruction of its own function:
\* the offsets that were counted while code was still to come are right
\* (semantic.cpp:288-368, 420-532).
JumpsStayInside ==
  status = "constructed" =>
    \A f \in DOMAIN program.functions :
      LET body == program.functions[f].InstVec
      IN  \A k \in DOMAIN body :
            body[k].op = "goto" => k + body[k].des.lit \in DOMAIN body

\* The generated code keeps the discipline of IRTyping: a name has one type in a
\* function, and every operator gets operands of its type.
WellTypedCode == status = "constructed" => WellTyped(program)

-----------------------------------------------------------------------------
(* What comments and assertions of the code say; sources refute each.       *)

Temporaries == {"t" \o ToString(k) : k \in 0 .. 99}
\* "Whatever kind of number it is, it is put into a register, so that, if it is a
\* variable, nothing goes wrong with the variable's name" (semantic.cpp:432, 489,
\* 546, 585): an operator writes a temporary, never a variable of the source.
OperatorsWriteTemporaries ==
  status = "constructed" =>
    \A f \in DOMAIN program.functions :
      \A k \in DOMAIN program.functions[f].InstVec :
        LET i == program.functions[f].InstVec[k]
        IN  i.op \in IntOps \cup FloatOps => i.des.name \in Temporaries

\* "To deal the same name in different scopes, we change origin id to a new one
\* with scope infomation" (semantic.h:62): in a function no two declarations,
\* other than of temporaries, define the same name.
ScopesApart ==
  status = "constructed" =>
    \A f \in DOMAIN program.functions :
      LET body == program.functions[f].InstVec
          Declares(k) == body[k].op \in {"def", "fdef", "alloc"}
                           /\ body[k].des.name \notin Temporaries
      IN  \A j, k \in DOMAIN body :
            Declares(j) /\ Declares(k) /\ j # k => body[j].des.name # body[k].des.name

\* assert(cur_ctx->pc < cur_ctx->pfunc->InstVec.size()) (ir_executor.cpp:177):
\* there is an instruction to execute in a translated program.
InstructionThere == status = "running" => PcInRange
=============================================================================
