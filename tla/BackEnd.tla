------------------------------ MODULE BackEnd ------------------------------
(***************************************************************************)
(* The pipeline of main.cpp with -S, and what comes after it: the semantic *)
(* analyzer translates a syntax tree, the generator writes assembly, the   *)
(* machine runs it; beside them, what the source means.  (The set Programs *)
(* of the generator plays no part: the programs are those the analyzer     *)
(* makes.)                                                                 *)
(***************************************************************************)
EXTENDS RiscV

CONSTANTS Unit(_),   \* the k-th compilation unit to translate
          Units,     \* the numbers of the units
          Inputs,    \* what there may be to read
          LoopBound  \* the turns of loops and calls a source's meaning may take

VARIABLES source,    \* the number of the unit that was compiled
          rejected,  \* what made the analyzer fail on it
          meaning    \* what it means: how it ends, main's result, what it prints

compilation == <<source, rejected, meaning>>
all == <<translation, machine, compilation>>

Analysis  == INSTANCE SemanticAnalyzer
Semantics == INSTANCE SourceSemantics WITH MaxInt <- IntMax, Fuel <- LoopBound

MachineOff(input) ==
  /\ state = "off" /\ symtab = <<>> /\ pc = 0 /\ x = <<>> /\ f = <<>> /\ frm = 0
  /\ mem = <<>> /\ frames = <<>> /\ inp = input /\ out = <<>>

Compile(k, input) ==
  LET compiled == Analysis!get_ir_program(Unit(k))
  IN  /\ source = k
      /\ rejected = compiled.err
      /\ GeneratorOf(compiled.program)
      /\ MachineOff(input)
      /\ meaning = Semantics!Meaning(Unit(k), input)

BackEndInit == \E k \in Units, input \in Inputs : Compile(k, input)

Translating == Translate /\ UNCHANGED <<machine, compilation>>
Executing   == (Boot \/ Step) /\ UNCHANGED <<translation, compilation>>
Stopped     == state \notin {"off", "running"} /\ UNCHANGED all
BackEndNext == Translating \/ Executing \/ Stopped
BackEndSpec == BackEndInit /\ [][BackEndNext]_all /\ WF_all(Translating) /\ WF_all(Executing)

-----------------------------------------------------------------------------
\* The source has a meaning: it ends and nothing in it is undefined.
Defined == meaning.end = "go"

\* The assembly of a source that has a meaning builds, never depends on a word that
\* nobody has written or that holds another kind of number, never leaves its
\* memory, prints what the source prints in the same order and returns what main
\* returns (the whole of generator.cpp).
MachineMeans ==
  Defined =>
    /\ rejected = {}
    /\ state \in {"off", "running", "halted"}
    /\ IsPrefix(out, meaning.out)
    /\ state = "halted" => x.a0 = Num(meaning.result) /\ out = meaning.out

\* The assembly of a source that ends ends.
MachineHalts == <>(state = "halted" \/ ~Defined)

\* Where funcSolve saved ra and s0 the words are still there when the function
\* has a frame, whatever it and the functions it called have stored
\* (generator.cpp:139-152).
InBody(k) == k < Len(frames) /\ frames[k + 1].sp = Num(frames[k].sp.n - frame_size)
FramesKept ==
  state = "running" =>
    \A k \in DOMAIN frames :
      InBody(k) => /\ mem[frames[k].sp.n - 4] = frames[k].ret
                   /\ mem[frames[k].sp.n - 8] = frames[k].s0

\* A function gives control back to where it was called, with the caller's sp and
\* s0 (generator.cpp:166-178).
Returns == Len(frames') < Len(frames) =>
             /\ Num(pc') = Last(frames).ret
             /\ x'.sp = Last(frames).sp
             /\ x'.s0 = Last(frames).s0
ReturnsToCaller == [][state = "running" => Returns]_all

-----------------------------------------------------------------------------
(* What comments of the code say; sources refute each.                      *)

\* "return -1; // global" (generator.cpp:30): what is not in the map is a global,
\* so that -1 never gets into an instruction.
MinusOneIsGlobal == \A k \in DOMAIN fout : fout[k].rs1 = "s0" => fout[k].imm # -1

\* "For array arguments, the actual address has to be computed and passed, not
\* only the offset" (generator.cpp:548): the library gets places of the memory.
ArraysAsAddresses ==
  state = "running" /\ L.op = "call" /\ L.sym.name \in {"putarray", "putfarray"} =>
    IsPlace(x.a1.n)
=============================================================================
