----------------------------- MODULE IRExecutor -----------------------------
(***************************************************************************)
(* The IR executor (src/src/tools/ir_executor.cpp): an interpreter of      *)
(* ir::Program with a map of globals, one Context per activation of a      *)
(* function, a stack of suspended contexts and a heap of arrays.           *)
(*                                                                         *)
(* Data.  A literal operand carries the number it denotes.  A float is     *)
(* counted in halves (1.5 is 3), so cvt_i2f doubles and cvt_f2i truncates. *)
(* An assertion that fails, and undefined behaviour, ends the execution    *)
(* with a status that names it.                                            *)
(***************************************************************************)
EXTENDS Integers, Sequences

CONSTANTS
  Programs,  \* the ir::Programs an Executor may be constructed on
  Inputs,    \* the token sequences its standard input may hold
  Names,     \* the identifiers that occur in the programs
  IntMax,    \* the largest int: 2^31 - 1 in the build, small in the runs
  Junk       \* what an int nobody wrote may hold (a subset of the ints)

VARIABLES
  program,           \* Executor::program
  status,            \* "constructed", "running", "finished" or what stopped it
  global_vars,       \* Executor::global_vars: name -> Value
  heap,              \* the arrays made by new[]; none is ever deleted
  contexts,          \* every Context made by new, in that order
  cur_ctx,           \* Executor::cur_ctx: index in contexts, 0 is nullptr
  cxt_stack,         \* Executor::cxt_stack, the top is the last element
  main_func_retval,  \* the local of run() main's return value goes to
  input, output      \* what is left to read; what has been printed

vars == <<program, status, global_vars, heap, contexts, cur_ctx, cxt_stack,
          main_func_retval, input, output>>

-----------------------------------------------------------------------------
(* Types of operands, values, programs.                                     *)

IntKinds   == {"Int", "IntLiteral"}
FloatKinds == {"Float", "FloatLiteral"}
Literals   == {"IntLiteral", "FloatLiteral"}
Pointers   == {"IntPtr", "FloatPtr"}
Types      == IntKinds \cup FloatKinds \cup Pointers \cup {"null"}

Operand == [name : Names, type : Types, lit : Int]
NoOperand == [name |-> "null", type |-> "null", lit |-> 0]

\* Value: the tag t, the member of the union last written and what it holds;
\* a pointer is an offset n in block b of the heap.
Cell == [t : Types, m : {"ival", "fval", "iptr", "fptr"}, n : Int, b : Nat]
IntCell(k)   == [t |-> "Int", m |-> "ival", n |-> k, b |-> 0]
FloatCell(k) == [t |-> "Float", m |-> "fval", n |-> k, b |-> 0]
ZeroCell(ty) == [t |-> ty, m |-> "ival", n |-> 0, b |-> 0]
MemberOf(ty) == CASE ty \in IntKinds -> "ival" [] ty \in FloatKinds -> "fval"
                  [] ty = "IntPtr" -> "iptr"   [] OTHER -> "fptr"

IntOps   == {"add", "sub", "mul", "div", "mod", "lss", "leq", "gtr", "geq",
             "eq", "neq", "and", "or"}
FloatOps == {"fadd", "fsub", "fmul", "fdiv", "flss", "fleq", "fgtr", "fgeq",
             "feq", "fneq"}
Ops == {"return", "goto", "call", "alloc", "store", "load", "getptr", "mov",
        "def", "not", "fmov", "fdef", "cvt_i2f", "cvt_f2i", "addi", "subi",
        "__unuse__"} \cup IntOps \cup FloatOps

Instruction == [op : Ops, op1 : Operand, op2 : Operand, des : Operand,
                args : Seq(Operand)]
Function == [name : Names, returnType : Types, ParameterList : Seq(Operand),
             InstVec : Seq(Instruction)]
GlobalVal == [val : Operand, maxlen : Nat]
Program == [functions : Seq(Function), globalVal : Seq(GlobalVal)]

\* A definition of its own, for TLC to evaluate the constant once.
ProgramTable == Programs

ASSUME ProgramsAssumption == Programs \subseteq Program
ASSUME NamesAssumption    == "null" \in Names /\ "main" \in Names
ASSUME IntMaxAssumption   == IntMax \in Nat
ASSUME JunkAssumption     == Junk \subseteq (-IntMax - 1) .. IntMax /\ Junk # {}
ASSUME InputsAssumption   == Inputs \subseteq Seq((-IntMax - 1) .. IntMax)

\* What a Value* may point to: a named cell of the globals (scope 0) or of a
\* context, or the local of run().
Address == [scope : Int, name : Names]
NullAddr == [scope |-> -1, name |-> "null"]
MainRetAddr == [scope |-> -2, name |-> "null"]

\* A map from some of the names to Values.
Mem == UNION {[S -> Cell] : S \in SUBSET Names}
Context == [pc : Int, retval_addr : Address, mem : Mem, pfunc : Nat]

-----------------------------------------------------------------------------
(* Arithmetic of the build.                                                 *)

\* int arithmetic wraps at the width of an int.
Wrap(k) == ((k + IntMax + 1) % (2 * IntMax + 2)) - IntMax - 1
Abs(k)  == IF k < 0 THEN -k ELSE k
Sign(k) == IF k < 0 THEN -1 ELSE 1
\* C division truncates towards zero; the remainder has the dividend's sign.
CDiv(a, b) == Sign(a) * Sign(b) * (Abs(a) \div Abs(b))
CMod(a, b) == a - b * CDiv(a, b)
Bool(p) == IF p THEN 1 ELSE 0

IntResult(op, a, b) ==
  CASE op \in {"add", "addi"} -> Wrap(a + b)
    [] op \in {"sub", "subi"} -> Wrap(a - b)
    [] op = "mul" -> Wrap(a * b)
    [] op = "div" -> Wrap(CDiv(a, b))
    [] op = "mod" -> CMod(a, b)
    [] op = "lss" -> Bool(a < b)
    [] op = "leq" -> Bool(a <= b)
    [] op = "gtr" -> Bool(a > b)
    [] op = "geq" -> Bool(a >= b)
    [] op = "eq"  -> Bool(a = b)
    [] op = "neq" -> Bool(a # b)
    [] op = "and" -> Bool(a # 0 /\ b # 0)
    [] op = "or"  -> Bool(a # 0 \/ b # 0)

\* The comparisons of two floats leave 0.0 or 1.0 in a float.
FloatResult(op, a, b) ==
  CASE op = "fadd" -> a + b
    [] op = "fsub" -> a - b
    [] op = "fmul" -> CDiv(a * b, 2)
    [] op = "fdiv" -> CDiv(2 * a, b)
    [] op = "flss" -> 2 * Bool(a < b)
    [] op = "fleq" -> 2 * Bool(a <= b)
    [] op = "fgtr" -> 2 * Bool(a > b)
    [] op = "fgeq" -> 2 * Bool(a >= b)
    [] op = "feq"  -> 2 * Bool(a = b)
    [] op = "fneq" -> 2 * Bool(a # b)

-----------------------------------------------------------------------------
(* The current context, its instruction, and the operands of it.            *)

Cur  == contexts[cur_ctx]
Body == program.functions[Cur.pfunc].InstVec
\* pc is a uint32_t: a negative sum wraps far above every body's length, so it
\* is out of range here exactly when it is there.
PcInRange == Cur.pc \in 0 .. (Len(Body) - 1)
Inst == Body[Cur.pc + 1]

Insert(f, x, c) == [y \in DOMAIN f \cup {x} |-> IF y = x THEN c ELSE f[y]]
Created(op) == IF op.name \in DOMAIN Cur.mem \cup DOMAIN global_vars
               THEN Cur.mem ELSE Insert(Cur.mem, op.name, ZeroCell(op.type))

\* Most cases call get_des_operand, which may create the destination, before
\* they look the sources up; the others read first.
DesFirst == {"mov", "def", "not", "fmov", "fdef", "cvt_i2f", "cvt_f2i"}
EvalMem == IF Inst.op \in DesFirst THEN Created(Inst.des) ELSE Cur.mem

\* find_src_operand, in the context's memory mem.
Visible(mem, op) == op.name \in DOMAIN mem \cup DOMAIN global_vars
Lookup(mem, op) == IF op.name \in DOMAIN mem THEN mem[op.name]
                                             ELSE global_vars[op.name]
SrcIn(mem, op) == CASE op.type = "IntLiteral"   -> IntCell(Wrap(op.lit))
                    [] op.type = "FloatLiteral" -> FloatCell(op.lit)
                    [] OTHER                    -> Lookup(mem, op)
Src(op) == SrcIn(EvalMem, op)

FindFaults(mem, op) ==
  IF op.type \in Literals THEN {}
  ELSE IF ~Visible(mem, op) THEN {"not_found"}
  ELSE IF Lookup(mem, op).t # op.type THEN {"type_mismatch"}
  ELSE {}

\* Reading a member of the union that was not the one last written; all the
\* members of a zero are zero.
Punned(c, m) == c.m # m /\ ~(c.n = 0 /\ c.b = 0)

\* What stops the code from reading op as one of kinds.
ReadFaults(op, kinds) ==
  IF op.type \notin kinds THEN {"operand_type"}
  ELSE IF FindFaults(EvalMem, op) # {} THEN FindFaults(EvalMem, op)
  ELSE IF Punned(Src(op), MemberOf(op.type)) THEN {"punned"}
  ELSE {}

InBlock(c, i) == c.b \in DOMAIN heap /\ c.n + i \in DOMAIN heap[c.b]

-----------------------------------------------------------------------------
(* Calls: the callee of a CallInst and the library.                         *)

LibReturnType ==
  [f \in {"getint", "getch", "getarray", "getfarray"} |-> "Int"]
LibVoid == {"putint", "putch", "putfloat", "putarray", "putfarray"}
LibFuncs == DOMAIN LibReturnType \cup LibVoid \cup {"getfloat"}

FunctionsNamed(fn) ==
  {i \in DOMAIN program.functions : program.functions[i].name = fn}
\* run() takes the first main, a call the last function of the name.
FirstMain == CHOOSE i \in FunctionsNamed("main") :
               \A j \in FunctionsNamed("main") : i <= j
Callee == CHOOSE i \in FunctionsNamed(Inst.op1.name) :
               \A j \in FunctionsNamed(Inst.op1.name) : j <= i
CalleeFunc == program.functions[Callee]
Params == CalleeFunc.ParameterList

\* The result's cell is looked up, or created, before the arguments are read.
CallerMem == IF CalleeFunc.returnType = "null" THEN Cur.mem ELSE Created(Inst.des)
\* Seeded bug: every result goes to a cell of the first context.
ResultInMain ==
  IF CalleeFunc.returnType = "null" THEN NullAddr
  ELSE [scope |-> IF Inst.des.name \in DOMAIN CallerMem THEN 1 ELSE 0,
        name  |-> Inst.des.name]
ResultAddr ==
  IF CalleeFunc.returnType = "null" THEN NullAddr
  ELSE [scope |-> IF Inst.des.name \in DOMAIN CallerMem THEN cur_ctx ELSE 0,
        name  |-> Inst.des.name]

\* map::insert keeps the first of two entries of one name.
ParamNames == {Params[i].name : i \in DOMAIN Params}
ParamIndex(x) == CHOOSE i \in DOMAIN Params :
                   /\ Params[i].name = x
                   /\ \A j \in DOMAIN Params : Params[j].name = x => i <= j
ParamMem == [x \in ParamNames |-> SrcIn(CallerMem, Inst.args[ParamIndex(x)])]

ValueType(ty) == CASE ty = "IntLiteral" -> "Int" [] ty = "FloatLiteral" -> "Float"
                   [] OTHER -> ty

UserCallFaults ==
  IF FunctionsNamed(Inst.op1.name) = {} THEN {"null_function"}
  ELSE IF CalleeFunc.returnType # "null" /\ Inst.des.type # CalleeFunc.returnType
    THEN {"return_type"}
  ELSE IF Len(Inst.args) < Len(Params) THEN {"argument_count"}
  ELSE UNION {IF Params[i].type # ValueType(Inst.args[i].type)
              THEN {"argument_type"} ELSE FindFaults(CallerMem, Inst.args[i]) :
                i \in DOMAIN Params}

\* The argument types exec_lib_function insists on.
LibArgTypes ==
  [getint |-> <<>>, getch |-> <<>>, getfloat |-> <<>>, getarray |-> <<"IntPtr">>,
   getfarray |-> <<"FloatPtr">>, putint |-> <<"Int">>, putch |-> <<"Int">>,
   putfloat |-> <<"Float">>, putarray |-> <<"Int", "IntPtr">>,
   putfarray |-> <<"Int", "FloatPtr">>]
LibResultType(fn) == CASE fn \in LibVoid -> "null" [] fn = "getfloat" -> "Float"
                       [] OTHER -> LibReturnType[fn]

LibArgFaults(i, ty) ==
  IF i > Len(Inst.args) THEN {"argument_count"}
  ELSE IF FindFaults(Cur.mem, Inst.args[i]) # {} THEN FindFaults(Cur.mem, Inst.args[i])
  ELSE IF Src(Inst.args[i]).t # ty THEN {"argument_type"}
  ELSE IF Punned(Src(Inst.args[i]), MemberOf(ty)) THEN {"punned"}
  ELSE {}

LibFaults(fn) ==
  IF LibResultType(fn) # Inst.des.type THEN {"lib_signature"}
  ELSE UNION {LibArgFaults(i, LibArgTypes[fn][i]) : i \in DOMAIN LibArgTypes[fn]}

\* getarray stores the tokens that are there, at most as many as announced.
Announced == IF input = <<>> THEN 0 ELSE Head(input)
Stored == IF Announced < Len(input) THEN Announced ELSE Len(input) - 1

LibMemoryFaults(fn) ==
  LET last == IF fn \in {"putarray", "putfarray"} THEN Src(Inst.args[1]).n ELSE Stored
      arr  == Src(Inst.args[Len(Inst.args)])
  IN  IF fn \in {"putarray", "putfarray", "getarray", "getfarray"}
         /\ \E i \in 0 .. (last - 1) : ~InBlock(arr, i)
      THEN {"bad_memory"} ELSE {}

-----------------------------------------------------------------------------
(* What stops the current instruction: a failed assertion or undefined      *)
(* behaviour.  {} when the instruction completes.                           *)

DesIs(kinds) == IF Inst.des.type \in kinds THEN {} ELSE {"operand_type"}

\* store and load: op1 is a pointer to elements of the kind of des.
AccessFaults ==
  LET kinds == IF Inst.op1.type = "IntPtr" THEN IntKinds ELSE FloatKinds
      reads == ReadFaults(Inst.op2, IntKinds) \cup ReadFaults(Inst.op1, Pointers)
                 \cup (IF Inst.op = "store" THEN ReadFaults(Inst.des, kinds)
                                            ELSE DesIs(kinds))
  IN  IF reads # {} THEN reads
      ELSE IF InBlock(Src(Inst.op1), Src(Inst.op2).n) THEN {} ELSE {"bad_memory"}

ReturnFaults ==
  IF Cur.retval_addr = NullAddr THEN {}
  ELSE IF Inst.op1.type \notin IntKinds \cup FloatKinds THEN {"operand_type"}
  ELSE FindFaults(Cur.mem, Inst.op1)

CallFaults ==
  IF Inst.op1.name \notin LibFuncs THEN UserCallFaults
  ELSE IF LibFaults(Inst.op1.name) # {} THEN LibFaults(Inst.op1.name)
  ELSE LibMemoryFaults(Inst.op1.name)

\* sz < 0 makes new[] throw.
AllocFaults ==
  DesIs(Pointers) \cup
    (IF ReadFaults(Inst.op1, IntKinds) # {} THEN ReadFaults(Inst.op1, IntKinds)
     ELSE IF Src(Inst.op1).n < 0 THEN {"bad_memory"} ELSE {})

BinaryFaults(kinds, des) ==
  LET reads == ReadFaults(Inst.op1, kinds) \cup ReadFaults(Inst.op2, kinds)
                 \cup DesIs({des})
  IN  IF reads # {} THEN reads
      ELSE IF Inst.op \in {"div", "mod", "fdiv"} /\ Src(Inst.op2).n = 0
        THEN {"division"} ELSE {}

Faults ==
  CASE Inst.op = "return" -> ReturnFaults
    [] Inst.op = "goto" ->
         ReadFaults(Inst.des, IntKinds) \cup
           (IF Inst.op1.type = "null" THEN {} ELSE FindFaults(Cur.mem, Inst.op1))
    [] Inst.op = "call"  -> CallFaults
    [] Inst.op = "alloc" -> AllocFaults
    [] Inst.op \in {"store", "load"} -> AccessFaults
    [] Inst.op = "getptr" ->
         ReadFaults(Inst.op2, IntKinds) \cup ReadFaults(Inst.op1, Pointers)
           \cup DesIs({Inst.op1.type})
    [] Inst.op \in {"mov", "def"} -> DesIs(IntKinds) \cup ReadFaults(Inst.op1, IntKinds)
    [] Inst.op \in {"not"} -> DesIs({"Int"}) \cup ReadFaults(Inst.op1, IntKinds)
    [] Inst.op \in {"fmov", "fdef"} ->
         DesIs({"Float"}) \cup ReadFaults(Inst.op1, FloatKinds)
    [] Inst.op = "cvt_i2f" -> DesIs({"Float"}) \cup ReadFaults(Inst.op1, IntKinds)
    [] Inst.op = "cvt_f2i" -> DesIs({"Int"}) \cup ReadFaults(Inst.op1, FloatKinds)
    [] Inst.op \in IntOps -> BinaryFaults(IntKinds, "Int")
    [] Inst.op \in FloatOps -> BinaryFaults(FloatKinds, "Float")
    [] Inst.op \in {"addi", "subi"} ->
         ReadFaults(Inst.op1, {"Int"}) \cup
           (IF Inst.op2.type = "IntLiteral" THEN {} ELSE {"operand_type"})
    [] OTHER -> {}

FaultNames == {"operand_type", "not_found", "type_mismatch", "punned", "bad_memory",
               "division", "null_function", "return_type", "argument_count",
               "argument_type", "lib_signature", "pc_out_of_range", "no_main",
               "global_type"}

-----------------------------------------------------------------------------
(* Executor::Executor, and run() up to its loop.                            *)

\* An Executor constructed on a program.
Executor(p) ==
  /\ program = p
  /\ status = "constructed"
  /\ global_vars = <<>> /\ heap = <<>> /\ contexts = <<>>
  /\ cur_ctx = 0 /\ cxt_stack = <<>>
  /\ main_func_retval = ZeroCell("null")
  /\ input \in Inputs /\ output = <<>>

Init == \E p \in ProgramTable : Executor(p)

Globals == program.globalVal
GlobalNames == {Globals[i].val.name : i \in DOMAIN Globals}
FirstEntry(x) == CHOOSE i \in DOMAIN Globals :
                   /\ Globals[i].val.name = x
                   /\ \A j \in DOMAIN Globals : Globals[j].val.name = x => i <= j
BadGlobals == \E i \in DOMAIN Globals :
                Globals[i].maxlen > 0 /\ Globals[i].val.type \notin Pointers
\* The i-th global owns block i, which is empty unless it is an array.
GlobalCell(i) ==
  IF Globals[i].maxlen = 0 THEN ZeroCell(Globals[i].val.type)
  ELSE [t |-> Globals[i].val.type, m |-> MemberOf(Globals[i].val.type), n |-> 0, b |-> i]

Run ==
  /\ status = "constructed"
  /\ ~BadGlobals /\ FunctionsNamed("main") # {}
  /\ status' = "running"
  /\ global_vars' = [x \in GlobalNames |-> GlobalCell(FirstEntry(x))]
  /\ heap' = [i \in DOMAIN Globals |-> [k \in 0 .. (Globals[i].maxlen - 1) |-> 0]]
  /\ contexts' = << [pc |-> 0, retval_addr |-> MainRetAddr, mem |-> <<>>,
                     pfunc |-> FirstMain] >>
  /\ cur_ctx' = 1
  /\ cxt_stack' = <<1>>          \* main's context is current and on the stack
  /\ UNCHANGED <<program, main_func_retval, input, output>>

RunFails ==
  /\ status = "constructed"
  /\ \/ BadGlobals /\ status' = "global_type"
     \/ ~BadGlobals /\ FunctionsNamed("main") = {} /\ status' = "no_main"
  /\ UNCHANGED <<program, global_vars, heap, contexts, cur_ctx, cxt_stack,
                 main_func_retval, input, output>>

-----------------------------------------------------------------------------
(* exec_ir(1): one disjunct per case of the switch.                         *)

Executing(ops) ==
  status = "running" /\ PcInRange /\ Inst.op \in ops /\ Faults = {}

Stop ==
  /\ status = "running"
  /\ \/ ~PcInRange /\ status' = "pc_out_of_range"
     \/ PcInRange /\ status' \in Faults
  /\ UNCHANGED <<program, global_vars, heap, contexts, cur_ctx, cxt_stack,
                 main_func_retval, input, output>>

\* *p = c, p pointing to one of the globals, of the contexts' cells, or to the
\* local of run().
WriteThrough(p, c) ==
  /\ global_vars' = IF p.scope = 0 THEN Insert(global_vars, p.name, c) ELSE global_vars
  /\ contexts' = IF p.scope \in DOMAIN contexts
                 THEN [contexts EXCEPT ![p.scope].mem = Insert(@, p.name, c)]
                 ELSE contexts
  /\ main_func_retval' = IF p = MainRetAddr THEN c ELSE main_func_retval

\* Seeded bugs: return leaves the stack as it is; moves past itself; goes on
\* after the last one.
ReturnWithoutPop ==
  /\ Executing({"return"})
  /\ IF Cur.retval_addr = NullAddr
       THEN UNCHANGED <<global_vars, contexts, main_func_retval>>
       ELSE WriteThrough(Cur.retval_addr, Src(Inst.op1))
  /\ cxt_stack # <<>> /\ cur_ctx' = cxt_stack[Len(cxt_stack)]
  /\ UNCHANGED <<cxt_stack, status, program, heap, input, output>>
ReturnAdvances ==
  /\ Executing({"return"})
  /\ contexts' = [contexts EXCEPT ![cur_ctx].pc = @ + 1]
  /\ IF cxt_stack # <<>>
       THEN /\ cur_ctx' = cxt_stack[Len(cxt_stack)]
            /\ cxt_stack' = SubSeq(cxt_stack, 1, Len(cxt_stack) - 1)
            /\ UNCHANGED status
       ELSE cur_ctx' = 0 /\ status' = "finished" /\ UNCHANGED cxt_stack
  /\ UNCHANGED <<program, global_vars, main_func_retval, heap, input, output>>
ReturnGoesOn ==
  /\ Executing({"return"})
  /\ cur_ctx' = IF cxt_stack # <<>> THEN cxt_stack[Len(cxt_stack)] ELSE 0
  /\ cxt_stack' = IF cxt_stack # <<>> THEN SubSeq(cxt_stack, 1, Len(cxt_stack) - 1)
                                     ELSE cxt_stack
  /\ UNCHANGED <<program, status, global_vars, contexts, main_func_retval, heap,
                 input, output>>
Return ==
  /\ Executing({"return"})
  /\ IF Cur.retval_addr = NullAddr
       THEN UNCHANGED <<global_vars, contexts, main_func_retval>>
       ELSE WriteThrough(Cur.retval_addr, Src(Inst.op1))
  /\ IF cxt_stack # <<>>
       THEN /\ cur_ctx' = cxt_stack[Len(cxt_stack)]
            /\ cxt_stack' = SubSeq(cxt_stack, 1, Len(cxt_stack) - 1)
            /\ UNCHANGED status
       ELSE cur_ctx' = 0 /\ status' = "finished" /\ UNCHANGED cxt_stack
  /\ UNCHANGED <<program, heap, input, output>>

\* Seeded bugs: the condition is inverted; a jump not taken stays where it is.
TakenOnZero == Inst.op1.type = "null" \/ Src(Inst.op1).n = 0
Taken == Inst.op1.type = "null" \/ Src(Inst.op1).n # 0

GotoStays ==
  /\ Executing({"goto"})
  /\ contexts' = [contexts EXCEPT ![cur_ctx].pc =
                    @ + (IF Taken THEN Src(Inst.des).n ELSE 0)]
  /\ UNCHANGED <<program, status, global_vars, heap, cur_ctx, cxt_stack,
                 main_func_retval, input, output>>
Goto ==
  /\ Executing({"goto"})
  /\ contexts' = [contexts EXCEPT ![cur_ctx].pc =
                    @ + (IF Taken THEN Src(Inst.des).n ELSE 1)]
  /\ UNCHANGED <<program, status, global_vars, heap, cur_ctx, cxt_stack,
                 main_func_retval, input, output>>

\* The default increment of pc, with the context's memory as given.
Advance(mem) ==
  contexts' = [contexts EXCEPT ![cur_ctx].pc = @ + 1, ![cur_ctx].mem = mem]

\* *get_des_operand(des) = c, then pc++.
Put(des, c) ==
  IF des.name \in DOMAIN global_vars \ DOMAIN Cur.mem
  THEN Advance(Cur.mem) /\ global_vars' = Insert(global_vars, des.name, c)
  ELSE Advance(Insert(Cur.mem, des.name, c)) /\ UNCHANGED global_vars

\* get_des_operand(des)->_val.m = n: an existing Value keeps its tag.
PutMember(m, k, b) ==
  Put(Inst.des, [t |-> Lookup(Created(Inst.des), Inst.des).t, m |-> m, n |-> k, b |-> b])

LocalFrame == UNCHANGED <<program, status, cur_ctx, cxt_stack, main_func_retval>>

Move ==
  /\ Executing({"mov", "def", "fmov", "fdef"})
  /\ Put(Inst.des, Src(Inst.op1))
  /\ LocalFrame /\ UNCHANGED <<heap, input, output>>

Convert ==
  /\ Executing({"not", "cvt_i2f", "cvt_f2i"})
  /\ LET v == Src(Inst.op1).n IN
       CASE Inst.op = "not"     -> PutMember("ival", Bool(v = 0), 0)
         [] Inst.op = "cvt_i2f" -> PutMember("fval", 2 * v, 0)
         [] Inst.op = "cvt_f2i" -> PutMember("ival", Wrap(CDiv(v, 2)), 0)
  /\ LocalFrame /\ UNCHANGED <<heap, input, output>>

IntBinary ==
  /\ Executing(IntOps)
  /\ PutMember("ival", IntResult(Inst.op, Src(Inst.op1).n, Src(Inst.op2).n), 0)
  /\ LocalFrame /\ UNCHANGED <<heap, input, output>>

Immediate ==
  /\ Executing({"addi", "subi"})
  /\ PutMember("ival", IntResult(Inst.op, Src(Inst.op1).n, Inst.op2.lit), 0)
  /\ LocalFrame /\ UNCHANGED <<heap, input, output>>

FloatBinary ==
  /\ Executing(FloatOps)
  /\ PutMember("fval", FloatResult(Inst.op, Src(Inst.op1).n, Src(Inst.op2).n), 0)
  /\ LocalFrame /\ UNCHANGED <<heap, input, output>>

\* A new array, each time the instruction is executed; its elements are not
\* initialised.
Alloc ==
  /\ Executing({"alloc"})
  /\ \E j \in Junk :
       heap' = Append(heap, [k \in 0 .. (Src(Inst.op1).n - 1) |-> j])
  /\ PutMember(MemberOf(Inst.des.type), 0, Len(heap) + 1)
  /\ LocalFrame /\ UNCHANGED <<input, output>>

Element == LET p == Src(Inst.op1) IN <<p.b, p.n + Src(Inst.op2).n>>

Store ==
  /\ Executing({"store"})
  /\ heap' = [heap EXCEPT ![Element[1]][Element[2]] = Src(Inst.des).n]
  /\ Advance(Cur.mem)
  /\ LocalFrame /\ UNCHANGED <<global_vars, input, output>>

\* Seeded bug: an element of any array is loaded as an int.
LoadInt ==
  /\ Executing({"load"})
  /\ PutMember("ival", heap[Element[1]][Element[2]], 0)
  /\ LocalFrame /\ UNCHANGED <<heap, input, output>>
Load ==
  /\ Executing({"load"})
  /\ PutMember(MemberOf(Inst.des.type), heap[Element[1]][Element[2]], 0)
  /\ LocalFrame /\ UNCHANGED <<heap, input, output>>

GetPtr ==
  /\ Executing({"getptr"})
  /\ PutMember(MemberOf(Inst.des.type), Element[2], Element[1])
  /\ LocalFrame /\ UNCHANGED <<heap, input, output>>

Unused ==
  /\ Executing({"__unuse__"})
  /\ Advance(Cur.mem)
  /\ LocalFrame /\ UNCHANGED <<global_vars, heap, input, output>>

\* Seeded bugs: the caller is not moved past the call; it is not suspended.
CallAgain ==
  /\ Executing({"call"}) /\ Inst.op1.name \notin LibFuncs
  /\ contexts' = Append([contexts EXCEPT ![cur_ctx].mem = CallerMem],
                        [pc |-> 0, retval_addr |-> ResultAddr, mem |-> ParamMem,
                         pfunc |-> Callee])
  /\ cxt_stack' = Append(cxt_stack, cur_ctx)
  /\ cur_ctx' = Len(contexts) + 1
  /\ UNCHANGED <<program, status, global_vars, heap, main_func_retval, input, output>>
CallWithoutPush ==
  /\ Executing({"call"}) /\ Inst.op1.name \notin LibFuncs
  /\ contexts' = Append([contexts EXCEPT ![cur_ctx].pc = @ + 1,
                                         ![cur_ctx].mem = CallerMem],
                        [pc |-> 0, retval_addr |-> ResultAddr, mem |-> ParamMem,
                         pfunc |-> Callee])
  /\ cur_ctx' = Len(contexts) + 1
  /\ UNCHANGED <<program, status, global_vars, heap, main_func_retval, input, output,
                 cxt_stack>>
\* A call of a function of the program: the caller resumes after the call.
Call ==
  /\ Executing({"call"}) /\ Inst.op1.name \notin LibFuncs
  /\ contexts' = Append([contexts EXCEPT ![cur_ctx].pc = @ + 1,
                                         ![cur_ctx].mem = CallerMem],
                        [pc |-> 0, retval_addr |-> ResultAddr, mem |-> ParamMem,
                         pfunc |-> Callee])
  /\ cxt_stack' = Append(cxt_stack, cur_ctx)
  /\ cur_ctx' = Len(contexts) + 1
  /\ UNCHANGED <<program, status, global_vars, heap, main_func_retval, input, output>>

\* exec_lib_function: a value read, or what nobody wrote when input is used up.
Input == IF input = <<>> THEN Junk ELSE {Head(input)}
RestOf(s, k) == SubSeq(s, k + 1, Len(s))

CallGet ==
  /\ Executing({"call"}) /\ Inst.op1.name \in {"getint", "getch", "getfloat"}
  /\ \E k \in Input :
       Put(Inst.des, IF Inst.des.type = "Float" THEN FloatCell(k) ELSE IntCell(k))
  /\ input' = RestOf(input, 1)
  /\ LocalFrame /\ UNCHANGED <<heap, output>>

CallGetArray ==
  /\ Executing({"call"}) /\ Inst.op1.name \in {"getarray", "getfarray"}
  /\ LET p == Src(Inst.args[1]) IN
       heap' = IF Stored <= 0 THEN heap
               ELSE [heap EXCEPT ![p.b] =
                       [i \in DOMAIN @ |-> IF i \in p.n .. (p.n + Stored - 1)
                                           THEN input[i - p.n + 2] ELSE @[i]]]
  /\ \E k \in Input : Put(Inst.des, IntCell(k))
  /\ input' = RestOf(input, IF Stored <= 0 THEN 1 ELSE Stored + 1)
  /\ LocalFrame /\ UNCHANGED output

Printed ==
  LET first == Src(Inst.args[1]).n
      arr   == Src(Inst.args[2])
  IN  IF Inst.op1.name \in {"putarray", "putfarray"}
      THEN <<first>> \o [i \in 1 .. first |-> heap[arr.b][arr.n + i - 1]]
      ELSE <<first>>

CallPut ==
  /\ Executing({"call"}) /\ Inst.op1.name \in LibVoid
  /\ output' = Append(output, <<Inst.op1.name>> \o Printed)
  /\ Advance(Cur.mem)
  /\ LocalFrame /\ UNCHANGED <<global_vars, heap, input>>

ExecIR ==
  \/ Return \/ Goto \/ Call \/ CallGet \/ CallGetArray \/ CallPut
  \/ Alloc \/ Store \/ Load \/ GetPtr \/ Move \/ Convert
  \/ IntBinary \/ Immediate \/ FloatBinary \/ Unused \/ Stop

\* run() has returned, or the process has ended.
Ended == status \notin {"constructed", "running"} /\ UNCHANGED vars

Next == Run \/ RunFails \/ ExecIR \/ Ended

\* The loop of run() goes on as long as there is a current context.
Spec == Init /\ [][Next]_vars /\ WF_vars(Run \/ RunFails \/ ExecIR)

-----------------------------------------------------------------------------
(* Properties.                                                              *)

\* The activations still to be completed, oldest first: the suspended
\* contexts, then the current one.
Chain == Append(cxt_stack, cur_ctx)

\* Every variable of the executor has its type, and a running executor has a
\* current context (run() loops on it: ir_executor.cpp:168).
TypeOK ==
  /\ program \in ProgramTable
  /\ status \in {"constructed", "running", "finished"} \cup FaultNames
  /\ DOMAIN global_vars \subseteq Names
  /\ \A x \in DOMAIN global_vars : global_vars[x] \in Cell
  /\ \A i \in DOMAIN contexts :
       /\ contexts[i].pc \in Int
       /\ contexts[i].retval_addr \in Address
       /\ contexts[i].pfunc \in DOMAIN program.functions
       /\ DOMAIN contexts[i].mem \subseteq Names
       /\ \A x \in DOMAIN contexts[i].mem : contexts[i].mem[x] \in Cell
  /\ cur_ctx \in 0 .. Len(contexts)
  /\ cxt_stack \in Seq(1 .. Len(contexts))
  /\ main_func_retval \in Cell
  /\ \A b \in DOMAIN heap : \A i \in DOMAIN heap[b] : heap[b][i] \in Int
  /\ input \in Seq(Int)
  /\ status = "running" => cur_ctx # 0

\* run() pushes main's context before it makes it run (ir_executor.cpp:167), so
\* main is on the stack below itself.  Above it every context was made after
\* the one that waits for it: no context waits twice, none is entered again
\* after it has returned.
CallOrder ==
  status = "running" =>
    /\ Chain[1] = 1
    /\ Len(Chain) >= 2 => Chain[2] = 1
    /\ \A i \in 2 .. (Len(Chain) - 1) : Chain[i] < Chain[i + 1]

\* The call that context c is waiting for: its pc is already past it
\* (ir_executor.cpp:283).
AwaitedCall(c) == program.functions[contexts[c].pfunc].InstVec[contexts[c].pc]

\* A suspended context stands right after a call of the function that the next
\* context of the chain executes, and that context answers into the result cell
\* of this very call, in the caller or in the globals, and nowhere else.
CallerWaits ==
  status = "running" =>
    \A i \in 2 .. (Len(Chain) - 1) :
      LET caller == contexts[Chain[i]]
          callee == contexts[Chain[i + 1]]
      IN  /\ caller.pc \in DOMAIN program.functions[caller.pfunc].InstVec
          /\ AwaitedCall(Chain[i]).op = "call"
          /\ AwaitedCall(Chain[i]).op1.name = program.functions[callee.pfunc].name
          /\ \/ /\ callee.retval_addr = NullAddr
                /\ program.functions[callee.pfunc].returnType = "null"
             \/ /\ callee.retval_addr.name = AwaitedCall(Chain[i]).des.name
                /\ \/ /\ callee.retval_addr.scope = Chain[i]
                      /\ callee.retval_addr.name \in DOMAIN caller.mem
                   \/ /\ callee.retval_addr.scope = 0
                      /\ callee.retval_addr.name \in DOMAIN global_vars

\* main's return is executed twice: the first time it pops main itself, the
\* second time the stack is empty (ir_executor.cpp:204-211).  The second
\* execution ends the run, and changes neither the value run() returns nor
\* anything the program can see.
SecondReturnIsSilent ==
  [][status = "running" /\ cxt_stack = <<>> =>
       /\ status' = "finished"
       /\ UNCHANGED <<main_func_retval, global_vars, heap, input, output>>]_vars

\* A step changes the cells of the current context; those of its caller only by
\* answering it, in the one cell the call named; and no other context at all.
\* Nobody but the current context moves.
FrameIsolation ==
  [][\A c \in DOMAIN contexts \ {cur_ctx} :
       /\ contexts'[c].pc = contexts[c].pc
       /\ contexts'[c] # contexts[c] =>
            /\ cxt_stack # <<>> /\ c = cxt_stack[Len(cxt_stack)] /\ cur_ctx' = c
            /\ \A x \in DOMAIN contexts[c].mem :
                 x # Cur.retval_addr.name => contexts'[c].mem[x] = contexts[c].mem[x]]_vars

\* The executor ends: it returns main's value or stops with a diagnosis.
Terminates == <>(status \notin {"constructed", "running"})
=============================================================================
