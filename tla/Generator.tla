------------------------------ MODULE Generator ------------------------------
(***************************************************************************)
(* The back end (src/src/backend/generator.cpp): it translates an          *)
(* ir::Program to RISC-V assembly, one instruction of the IR after the     *)
(* other.  Every name a function uses gets a slot of its frame the first   *)
(* time it is written; every instruction gets a label.                     *)
(*                                                                         *)
(* Data.  A line of the output is a record and not a text; a label is a    *)
(* symbol and not a string.  A literal carries its number, a float counted *)
(* in halves.  The label of a float constant is its value: Floatnum<k> is  *)
(* one-to-one (getFloatConstantLabel).                                     *)
(***************************************************************************)
EXTENDS Integers, Sequences

CONSTANT Programs  \* the ir::Programs that may be translated

\* What an ir::Program is; the length of an array is no negative number.
Operands     == [name : STRING, type : STRING, lit : Int]
Instructions == [op : STRING, op1 : Operands, op2 : Operands, des : Operands,
                 args : Seq(Operands)]
IRFunctions  == [name : STRING, returnType : STRING, ParameterList : Seq(Operands),
                 InstVec : Seq(Instructions)]
IsAlloc(i)   == i.op = "alloc" /\ i.op1.type = "IntLiteral"
ASSUME ProgramsAssumption ==
  \A p \in Programs :
    /\ p.functions \in Seq(IRFunctions)
    /\ \A f \in DOMAIN p.functions : \A k \in DOMAIN p.functions[f].InstVec :
         IsAlloc(p.functions[f].InstVec[k]) => p.functions[f].InstVec[k].op1.lit >= 0

VARIABLES
  program,      \* Generator::program
  stage,        \* "data", "function", "params", "body", "args" or "done"
  func,         \* the function funcSolve is at: its index in program
  instr,        \* the loop of funcSolve: index in InstVec, from 1
  arg,          \* the loops of paramSolve and CallSolve, from 1
  varMap,       \* Generator::varMap, a stackVarMap
  arrays,       \* history: the elements AllocSolve set aside in this frame
  global_vars,  \* Generator::global_vars
  Instr_ID,     \* the number of the next label
  data,         \* the .data section: what it reserves or defines
  fout          \* the .text section: the lines so far

translation == <<program, stage, func, instr, arg, varMap, arrays, global_vars,
                 Instr_ID, data, fout>>

-----------------------------------------------------------------------------
(* Lines of assembly.                                                       *)

Symbol(kind, x, n) == [kind |-> kind, name |-> x, n |-> n]
NoSymbol     == Symbol("none", "", 0)
Data(x)      == Symbol("data", x, 0)     \* a global variable
FloatNum(h)  == Symbol("float", "", h)   \* Floatnum<k>
Entry(f)     == Symbol("func", f, 0)     \* <f>
Exit(f)      == Symbol("return", f, 0)   \* <f>_return
At(f, n)     == Symbol("at", f, n)       \* .<f>_<n>

Line(op, rd, rs1, rs2, imm, sym) ==
  [op |-> op, rd |-> rd, rs1 |-> rs1, rs2 |-> rs2, imm |-> imm, sym |-> sym]
Three(op, rd, a, b) == Line(op, rd, a, b, 0, NoSymbol)
Two(op, rd, a)      == Line(op, rd, a, "", 0, NoSymbol)
Imm(op, rd, a, k)   == Line(op, rd, a, "", k, NoSymbol)
Li(rd, k)           == Line("li", rd, "", "", k, NoSymbol)
Of(op, r, sym)      == Line(op, r, "", "", 0, sym)
Mark(sym)           == Of("label", "", sym)
\* lw, sw, flw, fsw: register r, k(base).
Mem(op, r, k, base) == Line(op, r, base, "", k, NoSymbol)

\* The registers of the first eight arguments; there is no ninth.
ArgRegs  == <<"a0", "a1", "a2", "a3", "a4", "a5", "a6", "a7">>
FArgRegs == <<"fa0", "fa1", "fa2", "fa3", "fa4", "fa5", "fa6", "fa7">>
NthOf(regs, i) == IF i \in DOMAIN regs THEN regs[i] ELSE "a register that is not there"

-----------------------------------------------------------------------------
(* stackVarMap.                                                             *)

\* Seeded bug: a frame for a dozen names.
SmallFrame == 120
frame_size == 1560

\* Seeded bug: the first slot is where s0 is saved.
FromTheTop  == [table |-> <<>>, offset |-> -8]
stackVarMap == [table |-> <<>>, offset |-> -56]

\* -1: a global, or nothing.
find_operand(m, o) == IF o.name \in DOMAIN m.table THEN m.table[o.name] ELSE -1

add_operand(m, o, size) ==
  IF o.name \in DOMAIN m.table THEN m
  ELSE [table  |-> [y \in DOMAIN m.table \cup {o.name} |->
                      IF y = o.name THEN m.offset ELSE m.table[y]],
        offset |-> m.offset - size]

Offset(o)   == find_operand(varMap, o)
IsGlobal(o) == o.name \in global_vars
Added(o)    == add_operand(varMap, o, 4)
\* The destination of most instructions: a slot, new if it has none yet, unless
\* it is a global.
Placed(o) == IF Offset(o) = -1 /\ IsGlobal(o) THEN varMap ELSE Added(o)

-----------------------------------------------------------------------------
(* getRs1, getRs2, getRd and their float counterparts: a value into a       *)
(* register, through the variable map m.                                    *)

Word(m, o, reg) ==
  CASE o.type = "IntLiteral" -> <<Li(reg, o.lit)>>
    [] o.type # "IntLiteral" /\ find_operand(m, o) # -1 ->
         <<Mem("lw", reg, find_operand(m, o), "s0")>>
    [] OTHER -> <<Of("lw", reg, Data(o.name))>>
\* A number that is no int is put behind li all the same.
getRs1(m, o) == IF o.type = "FloatLiteral"
                THEN <<Line("li", "t0", "", "", o.lit, FloatNum(o.lit))>> ELSE Word(m, o, "t0")
getRs2(m, o) == Word(m, o, "t1")
getRd(m, o)  == Word(m, o, "t2")

FromFloatNum(o, reg) == <<Of("la", "t4", FloatNum(o.lit)), Mem("flw", reg, 0, "t4")>>
FWord(m, o, reg) ==
  CASE o.type = "FloatLiteral" -> FromFloatNum(o, reg)
    [] o.type # "FloatLiteral" /\ find_operand(m, o) # -1 ->
         <<Mem("flw", reg, find_operand(m, o), "s0")>>
    [] OTHER -> <<Of("flw", reg, Data(o.name))>>
fgetRs1(m, o) == FWord(m, o, "ft5")
fgetRs2(m, o) == FWord(m, o, "ft6")
\* A global is not told apart here.
fgetRd(m, o) == IF o.type = "FloatLiteral" THEN FromFloatNum(o, "ft7")
                ELSE <<Mem("flw", "ft7", find_operand(m, o), "s0")>>

\* The result in register reg goes to o, whose slot is in m.
Keep(m, o, store, reg) ==
  IF o.name \in global_vars /\ find_operand(m, o) = -1
  THEN <<Of("la", "s3", Data(o.name)), Mem(store, reg, 0, "s3")>>
  ELSE <<Mem(store, reg, find_operand(m, o), "s0")>>

-----------------------------------------------------------------------------
(* gen(): the data section, then one function after the other.              *)

Func == program.functions[func]
Body == Func.InstVec
Inst == Body[instr]
InGlobal == Func.name = "_global"

\* The float literals of all functions but _global.
OperandsOf(i) == {i.op1, i.op2, i.des} \cup {i.args[k] : k \in DOMAIN i.args}
FloatConstants ==
  {o.lit : o \in {p \in UNION {UNION {OperandsOf(program.functions[f].InstVec[k]) :
                                        k \in DOMAIN program.functions[f].InstVec} :
                                 f \in {g \in DOMAIN program.functions :
                                          program.functions[g].name # "_global"}} :
                    p.type = "FloatLiteral"}}

Listed == {k \in DOMAIN program.globalVal : program.globalVal[k].val.type # "FloatLiteral"}
WordsOf(v) == IF v.maxlen = 0 THEN 1 ELSE v.maxlen
Reserved == {[sym |-> Data(program.globalVal[k].val.name), init |-> 0,
              words |-> WordsOf(program.globalVal[k])] : k \in Listed}

DataSection ==
  /\ stage = "data"
  /\ data' = {[sym |-> FloatNum(h), init |-> h, words |-> 1] : h \in FloatConstants}
               \cup Reserved
  /\ global_vars' = {program.globalVal[k].val.name : k \in Listed}
  /\ stage' = "function"
  /\ UNCHANGED <<program, func, instr, arg, varMap, arrays, Instr_ID, fout>>

Saved == <<"ra", "s0", "t1", "t2", "t3">>
Prologue ==
  <<Mark(Entry(Func.name)), Imm("addi", "sp", "sp", -frame_size)>>
    \o [k \in DOMAIN Saved |-> Mem("sw", Saved[k], frame_size - 4 * k, "sp")]
    \o <<Two("fmv.w.x", "ft0", "zero"), Imm("addi", "s0", "sp", frame_size)>>
\* Seeded bug: s0 is not restored.
EpilogueOfLeaf ==
  <<Mark(At(Func.name, Instr_ID)), Mark(Exit(Func.name))>>
    \o [k \in DOMAIN Saved |-> Mem("lw", IF Saved[k] = "s0" THEN "t1" ELSE Saved[k], frame_size - 4 * k, "sp")]
    \o <<Imm("addi", "sp", "sp", frame_size), Of("jr", "ra", NoSymbol)>>
Epilogue ==
  <<Mark(At(Func.name, Instr_ID)), Mark(Exit(Func.name))>>
    \o [k \in DOMAIN Saved |-> Mem("lw", Saved[k], frame_size - 4 * k, "sp")]
    \o <<Imm("addi", "sp", "sp", frame_size), Of("jr", "ra", NoSymbol)>>

FuncSolve ==
  /\ stage = "function" /\ func <= Len(program.functions)
  /\ varMap' = stackVarMap /\ arrays' = {}
  /\ fout' = fout \o Prologue
  /\ stage' = "params" /\ arg' = 1 /\ instr' = 1
  /\ UNCHANGED <<program, func, global_vars, Instr_ID, data>>

\* paramSolve.  An array parameter with the name of a global gets no slot.
Param == Func.ParameterList[arg]
Arrived ==
  CASE arg <= 8 /\ Param.type = "Float" ->
         <<Mem("fsw", NthOf(FArgRegs, arg), find_operand(Added(Param), Param), "s0")>>
    [] arg <= 8 /\ Param.type # "Float" ->
         <<Mem("sw", NthOf(ArgRegs, arg), find_operand(Added(Param), Param), "s0")>>
    [] OTHER -> <<Mem("lw", "t0", 4 * (arg - 1) - 32, "s0"),
                  Mem("sw", "t0", find_operand(Added(Param), Param), "s0")>>
ParamSolve ==
  /\ stage = "params" /\ arg <= Len(Func.ParameterList)
  /\ IF Param.type = "IntPtr" /\ IsGlobal(Param)
       THEN UNCHANGED <<varMap, fout>>
       ELSE varMap' = Added(Param) /\ fout' = fout \o Arrived
  /\ arg' = arg + 1
  /\ UNCHANGED <<program, stage, func, instr, arrays, global_vars, Instr_ID, data>>

ParamsDone ==
  /\ stage = "params" /\ arg > Len(Func.ParameterList)
  /\ stage' = "body"
  /\ UNCHANGED <<program, func, instr, arg, varMap, arrays, global_vars, Instr_ID,
                 data, fout>>

FuncEnd ==
  /\ stage = "body" /\ instr > Len(Body)
  /\ fout' = fout \o Epilogue
  /\ func' = func + 1 /\ stage' = "function"
  /\ UNCHANGED <<program, instr, arg, varMap, arrays, global_vars, Instr_ID, data>>

GenDone ==
  /\ stage = "function" /\ func > Len(program.functions)
  /\ stage' = "done"
  /\ UNCHANGED <<program, func, instr, arg, varMap, arrays, global_vars, Instr_ID,
                 data, fout>>

-----------------------------------------------------------------------------
(* InstrSolve: one action per kind of instruction.                          *)

\* What _global leaves out; what nothing is generated for.
Skipped == {"fmov", "fdef", "fmul", "fsub"}
NotImplemented == {"getptr", "fgtr", "fgeq", "fleq", "feq", "fneq", "addi", "subi",
                   "__unuse__"}

Solving(ops) ==
  /\ stage = "body" /\ instr <= Len(Body)
  /\ Inst.op \in ops
  /\ ~(InGlobal /\ Inst.op \in Skipped)

\* The label, the code, the next instruction.
Emit(code) ==
  /\ fout' = fout \o <<Mark(At(Func.name, Instr_ID))>> \o code
  /\ Instr_ID' = Instr_ID + 1
  /\ instr' = instr + 1
  /\ UNCHANGED <<program, stage, func, arg, data>>
Emitted(code) == Emit(code) /\ UNCHANGED <<varMap, arrays, global_vars>>
\* The code leaves its result in reg; it goes to des, which gets a slot.
EmitTo(code, store, reg) ==
  /\ varMap' = Placed(Inst.des)
  /\ Emit(code \o Keep(Placed(Inst.des), Inst.des, store, reg))
  /\ UNCHANGED <<arrays, global_vars>>

\* Two words in t0 and t1, the result in t2.  gtr and leq swap their operands.
Compare(op) ==
  CASE op = "add" -> <<Three("add", "t2", "t0", "t1")>>
    [] op = "sub" -> <<Three("sub", "t2", "t0", "t1")>>
    [] op = "mul" -> <<Three("mul", "t2", "t0", "t1")>>
    [] op = "div" -> <<Three("div", "t2", "t0", "t1")>>
    [] op = "mod" -> <<Three("rem", "t2", "t0", "t1")>>
    [] op = "eq"  -> <<Three("sub", "t2", "t0", "t1"), Imm("sltiu", "t2", "t2", 1)>>
    [] op = "neq" -> <<Three("sub", "t2", "t0", "t1"), Three("sltu", "t2", "zero", "t2")>>
    [] op \in {"lss", "gtr"} -> <<Three("slt", "t2", "t0", "t1")>>
    [] OTHER -> <<Three("slt", "t2", "t0", "t1"), Imm("xori", "t2", "t2", 1)>>
Swapped == {"gtr", "leq"}
Operand(k) == IF (k = 1) = (Inst.op \in Swapped) THEN Inst.op2 ELSE Inst.op1

FloatEq == /\ Inst.op = "eq"
           /\ Inst.op1.type \in {"FloatLiteral", "Float"} \/ Inst.op2.type = "FloatLiteral"

BinarySolve ==
  /\ Solving({"add", "sub", "mul", "div", "mod", "eq", "neq", "lss", "gtr", "leq", "geq"})
  /\ ~FloatEq
  /\ EmitTo(getRs1(varMap, Operand(1)) \o getRs2(varMap, Operand(2)) \o Compare(Inst.op),
            "sw", "t2")

\* A result that has no slot goes to -1(s0): AndSolve, OrSolve add none.
LogicSolve ==
  /\ Solving({"and", "or"})
  /\ Emitted(getRs1(varMap, Inst.op1) \o getRs2(varMap, Inst.op2)
       \o (IF Inst.op = "or" THEN <<Three("or", "t2", "t0", "t1")>>
           ELSE <<Two("snez", "t0", "t0"), Two("snez", "t1", "t1"),
                  Three("and", "t2", "t0", "t1")>>)
       \o Keep(varMap, Inst.des, "sw", "t2"))

SeqzSolve ==
  /\ Solving({"not"})
  /\ EmitTo(getRs1(varMap, Inst.op1) \o <<Two("seqz", "t2", "t0")>>, "sw", "t2")

MovSolve ==
  /\ Solving({"mov"})
  /\ EmitTo(getRs1(varMap, Inst.op1), "sw", "t0")

DefSolve ==
  /\ Solving({"def"}) /\ ~InGlobal
  /\ IF Inst.op1.type = "IntLiteral"
       THEN EmitTo(<<Li("t2", Inst.op1.lit)>>, "sw", "t2")
       ELSE EmitTo(getRs1(Placed(Inst.des), Inst.op1), "sw", "t0")

\* In _global every name is a global's; the source is looked for in the frame.
GlobalDefSolve ==
  /\ Solving({"def"}) /\ InGlobal
  /\ Emit(<<IF Inst.op1.type = "IntLiteral" THEN Li("s2", Inst.op1.lit)
            ELSE Mem("lw", "s2", Offset(Inst.op1), "s0"),
            Two("mv", "s1", "s2"), Of("la", "s3", Data(Inst.des.name)),
            Mem("sw", "s1", 0, "s3")>>)
  /\ global_vars' = global_vars \cup {Inst.des.name}
  /\ UNCHANGED <<varMap, arrays>>

\* A slot for the offset of the array, then its elements; the slot of a name
\* that had one is used again.  Only a literal is a length.
Size == IF Inst.op1.type = "IntLiteral" THEN Inst.op1.lit ELSE 0
\* Seeded bug: the elements end one word too high.
AllocOverSlot ==
  /\ Solving({"alloc"}) /\ ~InGlobal
  /\ varMap' = [Added(Inst.des) EXCEPT !.offset = @ - 4 * Size + 4]
  /\ arrays' = arrays \cup {[lo |-> Added(Inst.des).offset - 4 * Size + 8,
                             hi |-> Added(Inst.des).offset + 4]}
  /\ Emit(<<Li("t2", Added(Inst.des).offset - 4 * Size + 8),
            Mem("sw", "t2", find_operand(Added(Inst.des), Inst.des), "s0")>>)
  /\ UNCHANGED global_vars
AllocSolve ==
  /\ Solving({"alloc"}) /\ ~InGlobal
  /\ varMap' = [Added(Inst.des) EXCEPT !.offset = @ - 4 * Size]
  /\ arrays' = arrays \cup {[lo |-> Added(Inst.des).offset - 4 * Size + 4,
                             hi |-> Added(Inst.des).offset]}
  /\ Emit(<<Li("t2", Added(Inst.des).offset - 4 * Size + 4),
            Mem("sw", "t2", find_operand(Added(Inst.des), Inst.des), "s0")>>)
  /\ UNCHANGED global_vars

\* The address of element op2 of array op1 into t3: what the array's slot holds
\* counts from s0.
InFrame(m, o) == <<Mem("lw", "t4", find_operand(m, o), "s0"), Imm("slli", "t3", "t1", 2),
                   Three("add", "t3", "t4", "t3"), Three("add", "t3", "s0", "t3")>>
ElementOf(m, o) ==
  IF find_operand(m, o) # -1 THEN InFrame(m, o)
  ELSE <<Of("la", "t0", Data(o.name)), Imm("slli", "t3", "t1", 2),
         Three("add", "t3", "t0", "t3")>>

LoadSolve ==
  /\ Solving({"load"})
  /\ varMap' = Added(Inst.des)
  /\ Emit(getRs2(varMap, Inst.op2) \o ElementOf(Added(Inst.des), Inst.op1)
            \o <<Mem("lw", "t2", 0, "t3"),
                 Mem("sw", "t2", find_operand(Added(Inst.des), Inst.des), "s0")>>)
  /\ UNCHANGED <<arrays, global_vars>>

\* A float is stored into an array of the frame whatever the array is.
StoreSolve ==
  /\ Solving({"store"})
  /\ IF Inst.des.type \notin {"Float", "FloatLiteral"}
       THEN Emitted(getRd(varMap, Inst.des) \o getRs2(varMap, Inst.op2)
                      \o ElementOf(varMap, Inst.op1) \o <<Mem("sw", "t2", 0, "t3")>>)
       ELSE Emitted(fgetRd(varMap, Inst.des) \o getRs2(varMap, Inst.op2)
                      \o InFrame(varMap, Inst.op1) \o <<Mem("fsw", "ft7", 0, "t3")>>)

\* The result of a float function is looked for in the frame.
ReturnSolve ==
  /\ Solving({"return"})
  /\ Emitted((CASE Inst.op1.type = "null" -> <<>>
                [] Inst.op1.type \in {"Int", "IntLiteral"} -> Word(varMap, Inst.op1, "a0")
                [] OTHER -> <<Mem("flw", "fa0", Offset(Inst.op1), "s0")>>)
             \o <<Of("j", "", Exit(Func.name))>>)

\* Seeded bug: instructions are counted in the function.
TargetInFunction(k) == At(Func.name, instr + k - 1)
\* Seeded bug: it counts from the next instruction.
TargetAfter(k) == At(Func.name, Instr_ID + 1 + k)
\* The offset counts from this instruction, whose number is already used up.
Target(k) == At(Func.name, Instr_ID + 1 + k - 1)
GotoSolve ==
  /\ Solving({"goto"})
  /\ IF Inst.op1.type \in {"null", "FloatLiteral"}
       THEN Emitted(<<Of("j", "", Target(Inst.des.lit))>>)
       ELSE Emitted(getRs1(varMap, Inst.op1) \o <<Of("bnez", "t0", Target(Inst.des.lit))>>)

-----------------------------------------------------------------------------
(* CallSolve: the arguments one after the other, the call, the result.      *)

\* An array of ints is passed as its offset from the callee's s0; an array of
\* floats and a global array as an address.
Passed(o, reg, freg) ==
  CASE o.type = "FloatLiteral" ->
         <<Of("la", "t4", FloatNum(o.lit)), Mem("flw", freg, 0, "t4")>>
    [] o.type = "Float"    -> <<Mem("flw", freg, Offset(o), "s0")>>
    [] o.type = "FloatPtr" -> <<Mem("lw", "t4", Offset(o), "s0"), Three("add", reg, "t4", "s0")>>
    [] o.type = "IntPtr" /\ Offset(o) # -1 ->
         <<Mem("lw", "t3", Offset(o), "s0"), Imm("addi", reg, "t3", frame_size)>>
    [] o.type = "IntPtr" /\ Offset(o) = -1 -> <<Of("la", reg, Data(o.name))>>
    [] OTHER -> Word(varMap, o, reg)
\* Seeded bug: the first of them lies where the second is looked for.
OnStackHigher(i, o) == getRs1(varMap, o) \o <<Mem("sw", "t0", 4 * i - 32, "sp")>>
\* From the ninth on an int or an array is left above the caller's sp.
OnStack(i, o) == getRs1(varMap, o) \o <<Mem("sw", "t0", 4 * (i - 1) - 32, "sp")>>

CallStart ==
  /\ Solving({"call"})
  /\ fout' = Append(fout, Mark(At(Func.name, Instr_ID)))
  /\ Instr_ID' = Instr_ID + 1
  /\ stage' = "args" /\ arg' = 1
  /\ UNCHANGED <<program, func, instr, varMap, arrays, global_vars, data>>

CallArgument ==
  /\ stage = "args" /\ arg <= Len(Inst.args)
  /\ fout' = fout \o
       (IF arg <= 8 \/ Inst.args[arg].type \in {"FloatLiteral", "Float", "FloatPtr"}
        THEN Passed(Inst.args[arg], NthOf(ArgRegs, arg), NthOf(FArgRegs, arg))
        ELSE OnStack(arg, Inst.args[arg]))
  /\ arg' = arg + 1
  /\ UNCHANGED <<program, stage, func, instr, varMap, arrays, global_vars, Instr_ID, data>>

\* The result has a slot even if it is a global's name.
CallEnd ==
  /\ stage = "args" /\ arg > Len(Inst.args)
  /\ varMap' = IF Inst.des.type = "null" THEN varMap ELSE Added(Inst.des)
  /\ fout' = fout \o <<Of("call", "ra", Entry(Inst.op1.name))>> \o
       (CASE Inst.des.type = "null" -> <<>>
          [] Inst.des.type = "Int" ->
               <<Mem("sw", "a0", find_operand(Added(Inst.des), Inst.des), "s0")>>
          [] OTHER -> <<Mem("fsw", "fa0", find_operand(Added(Inst.des), Inst.des), "s0")>>)
  /\ instr' = instr + 1 /\ stage' = "body"
  /\ UNCHANGED <<program, func, arg, arrays, global_vars, Instr_ID, data>>

-----------------------------------------------------------------------------
(* Floats.                                                                  *)

FloatOp == [fadd |-> "fadd.s", fsub |-> "fsub.s", fmul |-> "fmul.s", fdiv |-> "fdiv.s"]
FBinarySolve ==
  /\ Solving(DOMAIN FloatOp)
  /\ EmitTo(fgetRs1(varMap, Inst.op1) \o fgetRs2(varMap, Inst.op2)
              \o <<Three(FloatOp[Inst.op], "ft7", "ft5", "ft6")>>, "fsw", "ft7")

FMovSolve ==
  /\ Solving({"fmov"})
  /\ EmitTo(fgetRs1(varMap, Inst.op1), "fsw", "ft5")

\* A slot even for a global, and before the value is looked for.
FDefSolve ==
  /\ Solving({"fdef"})
  /\ varMap' = Added(Inst.des)
  /\ Emit(fgetRs1(Added(Inst.des), Inst.op1)
            \o <<Mem("fsw", "ft5", find_operand(Added(Inst.des), Inst.des), "s0")>>)
  /\ UNCHANGED <<arrays, global_vars>>

\* Into a local, conversions round downwards; into a global, as the machine does.
Rounding(code) ==
  IF Offset(Inst.des) = -1 /\ IsGlobal(Inst.des) THEN code
  ELSE <<Of("frcsr", "t5", NoSymbol), Imm("fsrmi", "", "", 2)>> \o code
         \o <<Of("fscsr", "t5", NoSymbol)>>
CvtI2FSolve ==
  /\ Solving({"cvt_i2f"})
  /\ EmitTo(getRs1(varMap, Inst.op1) \o Rounding(<<Two("fcvt.s.w", "ft7", "t0")>>),
            "fsw", "ft7")
CvtF2ISolve ==
  /\ Solving({"cvt_f2i"})
  /\ EmitTo(fgetRs1(varMap, Inst.op1) \o Rounding(<<Two("fcvt.w.s", "t2", "ft5")>>),
            "sw", "t2")

\* No slot is added, and a global is not told apart.
FLssSolve ==
  /\ Solving({"flss"})
  /\ Emitted(fgetRs1(varMap, Inst.op1) \o fgetRs2(varMap, Inst.op2)
       \o <<Three("flt.s", "t2", "ft5", "ft6"), Mem("sw", "t2", Offset(Inst.des), "s0")>>)

\* Nothing but the label.
NoCode ==
  /\ stage = "body" /\ instr <= Len(Body)
  /\ \/ Inst.op \in NotImplemented
     \/ InGlobal /\ Inst.op \in Skipped \cup {"alloc"}
     \/ FloatEq
  /\ Emitted(<<>>)

InstrSolve ==
  \/ BinarySolve \/ LogicSolve \/ SeqzSolve \/ MovSolve \/ DefSolve \/ GlobalDefSolve
  \/ AllocSolve \/ LoadSolve \/ StoreSolve \/ ReturnSolve \/ GotoSolve
  \/ CallStart \/ CallArgument \/ CallEnd
  \/ FBinarySolve \/ FMovSolve \/ FDefSolve \/ CvtI2FSolve \/ CvtF2ISolve \/ FLssSolve
  \/ NoCode

Translate ==
  DataSection \/ FuncSolve \/ ParamSolve \/ ParamsDone \/ InstrSolve \/ FuncEnd \/ GenDone
Translated == stage = "done" /\ UNCHANGED translation
Gen == Translate \/ Translated

GeneratorOf(p) ==
  /\ program = p
  /\ stage = "data" /\ func = 1 /\ instr = 1 /\ arg = 1
  /\ varMap = stackVarMap /\ arrays = {} /\ global_vars = {} /\ Instr_ID = 0
  /\ data = {} /\ fout = <<>>
GenInit == \E p \in Programs : GeneratorOf(p)
GenSpec == GenInit /\ [][Gen]_translation /\ WF_translation(Translate)

-----------------------------------------------------------------------------
(* Properties.                                                              *)

\* A slot has one word; words are four bytes apart.
Slots == {varMap.table[x] : x \in DOMAIN varMap.table}

\* No two names of a function share a word of its frame, no element of an array
\* is a name's slot or an element of another array, and none reaches the words
\* where the registers were saved (generator.cpp:38, 1209-1222).
SlotsApart ==
  /\ \A x, y \in DOMAIN varMap.table :
       x # y => \/ varMap.table[x] + 4 <= varMap.table[y]
                \/ varMap.table[y] + 4 <= varMap.table[x]
  /\ \A a \in arrays : \A s \in Slots : s + 4 <= a.lo \/ a.hi + 4 <= s
  /\ \A a, b \in arrays : a # b => a.hi < b.lo \/ b.hi < a.lo
  /\ \A s \in Slots : s <= -56
  /\ \A a \in arrays : a.hi <= -56

\* Everything a function keeps lies above its sp (generator.cpp:7).
SlotsInFrame ==
  /\ \A s \in Slots : s >= -frame_size
  /\ \A a \in arrays : a.lo >= -frame_size

\* Every label that is jumped to is there when the translation is complete.
Labels == {fout[k].sym : k \in {j \in DOMAIN fout : fout[j].op = "label"}}
Jumps  == {k \in DOMAIN fout : fout[k].op \in {"j", "bnez"}}
JumpsLand == stage = "done" => \A k \in Jumps : fout[k].sym \in Labels
=============================================================================
