---------------------------- MODULE TypingProofs ----------------------------
(***************************************************************************)
(* Proofs about the executor's types: a program that keeps the discipline  *)
(* of IRTyping trips no assertion about types.                             *)
(***************************************************************************)
EXTENDS IRExecutorProofs, IRTyping

-----------------------------------------------------------------------------
(* The inductive invariant.                                                 *)

\* The member of the union that holds c is that of its tag; all of them hold a
\* zero.
Sound(c) == c.m = MemberOf(c.t) \/ (c.n = 0 /\ c.b = 0)
OfType(c, ty) == c.t = ty /\ Sound(c)

\* Every cell of a frame of f has the type f mentions its name with.
MemTyped(f, mem) ==
  \A x \in DOMAIN mem :
    /\ Sound(mem[x])
    /\ \A o \in Mentioned(f) : o.name = x => mem[x].t = o.type

\* Every global has the type of an entry of its name, or what it is once a
\* definition has run, if the entry is that of a constant.
EntryOfType(x, types) ==
  \E k \in DOMAIN Globals : Globals[k].val.name = x /\ Globals[k].val.type \in types
GlobalsTyped ==
  \A x \in DOMAIN global_vars :
    /\ Sound(global_vars[x])
    /\ \E k \in DOMAIN Globals :
         /\ Globals[k].val.name = x
         /\ global_vars[x].t \in {Globals[k].val.type, ValueType(Globals[k].val.type)}

FuncAt(i) == program.functions[contexts[i].pfunc]

\* What context i returns has the type of the cell it answers into.
AnswerTyped(i) ==
  LET p == contexts[i].retval_addr
  IN  p # NullAddr =>
        /\ FuncAt(i).returnType \in {"Int", "Float"}
        /\ p.scope > 0 =>
             /\ p.scope \in DOMAIN contexts
             /\ \E o \in Mentioned(FuncAt(p.scope)) :
                  o.name = p.name /\ o.type = FuncAt(i).returnType
        /\ p.scope = 0 => EntryOfType(p.name, {FuncAt(i).returnType})

TypedState ==
  /\ GlobalsTyped
  /\ \A i \in DOMAIN contexts : MemTyped(FuncAt(i), contexts[i].mem)
  /\ \A i \in DOMAIN contexts : AnswerTyped(i)

TypedInv == WellTyped(program) => TypedState /\ status \notin TypeFaults

-----------------------------------------------------------------------------
(* The instruction and what the discipline says of it.                      *)

Func == program.functions[Cur.pfunc]

\* The executor is about to execute an instruction of a well-typed program.
AtInst == /\ TypeInv /\ WellTyped(program) /\ TypedState
          /\ status = "running" /\ PcInRange

LEMMA InstDisciplined ==
  ASSUME AtInst
  PROVE  /\ InstOK(program, Func, Inst)
         /\ OneTypePerName(program, Func)
         /\ Func.returnType \in {"null", "Int", "Float"}
         /\ Cur.pfunc \in DOMAIN program.functions
         /\ \E k \in DOMAIN Func.InstVec : Inst = Func.InstVec[k]
<1>1. /\ Cur.pfunc \in DOMAIN program.functions /\ Cur.pc + 1 \in DOMAIN Body
  BY CurType, InstType DEF AtInst
<1>2. Inst = Func.InstVec[Cur.pc + 1] /\ Cur.pc + 1 \in DOMAIN Func.InstVec
  BY <1>1 DEF Inst, Body, Func
<1>3. /\ Func.returnType \in {"null", "Int", "Float"} /\ OneTypePerName(program, Func)
      /\ \A i \in DOMAIN Func.InstVec : InstOK(program, Func, Func.InstVec[i])
  BY <1>1 DEF AtInst, WellTyped, Func
<1>4. QED
  BY <1>1, <1>2, <1>3

\* An operand the instruction may look up: a literal, or a name that is used.
Readable(o) ==
  /\ o.type # "null"
  /\ o.type \in Literals
       \/ (o \in Mentioned(Func) /\ ~OnlyDefined(Func, o.name))

LEMMA OperandsMentioned ==
  ASSUME AtInst, NEW o \in InstOperands(Inst), o.type \notin Literals \cup {"null"}
  PROVE  o \in Mentioned(Func)
<1>1. PICK k \in DOMAIN Func.InstVec : Inst = Func.InstVec[k]
  BY InstDisciplined
<1>2. o \in InstOperands(Func.InstVec[k])
  BY <1>1
<1>3. QED
  BY <1>2 DEF Mentioned

LEMMA SourcesReadable ==
  ASSUME AtInst,
         NEW o \in {Inst.op1, Inst.op2} \cup {Inst.args[j] : j \in DOMAIN Inst.args},
         o.type # "null"
  PROVE  Readable(o)
<1>1. PICK k \in DOMAIN Func.InstVec : Inst = Func.InstVec[k]
  BY InstDisciplined
<1>2. ~OnlyDefined(Func, o.name)
  BY <1>1 DEF OnlyDefined
<1>3. o.type \notin Literals => o \in Mentioned(Func)
  BY OperandsMentioned DEF InstOperands
<1>4. QED
  BY <1>2, <1>3 DEF Readable

LEMMA DestinationReadable ==
  ASSUME AtInst, Inst.op \notin {"def", "fdef"}, Inst.des.type # "null"
  PROVE  Readable(Inst.des)
<1>1. PICK k \in DOMAIN Func.InstVec : Inst = Func.InstVec[k]
  BY InstDisciplined
<1>2. ~OnlyDefined(Func, Inst.des.name)
  BY <1>1 DEF OnlyDefined
<1>3. Inst.des.type \notin Literals => Inst.des \in Mentioned(Func)
  BY OperandsMentioned DEF InstOperands
<1>4. QED
  BY <1>2, <1>3 DEF Readable

\* What a name refers to among the globals has the type it is mentioned with.
LEMMA GlobalFits ==
  ASSUME AtInst, NEW o \in Mentioned(Func), o.name \in DOMAIN global_vars
  PROVE  /\ EntryOfType(o.name, {o.type}) \/ OnlyDefined(Func, o.name)
         /\ \E k \in DOMAIN Globals :
              /\ Globals[k].val.name = o.name
              /\ o.type \in {Globals[k].val.type, ValueType(Globals[k].val.type)}
         /\ ~OnlyDefined(Func, o.name) => OfType(global_vars[o.name], o.type)
<1>1. /\ Sound(global_vars[o.name])
      /\ \E k \in DOMAIN Globals :
           /\ Globals[k].val.name = o.name
           /\ global_vars[o.name].t \in {Globals[k].val.type, ValueType(Globals[k].val.type)}
  BY DEF AtInst, TypedState, GlobalsTyped
<1>2. PICK k \in DOMAIN Globals :
        /\ Globals[k].val.name = o.name
        /\ global_vars[o.name].t \in {Globals[k].val.type, ValueType(Globals[k].val.type)}
  BY <1>1
<1>3. \/ Globals[k].val.type = o.type
      \/ /\ Globals[k].val.type \in Literals
         /\ ValueType(Globals[k].val.type) = o.type
         /\ OnlyDefined(Func, o.name)
  BY <1>2, InstDisciplined DEF OneTypePerName, Globals
<1>4. o.type \notin Literals => ValueType(o.type) = o.type
  BY DEF ValueType, Literals
<1>5. o.type \notin Literals
  BY DEF Mentioned
<1>6. QED
  BY <1>1, <1>2, <1>3, <1>4, <1>5 DEF EntryOfType, OfType

-----------------------------------------------------------------------------
(* Reading.                                                                 *)

LEMMA LiteralCells ==
  /\ \A k : OfType(IntCell(k), "Int") /\ OfType(FloatCell(k), "Float")
  /\ \A ty : OfType(ZeroCell(ty), ty)
  /\ \A ty : MemberOf(ValueType(ty)) = MemberOf(ty)
  BY DEF OfType, Sound, IntCell, FloatCell, ZeroCell, MemberOf, ValueType, IntKinds, FloatKinds

\* An operand in a typed memory is found with its type, if it is found.
LEMMA FoundTyped ==
  ASSUME AtInst, NEW mem, MemTyped(Func, mem), NEW o, Readable(o)
  PROVE  /\ FindFaults(mem, o) \subseteq {"not_found"}
         /\ FindFaults(mem, o) = {} => OfType(SrcIn(mem, o), ValueType(o.type))
<1>1. CASE o.type \in Literals
  <2>1. FindFaults(mem, o) = {}
    BY <1>1 DEF FindFaults
  <2>2. OfType(SrcIn(mem, o), ValueType(o.type))
    BY <1>1, LiteralCells DEF SrcIn, ValueType, Literals
  <2>3. QED
    BY <2>1, <2>2
<1>2. CASE o.type \notin Literals
  <2>1. o \in Mentioned(Func) /\ ~OnlyDefined(Func, o.name)
    BY <1>2 DEF Readable
  <2>2. Visible(mem, o) => OfType(Lookup(mem, o), o.type)
    BY <2>1, GlobalFits DEF Visible, Lookup, MemTyped, OfType
  <2>3. SrcIn(mem, o) = Lookup(mem, o) /\ ValueType(o.type) = o.type
    BY <1>2 DEF SrcIn, ValueType, Literals
  <2>4. QED
    BY <1>2, <2>2, <2>3 DEF FindFaults, OfType
<1>3. QED
  BY <1>1, <1>2

\* Writing a cell of the type that its name is mentioned with.
LEMMA WriteTyped ==
  ASSUME NEW f, OneTypePerName(program, f), NEW mem, MemTyped(f, mem),
         NEW o \in Mentioned(f), NEW c, OfType(c, o.type)
  PROVE  MemTyped(f, Insert(mem, o.name, c))
<1>1. \A q \in Mentioned(f) : q.name = o.name => q.type = o.type
  BY DEF OneTypePerName
<1>2. ASSUME NEW x \in DOMAIN Insert(mem, o.name, c)
      PROVE  /\ Sound(Insert(mem, o.name, c)[x])
             /\ \A q \in Mentioned(f) : q.name = x => Insert(mem, o.name, c)[x].t = q.type
  <2>1. CASE x = o.name
    <3>1. Insert(mem, o.name, c)[x] = c
      BY <1>2, <2>1 DEF Insert
    <3>2. QED
      BY <1>1, <2>1, <3>1 DEF OfType
  <2>2. CASE x # o.name
    <3>1. x \in DOMAIN mem /\ Insert(mem, o.name, c)[x] = mem[x]
      BY <1>2, <2>2 DEF Insert
    <3>2. QED
      BY <3>1 DEF MemTyped
  <2>3. QED
    BY <2>1, <2>2
<1>3. QED
  BY <1>2 DEF MemTyped

LEMMA InsertTyped ==
  ASSUME AtInst, NEW mem, MemTyped(Func, mem),
         NEW o \in Mentioned(Func), NEW c, OfType(c, o.type)
  PROVE  MemTyped(Func, Insert(mem, o.name, c))
  BY InstDisciplined, WriteTyped

LEMMA CurTyped ==
  ASSUME AtInst
  PROVE  MemTyped(Func, Cur.mem) /\ AnswerTyped(cur_ctx) /\ FuncAt(cur_ctx) = Func
<1>1. cur_ctx \in DOMAIN contexts
  BY CurType DEF AtInst
<1>2. QED
  BY <1>1 DEF AtInst, TypedState, Cur, Func, FuncAt

LEMMA CreatedTyped ==
  ASSUME AtInst, NEW o \in Mentioned(Func)
  PROVE  /\ MemTyped(Func, Created(o))
         /\ ~OnlyDefined(Func, o.name) => OfType(Lookup(Created(o), o), o.type)
<1>1. MemTyped(Func, Cur.mem)
  BY CurTyped
<1>2. CASE o.name \in DOMAIN Cur.mem \cup DOMAIN global_vars
  <2>1. Created(o) = Cur.mem
    BY <1>2 DEF Created
  <2>2. ~OnlyDefined(Func, o.name) => OfType(Lookup(Cur.mem, o), o.type)
    BY <1>1, <1>2, GlobalFits DEF Lookup, MemTyped, OfType
  <2>3. QED
    BY <1>1, <2>1, <2>2
<1>3. CASE o.name \notin DOMAIN Cur.mem \cup DOMAIN global_vars
  <2> DEFINE z == ZeroCell(o.type)
  <2>1. Created(o) = Insert(Cur.mem, o.name, z) /\ OfType(z, o.type)
    BY <1>3, LiteralCells DEF Created
  <2> HIDE DEF z
  <2>2. MemTyped(Func, Created(o))
    BY <1>1, <2>1, InsertTyped
  <2>3. Lookup(Created(o), o) = z
    BY <2>1 DEF Lookup, Insert
  <2>4. QED
    BY <2>1, <2>2, <2>3
<1>4. QED
  BY <1>2, <1>3

\* What the discipline says of the destination of each instruction that has one.
Writing == {"alloc", "load", "getptr", "mov", "def", "not", "fmov", "fdef", "cvt_i2f",
            "cvt_f2i", "addi", "subi"} \cup IntOps \cup FloatOps

LEMMA DestinationMentioned ==
  ASSUME AtInst, Inst.op \in Writing
  PROVE  /\ Inst.des \in Mentioned(Func)
         /\ Inst.op \notin {"def", "fdef"} => ~OnlyDefined(Func, Inst.des.name)
<1>1. Inst.des.type \notin Literals \cup {"null"}
  <2>1. InstOK(program, Func, Inst)
    BY InstDisciplined
  <2>2. QED
    BY <2>1 DEF InstOK, Writing, Literals, Pointers, IntKinds, FloatKinds, ElementKinds,
       IntOps, FloatOps
<1>2. Inst.des \in Mentioned(Func)
  BY <1>1, OperandsMentioned DEF InstOperands
<1>3. Inst.op \notin {"def", "fdef"} => Readable(Inst.des)
  BY <1>1, DestinationReadable
<1>4. QED
  BY <1>1, <1>2, <1>3 DEF Readable

LEMMA EvalMemTyped ==
  ASSUME AtInst
  PROVE  MemTyped(Func, EvalMem)
<1>1. CASE Inst.op \in DesFirst
  <2>1. Inst.des \in Mentioned(Func)
    BY <1>1, DestinationMentioned DEF Writing, DesFirst
  <2>2. QED
    BY <1>1, <2>1, CreatedTyped DEF EvalMem
<1>2. CASE Inst.op \notin DesFirst
  BY <1>2, CurTyped DEF EvalMem
<1>3. QED
  BY <1>1, <1>2

\* An operand of the right kind is read, unless there is nothing of its name.
LEMMA ReadTyped ==
  ASSUME AtInst, NEW o, Readable(o)
  PROVE  /\ \A kinds : o.type \in kinds => ReadFaults(o, kinds) \subseteq {"not_found"}
         /\ FindFaults(EvalMem, o) = {} => OfType(Src(o), ValueType(o.type))
<1>1. /\ FindFaults(EvalMem, o) \subseteq {"not_found"}
      /\ FindFaults(EvalMem, o) = {} => OfType(Src(o), ValueType(o.type))
  BY EvalMemTyped, FoundTyped DEF Src
<1>2. ASSUME NEW kinds, o.type \in kinds
      PROVE  ReadFaults(o, kinds) \subseteq {"not_found"}
  <2>1. FindFaults(EvalMem, o) = {} => ~Punned(Src(o), MemberOf(o.type))
    BY <1>1, LiteralCells DEF OfType, Sound, Punned
  <2>2. QED
    BY <1>1, <1>2, <2>1 DEF ReadFaults
<1>3. QED
  BY <1>1, <1>2

\* The kinds of the operands, as the assertions of the switch want them.
LEMMA Kinds ==
  ASSUME AtInst
  PROVE  /\ Inst.op = "goto" => Inst.des.type \in IntKinds
         /\ Inst.op = "alloc" => Inst.op1.type \in IntKinds /\ Inst.des.type \in Pointers
         /\ Inst.op \in {"store", "load"} =>
              /\ Inst.op2.type \in IntKinds /\ Inst.op1.type \in Pointers
              /\ Inst.des.type \in ElementKinds(Inst.op1.type)
         /\ Inst.op = "getptr" =>
              /\ Inst.op2.type \in IntKinds /\ Inst.op1.type \in Pointers
              /\ Inst.des.type = Inst.op1.type
         /\ Inst.op \in {"mov", "def", "not"} =>
              Inst.des.type = "Int" /\ Inst.op1.type \in IntKinds
         /\ Inst.op \in {"fmov", "fdef"} =>
              Inst.des.type = "Float" /\ Inst.op1.type \in FloatKinds
         /\ Inst.op = "cvt_i2f" => Inst.des.type = "Float" /\ Inst.op1.type \in IntKinds
         /\ Inst.op = "cvt_f2i" => Inst.des.type = "Int" /\ Inst.op1.type \in FloatKinds
         /\ Inst.op \in IntOps =>
              Inst.des.type = "Int" /\ Inst.op1.type \in IntKinds /\ Inst.op2.type \in IntKinds
         /\ Inst.op \in FloatOps =>
              /\ Inst.des.type = "Float"
              /\ Inst.op1.type \in FloatKinds /\ Inst.op2.type \in FloatKinds
         /\ Inst.op \in {"addi", "subi"} =>
              Inst.des.type = "Int" /\ Inst.op1.type = "Int" /\ Inst.op2.type = "IntLiteral"
<1>1. InstOK(program, Func, Inst)
  BY InstDisciplined
<1>2. QED
  BY <1>1 DEF InstOK, IntOps, FloatOps

-----------------------------------------------------------------------------
(* Nothing that has to do with types stops an instruction.                  *)

Harmless == {"not_found", "bad_memory", "division", "null_function"}

LEMMA ArgumentsReadable ==
  ASSUME AtInst, NEW j \in DOMAIN Inst.args, Inst.args[j].type # "null"
  PROVE  Readable(Inst.args[j])
  BY SourcesReadable

LEMMA CallTyped ==
  ASSUME AtInst, Inst.op = "call"
  PROVE  CallOK(program, Inst)
<1>1. InstOK(program, Func, Inst)
  BY InstDisciplined
<1>2. QED
  BY <1>1 DEF InstOK, IntOps, FloatOps

LEMMA LibraryTypes ==
  ASSUME NEW fn \in LibFuncs
  PROVE  LibArgTypes[fn] \in Seq({"Int", "Float", "IntPtr", "FloatPtr"})
<1>1. fn \in {"getint", "getch", "getfloat", "getarray", "getfarray", "putint", "putch",
              "putfloat", "putarray", "putfarray"}
  BY DEF LibFuncs, LibReturnType, LibVoid
<1>2. CASE fn \in {"getint", "getch", "getfloat"}
  <2>1. LibArgTypes[fn] = <<>>
    BY <1>2 DEF LibArgTypes
  <2>2. QED
    BY <2>1
<1>3. CASE fn \in {"getarray", "getfarray", "putint", "putch", "putfloat"}
  BY <1>3 DEF LibArgTypes
<1>4. CASE fn \in {"putarray", "putfarray"}
  <2>1. LibArgTypes[fn] \in {<<"Int", "IntPtr">>, <<"Int", "FloatPtr">>}
    BY <1>4 DEF LibArgTypes
  <2>2. /\ <<"Int", "IntPtr">> \in Seq({"Int", "Float", "IntPtr", "FloatPtr"})
        /\ <<"Int", "FloatPtr">> \in Seq({"Int", "Float", "IntPtr", "FloatPtr"})
    OBVIOUS
  <2>3. QED
    BY <2>1, <2>2
<1>5. QED
  BY <1>1, <1>2, <1>3, <1>4

LEMMA LibraryHarmless ==
  ASSUME AtInst, Inst.op = "call", Inst.op1.name \in LibFuncs
  PROVE  LibFaults(Inst.op1.name) \subseteq Harmless
<1> DEFINE fn == Inst.op1.name
<1>1. /\ Inst.des.type = LibResultType(fn)
      /\ Len(LibArgTypes[fn]) <= Len(Inst.args)
      /\ \A k \in DOMAIN LibArgTypes[fn] : ValueType(Inst.args[k].type) = LibArgTypes[fn][k]
  BY CallTyped DEF CallOK
<1>2. LibArgTypes[fn] \in Seq({"Int", "Float", "IntPtr", "FloatPtr"})
  BY LibraryTypes
<1>3. Inst.args \in Seq(Operand)
  BY InstType DEF AtInst
<1>4. EvalMem = Cur.mem
  BY DEF EvalMem, DesFirst
<1>5. MemTyped(Func, Cur.mem)
  BY CurTyped
<1> HIDE DEF fn
<1>6. ASSUME NEW k \in DOMAIN LibArgTypes[fn]
      PROVE  LibArgFaults(k, LibArgTypes[fn][k]) \subseteq Harmless
  <2> DEFINE ty == LibArgTypes[fn][k]
  <2>1. k \in DOMAIN Inst.args /\ ~(k > Len(Inst.args)) /\ ValueType(Inst.args[k].type) = ty
        /\ ty \in {"Int", "Float", "IntPtr", "FloatPtr"}
    BY <1>1, <1>2, <1>3
  <2> HIDE DEF ty
  <2>2. Readable(Inst.args[k])
    <3>1. Inst.args[k].type # "null"
      BY <2>1 DEF ValueType
    <3>2. QED
      BY <2>1, <3>1, ArgumentsReadable
  <2>3. /\ FindFaults(Cur.mem, Inst.args[k]) \subseteq {"not_found"}
        /\ FindFaults(Cur.mem, Inst.args[k]) = {} => OfType(Src(Inst.args[k]), ty)
    BY <1>4, <1>5, <2>1, <2>2, FoundTyped DEF Src
  <2>4. LibArgFaults(k, ty) \subseteq Harmless
    BY <2>1, <2>3 DEF LibArgFaults, OfType, Sound, Punned, Harmless
  <2>5. QED
    BY <2>4 DEF ty
<1>7. LibFaults(fn) \subseteq Harmless
  BY <1>1, <1>6 DEF LibFaults
<1>8. QED
  BY <1>7 DEF fn

\* The types on both sides of a call, and the memory its arguments are read in.
LEMMA CallDisciplined ==
  ASSUME AtInst, Inst.op = "call", Inst.op1.name \notin LibFuncs,
         FunctionsNamed(Inst.op1.name) # {}
  PROVE  /\ Callee \in DOMAIN program.functions
         /\ CalleeFunc.returnType \in {"null", "Int", "Float"}
         /\ CalleeFunc.returnType # "null" =>
              /\ Inst.des.type = CalleeFunc.returnType
              /\ Inst.des \in Mentioned(Func) /\ ~OnlyDefined(Func, Inst.des.name)
         /\ MemTyped(Func, CallerMem)
         /\ Params \in Seq(Operand) /\ Len(Params) <= Len(Inst.args)
         /\ \A i \in DOMAIN Params :
              /\ i \in DOMAIN Inst.args
              /\ Params[i].type = ValueType(Inst.args[i].type)
              /\ Readable(Inst.args[i])
<1>1. program \in Program /\ Inst.args \in Seq(Operand)
  BY ProgType, InstType DEF AtInst, TypeInv
<1>2. /\ Callee \in DOMAIN program.functions
      /\ program.functions[Callee].name = Inst.op1.name
  BY <1>1, CalleeNamed
<1>3. CallOK(program, Inst)
  BY CallTyped
<1>4. /\ CalleeFunc.returnType \in {"null", Inst.des.type}
      /\ Len(Params) <= Len(Inst.args)
      /\ \A i \in DOMAIN Params :
           ValueType(Inst.args[i].type) = Params[i].type /\ Inst.args[i].type # "null"
  BY <1>2, <1>3 DEF CallOK, CalleeFunc, Params
<1>5. CalleeFunc.returnType \in {"null", "Int", "Float"}
  BY <1>2 DEF AtInst, WellTyped, CalleeFunc
<1>6. Params \in Seq(Operand)
  <2>1. program.functions[Callee] \in Function
    BY <1>1, <1>2 DEF Program
  <2>2. QED
    BY <2>1 DEF Function, Params, CalleeFunc
<1>7. CalleeFunc.returnType # "null" =>
        /\ Inst.des.type = CalleeFunc.returnType
        /\ Inst.des \in Mentioned(Func) /\ ~OnlyDefined(Func, Inst.des.name)
  BY <1>4, <1>5, DestinationReadable DEF Readable, Literals
<1>8. MemTyped(Func, CallerMem)
  BY <1>7, CreatedTyped, CurTyped DEF CallerMem
<1>9. \A i \in DOMAIN Params : i \in DOMAIN Inst.args
  BY <1>1, <1>4, <1>6
<1>10. \A i \in DOMAIN Params : Readable(Inst.args[i])
  BY <1>4, <1>9, ArgumentsReadable
<1>11. QED
  BY <1>2, <1>4, <1>5, <1>6, <1>7, <1>8, <1>9, <1>10

LEMMA UserCallHarmless ==
  ASSUME AtInst, Inst.op = "call", Inst.op1.name \notin LibFuncs
  PROVE  UserCallFaults \subseteq Harmless
<1>1. CASE FunctionsNamed(Inst.op1.name) = {}
  BY <1>1 DEF UserCallFaults, Harmless
<1>2. CASE FunctionsNamed(Inst.op1.name) # {}
  <2>1. ASSUME NEW i \in DOMAIN Params
        PROVE  /\ Params[i].type = ValueType(Inst.args[i].type)
               /\ FindFaults(CallerMem, Inst.args[i]) \subseteq Harmless
    BY <1>2, CallDisciplined, FoundTyped DEF Harmless
  <2>2. ~(Len(Inst.args) < Len(Params))
    <3>1. Inst.args \in Seq(Operand)
      BY InstType DEF AtInst
    <3>2. Len(Params) <= Len(Inst.args) /\ Params \in Seq(Operand)
      BY <1>2, CallDisciplined
    <3>3. QED
      BY <3>1, <3>2
  <2>3. ~(CalleeFunc.returnType # "null" /\ Inst.des.type # CalleeFunc.returnType)
    BY <1>2, CallDisciplined
  <2>4. QED
    BY <1>2, <2>1, <2>2, <2>3 DEF UserCallFaults
<1>3. QED
  BY <1>1, <1>2

LEMMA ReturnHarmless ==
  ASSUME AtInst, Inst.op = "return"
  PROVE  /\ ReturnFaults \subseteq Harmless
         /\ Cur.retval_addr # NullAddr =>
              ValueType(Inst.op1.type) = Func.returnType /\ Readable(Inst.op1)
<1>1. CASE Cur.retval_addr = NullAddr
  BY <1>1 DEF ReturnFaults
<1>2. CASE Cur.retval_addr # NullAddr
  <2>1. Func.returnType \in {"Int", "Float"}
    BY <1>2, CurTyped DEF AnswerTyped, Cur
  <2>2. ValueType(Inst.op1.type) = Func.returnType
    <3>1. InstOK(program, Func, Inst)
      BY InstDisciplined
    <3>2. QED
      BY <2>1, <3>1 DEF InstOK, IntOps, FloatOps
  <2>3. Inst.op1.type \in IntKinds \cup FloatKinds
    BY <2>1, <2>2 DEF ValueType, IntKinds, FloatKinds
  <2>4. Readable(Inst.op1)
    BY <2>3, SourcesReadable DEF IntKinds, FloatKinds
  <2>5. QED
    BY <1>2, <2>2, <2>3, <2>4, CurTyped, FoundTyped DEF ReturnFaults, Harmless
<1>3. QED
  BY <1>1, <1>2

LEMMA LibraryMemoryHarmless == \A fn : LibMemoryFaults(fn) \subseteq Harmless
  BY DEF LibMemoryFaults, Harmless

\* The operands of an instruction of a kind its assertions want are read.
LEMMA OperandsRead ==
  ASSUME AtInst, NEW kinds, kinds \subseteq Types \ {"null"}
  PROVE  /\ Inst.op1.type \in kinds => ReadFaults(Inst.op1, kinds) \subseteq Harmless
         /\ Inst.op2.type \in kinds => ReadFaults(Inst.op2, kinds) \subseteq Harmless
         /\ Inst.des.type \in kinds /\ Inst.op \notin {"def", "fdef"} =>
              ReadFaults(Inst.des, kinds) \subseteq Harmless
<1>1. \A o : Readable(o) /\ o.type \in kinds => ReadFaults(o, kinds) \subseteq Harmless
  BY ReadTyped DEF Harmless
<1>2. Inst.op1.type \in kinds => Readable(Inst.op1)
  BY SourcesReadable
<1>3. Inst.op2.type \in kinds => Readable(Inst.op2)
  BY SourcesReadable
<1>4. Inst.des.type \in kinds /\ Inst.op \notin {"def", "fdef"} => Readable(Inst.des)
  BY DestinationReadable
<1>5. QED
  BY <1>1, <1>2, <1>3, <1>4

LEMMA KindSets ==
  /\ IntKinds \subseteq Types \ {"null"} /\ FloatKinds \subseteq Types \ {"null"}
  /\ Pointers \subseteq Types \ {"null"} /\ {"Int"} \subseteq Types \ {"null"}
  BY DEF IntKinds, FloatKinds, Pointers, Types

LEMMA AccessHarmless ==
  ASSUME AtInst, Inst.op \in {"store", "load"}
  PROVE  AccessFaults \subseteq Harmless
<1> DEFINE kinds == ElementKinds(Inst.op1.type)
<1>1. /\ ReadFaults(Inst.op2, IntKinds) \subseteq Harmless
      /\ ReadFaults(Inst.op1, Pointers) \subseteq Harmless
  BY Kinds, KindSets, OperandsRead
<1>2. Inst.des.type \in kinds /\ kinds \subseteq Types \ {"null"}
  BY Kinds, KindSets DEF ElementKinds
<1> HIDE DEF kinds
<1>3. ReadFaults(Inst.des, kinds) \subseteq Harmless /\ DesIs(kinds) = {}
  BY <1>2, OperandsRead DEF DesIs
<1>4. kinds = IF Inst.op1.type = "IntPtr" THEN IntKinds ELSE FloatKinds
  BY DEF kinds, ElementKinds
<1>5. QED
  BY <1>1, <1>3, <1>4 DEF AccessFaults, Harmless

LEMMA BinaryHarmless ==
  ASSUME AtInst
  PROVE  /\ Inst.op \in IntOps => BinaryFaults(IntKinds, "Int") \subseteq Harmless
         /\ Inst.op \in FloatOps => BinaryFaults(FloatKinds, "Float") \subseteq Harmless
<1>1. ASSUME Inst.op \in IntOps
      PROVE  BinaryFaults(IntKinds, "Int") \subseteq Harmless
  <2>1. /\ ReadFaults(Inst.op1, IntKinds) \subseteq Harmless
        /\ ReadFaults(Inst.op2, IntKinds) \subseteq Harmless /\ DesIs({"Int"}) = {}
    BY <1>1, Kinds, KindSets, OperandsRead DEF DesIs
  <2>2. QED
    BY <2>1 DEF BinaryFaults, Harmless
<1>2. ASSUME Inst.op \in FloatOps
      PROVE  BinaryFaults(FloatKinds, "Float") \subseteq Harmless
  <2>1. /\ ReadFaults(Inst.op1, FloatKinds) \subseteq Harmless
        /\ ReadFaults(Inst.op2, FloatKinds) \subseteq Harmless /\ DesIs({"Float"}) = {}
    BY <1>2, Kinds, KindSets, OperandsRead DEF DesIs
  <2>2. QED
    BY <2>1 DEF BinaryFaults, Harmless
<1>3. QED
  BY <1>1, <1>2

LEMMA FaultsHarmless ==
  ASSUME AtInst
  PROVE  Faults \subseteq Harmless
<1>1. CASE Inst.op = "return"
  <2>1. Faults = ReturnFaults
    BY <1>1 DEF Faults, IntOps, FloatOps
  <2>2. QED
    BY <1>1, <2>1, ReturnHarmless
<1>2. CASE Inst.op = "goto"
  <2>1. Faults = ReadFaults(Inst.des, IntKinds) \cup
           (IF Inst.op1.type = "null" THEN {} ELSE FindFaults(Cur.mem, Inst.op1))
    BY <1>2 DEF Faults, IntOps, FloatOps
  <2>2. ReadFaults(Inst.des, IntKinds) \subseteq Harmless
    BY <1>2, Kinds, KindSets, OperandsRead
  <2>3. Inst.op1.type # "null" => FindFaults(Cur.mem, Inst.op1) \subseteq Harmless
    BY CurTyped, SourcesReadable, FoundTyped DEF Harmless
  <2>4. QED
    BY <2>1, <2>2, <2>3
<1>3. CASE Inst.op = "call"
  <2>1. Faults = CallFaults
    BY <1>3 DEF Faults, IntOps, FloatOps
  <2>2. QED
    BY <1>3, <2>1, UserCallHarmless, LibraryHarmless, LibraryMemoryHarmless DEF CallFaults
<1>4. CASE Inst.op = "alloc"
  <2>1. Faults = AllocFaults
    BY <1>4 DEF Faults, IntOps, FloatOps
  <2>2. ReadFaults(Inst.op1, IntKinds) \subseteq Harmless /\ DesIs(Pointers) = {}
    BY <1>4, Kinds, KindSets, OperandsRead DEF DesIs
  <2>3. QED
    BY <2>1, <2>2 DEF AllocFaults, Harmless
<1>5. CASE Inst.op \in {"store", "load"}
  <2>1. Faults = AccessFaults
    BY <1>5 DEF Faults, IntOps, FloatOps
  <2>2. QED
    BY <1>5, <2>1, AccessHarmless
<1>6. CASE Inst.op = "getptr"
  <2>1. Faults = ReadFaults(Inst.op2, IntKinds) \cup ReadFaults(Inst.op1, Pointers)
                   \cup DesIs({Inst.op1.type})
    BY <1>6 DEF Faults, IntOps, FloatOps
  <2>2. /\ ReadFaults(Inst.op2, IntKinds) \subseteq Harmless
        /\ ReadFaults(Inst.op1, Pointers) \subseteq Harmless /\ DesIs({Inst.op1.type}) = {}
    BY <1>6, Kinds, KindSets, OperandsRead DEF DesIs
  <2>3. QED
    BY <2>1, <2>2
<1>7. CASE Inst.op \in {"mov", "def", "not", "cvt_i2f"}
  <2>1. /\ ReadFaults(Inst.op1, IntKinds) \subseteq Harmless
        /\ Inst.op \in {"mov", "def", "not"} => DesIs({"Int"}) = {} /\ DesIs(IntKinds) = {}
        /\ Inst.op = "cvt_i2f" => DesIs({"Float"}) = {}
    BY <1>7, Kinds, KindSets, OperandsRead DEF DesIs, IntKinds
  <2>2. QED
    BY <1>7, <2>1 DEF Faults, IntOps, FloatOps
<1>8. CASE Inst.op \in {"fmov", "fdef", "cvt_f2i"}
  <2>1. /\ ReadFaults(Inst.op1, FloatKinds) \subseteq Harmless
        /\ Inst.op \in {"fmov", "fdef"} => DesIs({"Float"}) = {}
        /\ Inst.op = "cvt_f2i" => DesIs({"Int"}) = {}
    BY <1>8, Kinds, KindSets, OperandsRead DEF DesIs
  <2>2. QED
    BY <1>8, <2>1 DEF Faults, IntOps, FloatOps
<1>9. CASE Inst.op \in IntOps \cup FloatOps
  <2>1. /\ Inst.op \in IntOps => Faults = BinaryFaults(IntKinds, "Int")
        /\ Inst.op \in FloatOps => Faults = BinaryFaults(FloatKinds, "Float")
    BY <1>9 DEF Faults, IntOps, FloatOps
  <2>2. QED
    BY <1>9, <2>1, BinaryHarmless
<1>10. CASE Inst.op \in {"addi", "subi"}
  <2>1. Faults = ReadFaults(Inst.op1, {"Int"}) \cup
           (IF Inst.op2.type = "IntLiteral" THEN {} ELSE {"operand_type"})
    BY <1>10 DEF Faults, IntOps, FloatOps
  <2>2. ReadFaults(Inst.op1, {"Int"}) \subseteq Harmless
    BY <1>10, Kinds, KindSets, OperandsRead
  <2>3. QED
    BY <1>10, <2>1, <2>2, Kinds
<1>11. CASE Inst.op = "__unuse__"
  <2>1. Faults = {}
    BY <1>11 DEF Faults, IntOps, FloatOps
  <2>2. QED
    BY <2>1
<1>12. Inst.op \in Ops
  BY InstType DEF AtInst
<1>13. QED
  BY <1>1, <1>2, <1>3, <1>4, <1>5, <1>6, <1>7, <1>8, <1>9, <1>10, <1>11, <1>12 DEF Ops

-----------------------------------------------------------------------------
(* Writing.                                                                 *)

\* A step that keeps the functions and the answers of the contexts.
LEMMA KeepTyped ==
  ASSUME TypedState, program' = program, GlobalsTyped', DOMAIN contexts' = DOMAIN contexts,
         \A i \in DOMAIN contexts :
           /\ contexts'[i].pfunc = contexts[i].pfunc
           /\ contexts'[i].retval_addr = contexts[i].retval_addr
           /\ MemTyped(FuncAt(i), contexts'[i].mem)
  PROVE  TypedState'
<1>1. \A i \in DOMAIN contexts : FuncAt(i)' = FuncAt(i)
  BY DEF FuncAt
<1>2. \A i \in DOMAIN contexts' : MemTyped(FuncAt(i), contexts[i].mem)'
  BY <1>1
<1>3. ASSUME NEW i \in DOMAIN contexts' PROVE AnswerTyped(i)'
  <2>1. AnswerTyped(i)
    BY <1>3 DEF TypedState
  <2>2. \A x, ts : EntryOfType(x, ts)' <=> EntryOfType(x, ts)
    BY DEF EntryOfType, Globals
  <2>3. QED
    BY <1>1, <1>3, <2>1, <2>2 DEF AnswerTyped
<1>4. QED
  BY <1>2, <1>3 DEF TypedState

LEMMA AdvanceTyped ==
  ASSUME AtInst, program' = program, GlobalsTyped', NEW m, MemTyped(Func, m), Advance(m)
  PROVE  TypedState'
<1> DEFINE x == [Cur EXCEPT !.pc = @ + 1, !.mem = m]
<1>1. cur_ctx \in DOMAIN contexts /\ Cur \in Context /\ Cur = contexts[cur_ctx]
  BY CurType DEF AtInst, Cur
<1>2. x.pfunc = Cur.pfunc /\ x.retval_addr = Cur.retval_addr /\ x.mem = m
  BY <1>1 DEF Context
<1>3. contexts' = [contexts EXCEPT ![cur_ctx] = x]
  BY <1>1 DEF Advance
<1> HIDE DEF x
<1>4. DOMAIN contexts' = DOMAIN contexts
  BY <1>3
<1>5. ASSUME NEW i \in DOMAIN contexts
      PROVE  /\ contexts'[i].pfunc = contexts[i].pfunc
             /\ contexts'[i].retval_addr = contexts[i].retval_addr
             /\ MemTyped(FuncAt(i), contexts'[i].mem)
  <2>1. CASE i = cur_ctx
    BY <1>1, <1>2, <1>3, <2>1, CurTyped
  <2>2. CASE i # cur_ctx
    BY <1>3, <2>2 DEF AtInst, TypedState
  <2>3. QED
    BY <2>1, <2>2
<1>6. QED
  BY <1>4, <1>5, KeepTyped DEF AtInst

LEMMA SameGlobals ==
  ASSUME TypedState, UNCHANGED <<program, global_vars>>
  PROVE  GlobalsTyped'
  BY DEF TypedState, GlobalsTyped, Globals

LEMMA GlobalWritten ==
  ASSUME TypedState, program' = program, NEW x, NEW c, Sound(c),
         \E k \in DOMAIN Globals :
           /\ Globals[k].val.name = x
           /\ c.t \in {Globals[k].val.type, ValueType(Globals[k].val.type)},
         global_vars' = Insert(global_vars, x, c)
  PROVE  GlobalsTyped'
<1>1. ASSUME NEW y \in DOMAIN global_vars'
      PROVE  /\ Sound(global_vars'[y])
             /\ \E k \in DOMAIN Globals :
                  /\ Globals[k].val.name = y
                  /\ global_vars'[y].t \in {Globals[k].val.type, ValueType(Globals[k].val.type)}
  <2>1. CASE y = x
    <3>1. global_vars'[y] = c
      BY <2>1 DEF Insert
    <3>2. QED
      BY <2>1, <3>1
  <2>2. CASE y # x
    <3>1. y \in DOMAIN global_vars /\ global_vars'[y] = global_vars[y]
      BY <1>1, <2>2 DEF Insert
    <3>2. QED
      BY <3>1 DEF TypedState, GlobalsTyped
  <2>3. QED
    BY <2>1, <2>2
<1>2. QED
  BY <1>1 DEF GlobalsTyped, Globals

LEMMA PutTyped ==
  ASSUME AtInst, program' = program, NEW c, Inst.des \in Mentioned(Func),
         OfType(c, Inst.des.type), Put(Inst.des, c)
  PROVE  TypedState'
<1>1. CASE Inst.des.name \in DOMAIN global_vars \ DOMAIN Cur.mem
  <2>1. Advance(Cur.mem) /\ global_vars' = Insert(global_vars, Inst.des.name, c)
    BY <1>1 DEF Put
  <2>2. \E k \in DOMAIN Globals :
          /\ Globals[k].val.name = Inst.des.name
          /\ c.t \in {Globals[k].val.type, ValueType(Globals[k].val.type)}
    BY <1>1, GlobalFits DEF OfType
  <2>3. GlobalsTyped'
    BY <2>1, <2>2, GlobalWritten DEF AtInst, OfType
  <2>4. QED
    BY <2>1, <2>3, CurTyped, AdvanceTyped
<1>2. CASE Inst.des.name \notin DOMAIN global_vars \ DOMAIN Cur.mem
  <2>1. Advance(Insert(Cur.mem, Inst.des.name, c)) /\ global_vars' = global_vars
    BY <1>2 DEF Put
  <2>2. MemTyped(Func, Insert(Cur.mem, Inst.des.name, c))
    BY CurTyped, InsertTyped
  <2>3. GlobalsTyped'
    BY <2>1, SameGlobals DEF AtInst
  <2>4. QED
    BY <2>1, <2>2, <2>3, AdvanceTyped
<1>3. QED
  BY <1>1, <1>2

\* An operator writes the member of its destination's type.
LEMMA PutMemberTyped ==
  ASSUME AtInst, program' = program, Inst.op \in Writing \ {"def", "fdef"}, NEW k, NEW b,
         PutMember(MemberOf(Inst.des.type), k, b)
  PROVE  TypedState'
<1> DEFINE old == Lookup(Created(Inst.des), Inst.des)
           new == [t |-> old.t, m |-> MemberOf(Inst.des.type), n |-> k, b |-> b]
<1>1. Inst.des \in Mentioned(Func) /\ ~OnlyDefined(Func, Inst.des.name)
  BY DestinationMentioned
<1>2. old.t = Inst.des.type
  BY <1>1, CreatedTyped DEF OfType
<1>3. OfType(new, Inst.des.type)
  BY <1>2 DEF OfType, Sound
<1>4. Put(Inst.des, new)
  BY DEF PutMember
<1> HIDE DEF new
<1>5. QED
  BY <1>1, <1>3, <1>4, PutTyped

-----------------------------------------------------------------------------
(* Every action keeps the types of the cells.                               *)

\* Where each action finds itself: at an instruction, which it completes.
LEMMA ExecutingAt ==
  ASSUME TypeInv, TypedInv, WellTyped(program), NEW ops, Executing(ops)
  PROVE  AtInst /\ Inst.op \in ops /\ Faults = {}
  BY DEF Executing, TypedInv, AtInst

LEMMA MoveTyped ==
  ASSUME TypeInv, TypedInv, WellTyped(program), Move
  PROVE  TypedState'
<1>1. AtInst /\ Inst.op \in {"mov", "def", "fmov", "fdef"} /\ Faults = {}
  BY ExecutingAt DEF Move
<1>2. ValueType(Inst.op1.type) = Inst.des.type /\ Readable(Inst.op1)
  <2>1. CASE Inst.op \in {"mov", "def"}
    BY <1>1, <2>1, Kinds, SourcesReadable DEF ValueType, IntKinds
  <2>2. CASE Inst.op \in {"fmov", "fdef"}
    BY <1>1, <2>2, Kinds, SourcesReadable DEF ValueType, FloatKinds
  <2>3. QED
    BY <1>1, <2>1, <2>2
<1>3. FindFaults(EvalMem, Inst.op1) = {}
  BY <1>1, NoFaults, ReadFaultsNone
<1>4. OfType(Src(Inst.op1), Inst.des.type)
  BY <1>1, <1>2, <1>3, ReadTyped
<1>5. Inst.des \in Mentioned(Func)
  BY <1>1, DestinationMentioned DEF Writing
<1>6. QED
  BY <1>1, <1>4, <1>5, PutTyped DEF Move, LocalFrame

LEMMA ConvertTyped ==
  ASSUME TypeInv, TypedInv, WellTyped(program), Convert
  PROVE  TypedState'
<1>1. AtInst /\ Inst.op \in {"not", "cvt_i2f", "cvt_f2i"}
  BY ExecutingAt DEF Convert
<1>2. \E k : PutMember(MemberOf(Inst.des.type), k, 0)
  <2>1. /\ Inst.op \in {"not", "cvt_f2i"} => MemberOf(Inst.des.type) = "ival"
        /\ Inst.op = "cvt_i2f" => MemberOf(Inst.des.type) = "fval"
    BY <1>1, Kinds DEF MemberOf, IntKinds, FloatKinds
  <2>2. QED
    BY <1>1, <2>1 DEF Convert
<1>3. QED
  BY <1>1, <1>2, PutMemberTyped DEF Writing, Convert, LocalFrame

LEMMA BinaryTyped ==
  ASSUME TypeInv, TypedInv, WellTyped(program), IntBinary \/ FloatBinary \/ Immediate
  PROVE  TypedState'
<1>1. CASE IntBinary \/ Immediate
  <2>1. AtInst /\ Inst.op \in IntOps \cup {"addi", "subi"}
    <3>1. ASSUME IntBinary PROVE AtInst /\ Inst.op \in IntOps
      BY <3>1, ExecutingAt DEF IntBinary
    <3>2. ASSUME Immediate PROVE AtInst /\ Inst.op \in {"addi", "subi"}
      BY <3>2, ExecutingAt DEF Immediate
    <3>3. QED
      BY <1>1, <3>1, <3>2
  <2>2. MemberOf(Inst.des.type) = "ival"
    <3>1. Inst.des.type = "Int"
      BY <2>1, Kinds
    <3>2. QED
      BY <3>1 DEF MemberOf, IntKinds, FloatKinds
  <2>3. \E k : PutMember(MemberOf(Inst.des.type), k, 0)
    BY <1>1, <2>2 DEF IntBinary, Immediate
  <2>4. Inst.op \in Writing \ {"def", "fdef"}
    BY <2>1 DEF Writing, IntOps
  <2>5. QED
    BY <1>1, <2>1, <2>3, <2>4, PutMemberTyped DEF IntBinary, Immediate, LocalFrame
<1>2. CASE FloatBinary
  <2>1. AtInst /\ Inst.op \in FloatOps
    BY <1>2, ExecutingAt DEF FloatBinary
  <2>2. MemberOf(Inst.des.type) = "fval"
    BY <2>1, Kinds DEF MemberOf, IntKinds, FloatKinds
  <2>3. \E k : PutMember(MemberOf(Inst.des.type), k, 0)
    BY <1>2, <2>2 DEF FloatBinary
  <2>4. Inst.op \in Writing \ {"def", "fdef"}
    BY <2>1 DEF Writing, FloatOps
  <2>5. QED
    BY <1>2, <2>1, <2>3, <2>4, PutMemberTyped DEF FloatBinary, LocalFrame
<1>3. QED
  BY <1>1, <1>2

LEMMA PointersTyped ==
  ASSUME TypeInv, TypedInv, WellTyped(program), Alloc \/ Load \/ GetPtr
  PROVE  TypedState'
<1>1. AtInst /\ Inst.op \in {"alloc", "load", "getptr"}
  BY ExecutingAt DEF Alloc, Load, GetPtr
<1>2. \E k, b : PutMember(MemberOf(Inst.des.type), k, b)
  BY DEF Alloc, Load, GetPtr
<1>3. QED
  BY <1>1, <1>2, PutMemberTyped DEF Writing, Alloc, Load, GetPtr, LocalFrame

LEMMA GotoTyped ==
  ASSUME TypeInv, TypedInv, WellTyped(program), Goto
  PROVE  TypedState'
<1>1. AtInst
  BY ExecutingAt DEF Goto
<1> DEFINE d == IF Taken THEN Src(Inst.des).n ELSE 1
           x == [Cur EXCEPT !.pc = @ + d]
<1>2. cur_ctx \in DOMAIN contexts /\ Cur \in Context /\ Cur = contexts[cur_ctx]
  BY <1>1, CurType DEF AtInst, Cur
<1>3. contexts' = [contexts EXCEPT ![cur_ctx].pc = @ + d]
  BY DEF Goto
<1> HIDE DEF d
<1>4. x.pfunc = Cur.pfunc /\ x.retval_addr = Cur.retval_addr /\ x.mem = Cur.mem
  BY <1>2 DEF Context
<1>5. contexts' = [contexts EXCEPT ![cur_ctx] = x]
  BY <1>2, <1>3
<1> HIDE DEF x
<1>6. \A i \in DOMAIN contexts :
        /\ contexts'[i].pfunc = contexts[i].pfunc
        /\ contexts'[i].retval_addr = contexts[i].retval_addr
        /\ contexts'[i].mem = contexts[i].mem
  BY <1>2, <1>4, <1>5
<1>7. program' = program /\ GlobalsTyped' /\ DOMAIN contexts' = DOMAIN contexts
  BY <1>1, <1>5, SameGlobals DEF Goto, AtInst
<1>8. QED
  BY <1>1, <1>6, <1>7, KeepTyped DEF AtInst, TypedState

LEMMA AdvancingTyped ==
  ASSUME TypeInv, TypedInv, WellTyped(program), Store \/ Unused \/ CallPut
  PROVE  TypedState'
<1>1. AtInst
  BY ExecutingAt DEF Store, Unused, CallPut
<1>2. Advance(Cur.mem) /\ UNCHANGED <<program, global_vars>>
  BY DEF Store, Unused, CallPut, LocalFrame
<1>3. QED
  BY <1>1, <1>2, SameGlobals, CurTyped, AdvanceTyped DEF AtInst

\* The result of a library function has the type its caller gives it.
LEMMA LibraryGetTyped ==
  ASSUME TypeInv, TypedInv, WellTyped(program), CallGet \/ CallGetArray
  PROVE  TypedState'
<1>1. /\ AtInst /\ Inst.op = "call"
      /\ Inst.op1.name \in {"getint", "getch", "getfloat", "getarray", "getfarray"}
  BY ExecutingAt DEF CallGet, CallGetArray
<1>2. /\ Inst.op1.name \in LibFuncs
      /\ LibResultType(Inst.op1.name) = IF Inst.op1.name = "getfloat" THEN "Float" ELSE "Int"
  BY <1>1 DEF LibFuncs, LibReturnType, LibVoid, LibResultType
<1>3. Inst.des.type = IF Inst.op1.name = "getfloat" THEN "Float" ELSE "Int"
  BY <1>1, <1>2, CallTyped DEF CallOK
<1>4. Inst.des \in Mentioned(Func)
  BY <1>1, <1>3, OperandsMentioned DEF InstOperands, Literals
<1>5. \E c : OfType(c, Inst.des.type) /\ Put(Inst.des, c)
  <2>1. CASE CallGet
    <3>1. PICK k : Put(Inst.des, IF Inst.des.type = "Float" THEN FloatCell(k) ELSE IntCell(k))
      BY <2>1 DEF CallGet
    <3>2. QED
      BY <1>3, <3>1, LiteralCells
  <2>2. CASE CallGetArray
    <3>1. PICK k : Put(Inst.des, IntCell(k))
      BY <2>2 DEF CallGetArray
    <3>2. Inst.des.type = "Int"
      BY <1>3, <2>2 DEF CallGetArray
    <3>3. QED
      BY <3>1, <3>2, LiteralCells
  <2>3. QED
    BY <2>1, <2>2
<1>6. program' = program
  BY DEF CallGet, CallGetArray, LocalFrame
<1>7. QED
  BY <1>1, <1>4, <1>5, <1>6, PutTyped

\* A context answers its caller, or a global, with its function's type.
LEMMA ReturnTyped ==
  ASSUME TypeInv, TypedInv, WellTyped(program), Return
  PROVE  TypedState'
<1>1. AtInst /\ Inst.op = "return" /\ Faults = {}
  BY ExecutingAt DEF Return
<1>2. program' = program
  BY DEF Return
<1>3. CASE Cur.retval_addr = NullAddr
  <2>1. UNCHANGED <<global_vars, contexts>>
    BY <1>3 DEF Return
  <2>2. GlobalsTyped'
    BY <1>1, <1>2, <2>1, SameGlobals DEF AtInst
  <2>3. QED
    BY <1>1, <1>2, <2>1, <2>2, KeepTyped DEF AtInst, TypedState
<1>4. CASE Cur.retval_addr # NullAddr
  <2> DEFINE p == Cur.retval_addr  c == Src(Inst.op1)
  <2>1. OfType(c, Func.returnType)
    <3>1. ValueType(Inst.op1.type) = Func.returnType /\ Readable(Inst.op1)
      BY <1>1, <1>4, ReturnHarmless
    <3>2. FindFaults(EvalMem, Inst.op1) = {}
      BY <1>1, <1>4, NoFaults DEF ReturnFaults, EvalMem, DesFirst
    <3>3. QED
      BY <1>1, <3>1, <3>2, ReadTyped
  <2>2. /\ Func.returnType \in {"Int", "Float"}
        /\ p.scope > 0 =>
             /\ p.scope \in DOMAIN contexts
             /\ \E o \in Mentioned(FuncAt(p.scope)) :
                  o.name = p.name /\ o.type = Func.returnType
        /\ p.scope = 0 => EntryOfType(p.name, {Func.returnType})
    BY <1>1, <1>4, CurTyped DEF AnswerTyped, Cur
  <2>3. WriteThrough(p, c)
    BY <1>4 DEF Return
  <2>4. contexts \in Seq(Context) /\ p \in Address /\ p.scope \in Int /\ p.name \in Names
    BY <1>1, CurType DEF AtInst, TypeInv, Context, Address
  <2> HIDE DEF p, c
  <2>5. GlobalsTyped'
    <3>1. CASE p.scope = 0
      <4>1. global_vars' = Insert(global_vars, p.name, c)
        BY <2>3, <3>1 DEF WriteThrough
      <4>2. \E k \in DOMAIN Globals :
              /\ Globals[k].val.name = p.name
              /\ c.t \in {Globals[k].val.type, ValueType(Globals[k].val.type)}
        BY <2>1, <2>2, <3>1 DEF EntryOfType, OfType
      <4>3. QED
        BY <1>1, <1>2, <2>1, <4>1, <4>2, GlobalWritten DEF AtInst, OfType
    <3>2. CASE p.scope # 0
      <4>1. global_vars' = global_vars
        BY <2>3, <3>2 DEF WriteThrough
      <4>2. QED
        BY <1>1, <1>2, <4>1, SameGlobals DEF AtInst
    <3>3. QED
      BY <3>1, <3>2
  <2>6. CASE p.scope \in DOMAIN contexts
    <3> DEFINE x == [contexts[p.scope] EXCEPT !.mem = Insert(@, p.name, c)]
               m == contexts[p.scope].mem
    <3>1. contexts[p.scope] \in Context /\ p.scope > 0
      BY <2>4, <2>6
    <3>2. /\ x.pfunc = contexts[p.scope].pfunc
          /\ x.retval_addr = contexts[p.scope].retval_addr
          /\ x.mem = Insert(m, p.name, c)
      BY <3>1 DEF Context
    <3>3. contexts' = [contexts EXCEPT ![p.scope] = x]
      BY <2>3, <2>6 DEF WriteThrough
    <3>4. MemTyped(FuncAt(p.scope), m)
      BY <1>1, <2>6 DEF AtInst, TypedState
    <3> HIDE DEF x, m
    <3>5. OneTypePerName(program, FuncAt(p.scope))
      BY <1>1, <2>6 DEF AtInst, TypeInv, WellTyped, FuncAt
    <3>6. PICK o \in Mentioned(FuncAt(p.scope)) :
            o.name = p.name /\ o.type = Func.returnType
      BY <2>2, <3>1
    <3>7. MemTyped(FuncAt(p.scope), Insert(m, p.name, c))
      <4>1. OfType(c, o.type)
        BY <2>1, <3>6
      <4>2. MemTyped(FuncAt(p.scope), Insert(m, o.name, c))
        BY <3>4, <3>5, <4>1, WriteTyped
      <4>3. QED
        BY <3>6, <4>2
    <3>8. DOMAIN contexts' = DOMAIN contexts
      BY <3>3
    <3>9. ASSUME NEW i \in DOMAIN contexts
          PROVE  /\ contexts'[i].pfunc = contexts[i].pfunc
                 /\ contexts'[i].retval_addr = contexts[i].retval_addr
                 /\ MemTyped(FuncAt(i), contexts'[i].mem)
      <4>1. CASE i = p.scope
        BY <2>6, <3>2, <3>3, <3>7, <4>1
      <4>2. CASE i # p.scope
        BY <1>1, <3>3, <4>2 DEF AtInst, TypedState
      <4>3. QED
        BY <4>1, <4>2
    <3>10. QED
      BY <1>1, <1>2, <2>5, <3>8, <3>9, KeepTyped DEF AtInst
  <2>7. CASE p.scope \notin DOMAIN contexts
    <3>1. contexts' = contexts
      BY <2>3, <2>7 DEF WriteThrough
    <3>2. QED
      BY <1>1, <1>2, <2>5, <3>1, KeepTyped DEF AtInst, TypedState
  <2>8. QED
    BY <2>6, <2>7
<1>5. QED
  BY <1>3, <1>4

\* The memory of a new context: the parameters, with the arguments' types.
LEMMA ParametersTyped ==
  ASSUME AtInst, Inst.op = "call", Inst.op1.name \notin LibFuncs, Faults = {}
  PROVE  MemTyped(CalleeFunc, ParamMem)
<1>1. UserCallFaults = {}
  BY NoFaults DEF CallFaults
<1>2. FunctionsNamed(Inst.op1.name) # {}
  BY <1>1 DEF UserCallFaults
<1>3. /\ Callee \in DOMAIN program.functions
      /\ MemTyped(Func, CallerMem)
      /\ Params \in Seq(Operand)
      /\ \A i \in DOMAIN Params :
           /\ Params[i].type = ValueType(Inst.args[i].type)
           /\ Readable(Inst.args[i])
  BY <1>2, CallDisciplined
<1>4. OneTypePerName(program, CalleeFunc)
  BY <1>3 DEF AtInst, WellTyped, CalleeFunc
<1>5. ASSUME NEW i \in DOMAIN Params
      PROVE  /\ OfType(SrcIn(CallerMem, Inst.args[i]), Params[i].type)
             /\ Params[i] \in Mentioned(CalleeFunc)
  <2>1. FindFaults(CallerMem, Inst.args[i]) = {}
    BY CalleeType DEF AtInst
  <2>2. Params[i].type \notin Literals \cup {"null"}
    BY <1>3 DEF Readable, ValueType, Literals
  <2>3. QED
    BY <1>3, <2>1, <2>2, FoundTyped DEF Mentioned, Params
<1>6. ASSUME NEW x \in ParamNames
      PROVE  ParamIndex(x) \in DOMAIN Params /\ Params[ParamIndex(x)].name = x
  <2> DEFINE S == {i \in DOMAIN Params : Params[i].name = x}
  <2>1. S \subseteq Nat /\ S # {}
    BY <1>3 DEF ParamNames
  <2>2. /\ \A i \in S : i \in DOMAIN Params /\ Params[i].name = x
        /\ \A j \in DOMAIN Params : Params[j].name = x => j \in S
    OBVIOUS
  <2> HIDE DEF S
  <2>3. PICK i \in S : \A j \in S : i <= j
    BY <2>1, LeastNumber
  <2>4. QED
    BY <2>2, <2>3 DEF ParamIndex
<1>7. ASSUME NEW x \in DOMAIN ParamMem
      PROVE  /\ Sound(ParamMem[x])
             /\ \A o \in Mentioned(CalleeFunc) : o.name = x => ParamMem[x].t = o.type
  <2>1. x \in ParamNames /\ ParamMem[x] = SrcIn(CallerMem, Inst.args[ParamIndex(x)])
    BY <1>7 DEF ParamMem
  <2>2. PICK i \in DOMAIN Params : i = ParamIndex(x) /\ Params[i].name = x
    BY <1>6, <2>1
  <2>3. OfType(ParamMem[x], Params[i].type) /\ Params[i] \in Mentioned(CalleeFunc)
    BY <1>5, <2>1, <2>2
  <2>4. QED
    BY <1>4, <2>2, <2>3 DEF OneTypePerName, OfType
<1>8. QED
  BY <1>7 DEF MemTyped

\* The callee's answer has the type of the cell it is to be written to.
LEMMA ResultTyped ==
  ASSUME AtInst, Inst.op = "call", Inst.op1.name \notin LibFuncs,
         FunctionsNamed(Inst.op1.name) # {}, ResultAddr # NullAddr
  PROVE  /\ CalleeFunc.returnType \in {"Int", "Float"}
         /\ ResultAddr.scope > 0 =>
              /\ ResultAddr.scope = cur_ctx
              /\ \E o \in Mentioned(Func) :
                   o.name = ResultAddr.name /\ o.type = CalleeFunc.returnType
         /\ ResultAddr.scope = 0 => EntryOfType(ResultAddr.name, {CalleeFunc.returnType})
<1>1. /\ ResultAddr.name = Inst.des.name
      /\ \/ ResultAddr.scope = cur_ctx
         \/ ResultAddr.scope = 0 /\ ResultAddr.name \in DOMAIN global_vars
      /\ CalleeFunc.returnType # "null"
  BY CallerMemType DEF AtInst
<1>2. /\ CalleeFunc.returnType \in {"Int", "Float"}
      /\ Inst.des.type = CalleeFunc.returnType
      /\ Inst.des \in Mentioned(Func) /\ ~OnlyDefined(Func, Inst.des.name)
  BY <1>1, CallDisciplined
<1>3. cur_ctx \in Nat /\ cur_ctx > 0
  BY DEF AtInst, TypeInv
<1>4. ResultAddr.scope = 0 => EntryOfType(ResultAddr.name, {CalleeFunc.returnType})
  BY <1>1, <1>2, <1>3, GlobalFits
<1>5. QED
  BY <1>1, <1>2, <1>3, <1>4

LEMMA CallKeepsTyped ==
  ASSUME TypeInv, TypedInv, WellTyped(program), Call
  PROVE  TypedState'
<1>1. AtInst /\ Inst.op = "call" /\ Inst.op1.name \notin LibFuncs /\ Faults = {}
  BY ExecutingAt DEF Call
<1>2. FunctionsNamed(Inst.op1.name) # {}
  BY <1>1, NoFaults DEF CallFaults, UserCallFaults
<1> DEFINE x == [Cur EXCEPT !.pc = @ + 1, !.mem = CallerMem]
           callee == [pc |-> 0, retval_addr |-> ResultAddr, mem |-> ParamMem,
                      pfunc |-> Callee]
           suspended == [contexts EXCEPT ![cur_ctx] = x]
<1> PICK n : n = Len(contexts) + 1
  OBVIOUS
<1>3. /\ cur_ctx \in DOMAIN contexts /\ Cur \in Context /\ contexts \in Seq(Context)
      /\ Cur = contexts[cur_ctx]
  BY <1>1, CurType DEF AtInst, TypeInv, Cur
<1>4. x.pfunc = Cur.pfunc /\ x.retval_addr = Cur.retval_addr /\ x.mem = CallerMem
      /\ x \in Context
  BY <1>1, <1>3, StepContext, CallerMemType DEF AtInst
<1>5. contexts' = Append(suspended, callee)
  BY <1>3 DEF Call
<1>6. /\ callee.pfunc = Callee /\ callee.retval_addr = ResultAddr /\ callee.mem = ParamMem
  OBVIOUS
<1> HIDE DEF x, callee
<1>7. /\ DOMAIN contexts' = DOMAIN contexts \cup {n} /\ n \notin DOMAIN contexts
      /\ contexts'[n] = callee /\ contexts'[cur_ctx] = x
      /\ \A i \in DOMAIN contexts : i # cur_ctx => contexts'[i] = contexts[i]
  <2>1. /\ suspended \in Seq(Context) /\ Len(suspended) = Len(contexts)
        /\ suspended[cur_ctx] = x
        /\ \A i \in DOMAIN contexts : i # cur_ctx => suspended[i] = contexts[i]
    BY <1>3, <1>4
  <2> HIDE DEF suspended
  <2>2. QED
    BY <1>3, <1>5, <2>1
<1>8. program' = program /\ GlobalsTyped'
  BY <1>1, SameGlobals DEF Call, AtInst
<1>9. /\ \A i \in DOMAIN contexts : FuncAt(i)' = FuncAt(i)
      /\ FuncAt(n)' = CalleeFunc
      /\ FuncAt(cur_ctx) = Func
      /\ \A e, ts : EntryOfType(e, ts)' <=> EntryOfType(e, ts)
  <2>1. \A i \in DOMAIN contexts : contexts'[i].pfunc = contexts[i].pfunc
    BY <1>3, <1>4, <1>7
  <2>2. \A i \in DOMAIN contexts : FuncAt(i)' = FuncAt(i)
    BY <1>8, <2>1 DEF FuncAt
  <2>3. FuncAt(n)' = CalleeFunc /\ FuncAt(cur_ctx) = Func
    BY <1>3, <1>6, <1>7, <1>8 DEF FuncAt, CalleeFunc, Func
  <2>4. \A e, ts : EntryOfType(e, ts)' <=> EntryOfType(e, ts)
    BY <1>8 DEF EntryOfType, Globals
  <2>5. QED
    BY <2>2, <2>3, <2>4
<1>10. ASSUME NEW i \in DOMAIN contexts'
       PROVE  MemTyped(FuncAt(i), contexts[i].mem)'
  <2>1. CASE i = n
    BY <1>1, <1>6, <1>7, <1>9, <2>1, ParametersTyped
  <2>2. CASE i = cur_ctx
    BY <1>1, <1>2, <1>3, <1>4, <1>7, <1>9, <2>2, CallDisciplined
  <2>3. CASE i \in DOMAIN contexts /\ i # cur_ctx
    BY <1>1, <1>7, <1>9, <2>3 DEF AtInst, TypedState
  <2>4. QED
    BY <1>7, <1>10, <2>1, <2>2, <2>3
<1>11. ASSUME NEW i \in DOMAIN contexts'
       PROVE  AnswerTyped(i)'
  <2>1. CASE i = n
    <3>1. contexts'[i].retval_addr = ResultAddr /\ FuncAt(i)' = CalleeFunc
      BY <1>6, <1>7, <1>9, <2>1
    <3>2. CASE ResultAddr = NullAddr
      BY <3>1, <3>2 DEF AnswerTyped
    <3>3. CASE ResultAddr # NullAddr
      <4>1. /\ CalleeFunc.returnType \in {"Int", "Float"}
            /\ ResultAddr.scope > 0 =>
                 /\ ResultAddr.scope = cur_ctx
                 /\ \E o \in Mentioned(Func) :
                      o.name = ResultAddr.name /\ o.type = CalleeFunc.returnType
            /\ ResultAddr.scope = 0 =>
                 EntryOfType(ResultAddr.name, {CalleeFunc.returnType})
        BY <1>1, <1>2, <3>3, ResultTyped
      <4>2. \A s : s = ResultAddr.scope /\ s > 0 =>
              s \in DOMAIN contexts' /\ FuncAt(s)' = Func
        BY <1>3, <1>7, <1>9, <4>1
      <4>3. QED
        BY <1>9, <3>1, <4>1, <4>2 DEF AnswerTyped
    <3>4. QED
      BY <3>2, <3>3
  <2>2. CASE i \in DOMAIN contexts
    <3>1. AnswerTyped(i)
      BY <1>1, <2>2 DEF AtInst, TypedState
    <3>2. contexts'[i].retval_addr = contexts[i].retval_addr /\ FuncAt(i)' = FuncAt(i)
      BY <1>3, <1>4, <1>7, <1>9, <2>2
    <3>3. QED
      BY <1>7, <1>9, <3>1, <3>2 DEF AnswerTyped
  <2>3. QED
    BY <1>7, <1>11, <2>1, <2>2
<1>12. QED
  BY <1>8, <1>10, <1>11 DEF TypedState

\* run() gives every global the type of its first entry, and main a cell of
\* its own for a value it does return.
LEMMA RunTyped ==
  ASSUME TypeInv, WellTyped(program), Run
  PROVE  TypedState'
<1>1. program \in Program /\ program' = program /\ Globals \in Seq(GlobalVal)
  BY ProgType DEF TypeInv, Run, Program, Globals
<1>2. GlobalsTyped'
  <2>1. ASSUME NEW x \in GlobalNames
        PROVE  FirstEntry(x) \in DOMAIN Globals /\ Globals[FirstEntry(x)].val.name = x
    <3> DEFINE Entries == {i \in DOMAIN Globals : Globals[i].val.name = x}
    <3>1. Entries \subseteq Nat /\ Entries # {}
      BY <1>1 DEF GlobalNames
    <3>2. /\ \A i \in Entries : i \in DOMAIN Globals /\ Globals[i].val.name = x
          /\ \A j \in DOMAIN Globals : Globals[j].val.name = x => j \in Entries
      OBVIOUS
    <3> HIDE DEF Entries
    <3>3. PICK i \in Entries : \A j \in Entries : i <= j
      BY <3>1, LeastNumber
    <3>4. QED
      BY <3>2, <3>3 DEF FirstEntry
  <2>2. \A i : OfType(GlobalCell(i), Globals[i].val.type)
    BY LiteralCells DEF GlobalCell, OfType, Sound
  <2>3. ASSUME NEW x \in DOMAIN global_vars'
        PROVE  /\ Sound(global_vars'[x])
               /\ \E k \in DOMAIN Globals :
                    /\ Globals[k].val.name = x
                    /\ global_vars'[x].t = Globals[k].val.type
    <3>1. x \in GlobalNames /\ global_vars'[x] = GlobalCell(FirstEntry(x))
      BY <2>3 DEF Run
    <3>2. QED
      BY <2>1, <2>2, <3>1 DEF OfType
  <2>4. QED
    BY <1>1, <2>3 DEF GlobalsTyped, Globals
<1>3. /\ DOMAIN contexts' = {1} /\ contexts'[1].mem = <<>>
      /\ contexts'[1].pfunc = FirstMain /\ contexts'[1].retval_addr = MainRetAddr
  BY DEF Run
<1>4. FirstMain \in DOMAIN program.functions /\ program.functions[FirstMain].name = "main"
  <2> DEFINE S == FunctionsNamed("main")
  <2>1. S \subseteq Nat /\ S # {} /\ program.functions \in Seq(Function)
    BY <1>1 DEF Run, FunctionsNamed, Program
  <2>2. FirstMain = CHOOSE i \in S : \A j \in S : i <= j
    BY DEF FirstMain
  <2> HIDE DEF S
  <2>3. PICK i \in S : \A j \in S : i <= j
    BY <2>1, LeastNumber
  <2>4. FirstMain \in S
    BY <2>2, <2>3
  <2>5. QED
    BY <2>4 DEF S, FunctionsNamed
<1>5. program.functions[FirstMain].returnType \in {"Int", "Float"}
  BY <1>4 DEF WellTyped
<1>6. ASSUME NEW i \in DOMAIN contexts'
      PROVE  MemTyped(FuncAt(i), contexts[i].mem)' /\ AnswerTyped(i)'
  <2>1. FuncAt(i)' = program.functions[FirstMain] /\ contexts'[i].mem = <<>>
    BY <1>1, <1>3, <1>6 DEF FuncAt
  <2>2. MemTyped(FuncAt(i), contexts[i].mem)'
    BY <2>1 DEF MemTyped
  <2>3. contexts'[i].retval_addr.scope = -2
    BY <1>3, <1>6 DEF MainRetAddr
  <2>4. AnswerTyped(i)'
    BY <1>5, <2>1, <2>3 DEF AnswerTyped
  <2>5. QED
    BY <2>2, <2>4
<1>7. QED
  BY <1>2, <1>6 DEF TypedState

-----------------------------------------------------------------------------
(* The theorem.                                                             *)

LEMMA TypedInit == Init => TypedInv
<1> SUFFICES ASSUME Init PROVE TypedInv
  OBVIOUS
<1>1. contexts = <<>> /\ global_vars = <<>> /\ status = "constructed"
  BY DEF Init, Executor
<1>2. TypedState
  BY <1>1 DEF TypedState, GlobalsTyped
<1>3. QED
  BY <1>1, <1>2 DEF TypedInv, TypeFaults

LEMMA SameTyped ==
  ASSUME TypedState, UNCHANGED <<program, global_vars, contexts>>
  PROVE  TypedState'
<1>1. GlobalsTyped'
  BY SameGlobals
<1>2. QED
  BY <1>1, KeepTyped DEF TypedState

LEMMA NextTyped == TypeInv /\ TypedInv /\ [Next]_vars => TypedInv'
<1> SUFFICES ASSUME TypeInv, TypedInv, [Next]_vars, WellTyped(program)' PROVE
      TypedState' /\ status' \notin TypeFaults
  BY DEF TypedInv
<1>1. program' = program
  BY DEF Next, Run, RunFails, ExecIR, Ended, Return, Goto, Call, CallGet, CallGetArray,
     CallPut, Alloc, Store, Load, GetPtr, Move, Convert, IntBinary, Immediate, FloatBinary,
     Unused, Stop, LocalFrame, vars
<1>2. WellTyped(program)
  BY <1>1
<1>3. TypedState /\ status \notin TypeFaults
  BY <1>2 DEF TypedInv
<1>4. CASE Run
  BY <1>2, <1>4, RunTyped DEF Run, TypeFaults
<1>5. CASE RunFails
  <2>1. ~BadGlobals
    BY <1>2 DEF BadGlobals, WellTyped, Globals
  <2>2. status' = "no_main" /\ UNCHANGED <<program, global_vars, contexts>>
    BY <1>5, <2>1 DEF RunFails
  <2>3. QED
    BY <1>3, <2>2, SameTyped DEF TypeFaults
<1>6. CASE Stop
  <2>1. /\ status' = "pc_out_of_range" \/ (PcInRange /\ status' \in Faults)
        /\ UNCHANGED <<program, global_vars, contexts>> /\ status = "running"
    BY <1>6 DEF Stop
  <2>2. PcInRange => Faults \subseteq Harmless
    BY <1>2, <1>3, <2>1, FaultsHarmless DEF AtInst
  <2>3. QED
    BY <1>3, <2>1, <2>2, SameTyped DEF TypeFaults, Harmless
<1>7. CASE Ended \/ UNCHANGED vars
  <2>1. UNCHANGED <<program, global_vars, contexts, status>>
    BY <1>7 DEF Ended, vars
  <2>2. QED
    BY <1>3, <2>1, SameTyped
<1>8. CASE Return
  BY <1>2, <1>3, <1>8, ReturnTyped DEF Return, TypeFaults
<1>9. CASE Call
  BY <1>2, <1>3, <1>9, CallKeepsTyped DEF Call
<1>10. CASE Goto
  BY <1>2, <1>3, <1>10, GotoTyped DEF Goto
<1>11. CASE CallGet \/ CallGetArray
  BY <1>2, <1>3, <1>11, LibraryGetTyped DEF CallGet, CallGetArray, LocalFrame
<1>12. CASE Store \/ Unused \/ CallPut
  BY <1>2, <1>3, <1>12, AdvancingTyped DEF Store, Unused, CallPut, LocalFrame
<1>13. CASE Alloc \/ Load \/ GetPtr
  BY <1>2, <1>3, <1>13, PointersTyped DEF Alloc, Load, GetPtr, LocalFrame
<1>14. CASE Move
  BY <1>2, <1>3, <1>14, MoveTyped DEF Move, LocalFrame
<1>15. CASE Convert
  BY <1>2, <1>3, <1>15, ConvertTyped DEF Convert, LocalFrame
<1>16. CASE IntBinary \/ FloatBinary \/ Immediate
  BY <1>2, <1>3, <1>16, BinaryTyped DEF IntBinary, FloatBinary, Immediate, LocalFrame
<1>17. QED
  BY <1>4, <1>5, <1>6, <1>7, <1>8, <1>9, <1>10, <1>11, <1>12, <1>13, <1>14, <1>15, <1>16
     DEF Next, ExecIR

\* A program that keeps the discipline is executed without a failed assertion
\* about types and without a union read through the wrong member, whatever its
\* control flow, its recursion and its input are (ir_executor.cpp:61, 255, 369).
THEOREM WellTypedRunsSafely == Spec => []TypeSafe
<1>1. Init => TypedInv
  BY TypedInit
<1>2. TypeInv /\ TypedInv /\ [Next]_vars => TypedInv'
  BY NextTyped
<1>3. TypedInv => TypeSafe
  BY DEF TypedInv, TypeSafe
<1>4. QED
  BY <1>1, <1>2, <1>3, TypeInvariant, PTL DEF Spec
=============================================================================
