-------------------------- MODULE IRExecutorProofs --------------------------
(***************************************************************************)
(* Proofs about the executor: its types.                                   *)
(***************************************************************************)
EXTENDS IRExecutor, SequenceTheorems, WellFoundedInduction, TLAPS

-----------------------------------------------------------------------------
(* Memories.                                                                *)

LEMMA MemDef ==
  ASSUME NEW m \in Mem
  PROVE  /\ DOMAIN m \subseteq Names
         /\ \A x \in DOMAIN m : m[x] \in Cell
         /\ m \in [DOMAIN m -> Cell]
  BY DEF Mem

LEMMA MemIntro ==
  ASSUME NEW S \in SUBSET Names, NEW m \in [S -> Cell]
  PROVE  m \in Mem
  BY DEF Mem

\* map::insert and assignment through a name keep a memory a memory.
LEMMA InsertMem ==
  ASSUME NEW m \in Mem, NEW x \in Names, NEW c \in Cell
  PROVE  /\ Insert(m, x, c) \in Mem
         /\ DOMAIN Insert(m, x, c) = DOMAIN m \cup {x}
         /\ Insert(m, x, c)[x] = c
         /\ \A y \in DOMAIN m : y # x => Insert(m, x, c)[y] = m[y]
<1>1. DOMAIN m \cup {x} \in SUBSET Names
  BY MemDef
<1>2. Insert(m, x, c) \in [DOMAIN m \cup {x} -> Cell]
  BY MemDef DEF Insert
<1>3. QED
  BY <1>1, <1>2, MemIntro DEF Insert

LEMMA EmptyMem == <<>> \in Mem
<1>1. <<>> \in [{} -> Cell]
  OBVIOUS
<1>2. QED
  BY <1>1, MemIntro

\* The first and the last of some indices of a sequence.
LEMMA LeastNumber ==
  ASSUME NEW S \in SUBSET Nat, S # {}
  PROVE  \E i \in S : \A j \in S : i <= j
<1>1. PICK i \in S : \A j \in S : <<j, i>> \notin OpToRel(<, Nat)
  BY NatLessThanWellFounded, WFMin
<1>2. \A j \in S : <<j, i>> \in OpToRel(<, Nat) <=> j < i
  BY DEF OpToRel
<1>3. \A j \in S : ~(j < i)
  BY <1>1, <1>2, Zenon
<1>4. QED
  BY <1>3

LEMMA GreatestNumber ==
  ASSUME NEW n \in Nat, NEW S \in SUBSET (1 .. n), S # {}
  PROVE  \E i \in S : \A j \in S : j <= i
<1> DEFINE T == {n - i : i \in S}
<1>1. \A i \in S : n - i \in T
  OBVIOUS
<1>2. T \subseteq Nat
  OBVIOUS
<1>3. T # {}
  <2>1. PICK i \in S : TRUE
    OBVIOUS
  <2>2. QED
    BY <1>1, <2>1
<1>4. \A k \in T : \E i \in S : k = n - i
  OBVIOUS
<1> HIDE DEF T
<1>5. PICK k \in T : \A m \in T : k <= m
  BY <1>2, <1>3, LeastNumber
<1>6. PICK i \in S : k = n - i
  BY <1>4
<1>7. ASSUME NEW j \in S PROVE j <= i
  BY <1>1, <1>5, <1>6
<1>8. QED
  BY <1>7

LEMMA NoName == "null" \in Names
  BY NamesAssumption

LEMMA CellIntro ==
  /\ \A k \in Int : IntCell(k) \in Cell /\ FloatCell(k) \in Cell
  /\ \A ty \in Types : ZeroCell(ty) \in Cell
  BY DEF IntCell, FloatCell, ZeroCell, Cell, Types, IntKinds, FloatKinds, Pointers

-----------------------------------------------------------------------------
(* The type invariant, with sequences and memories as sets.                 *)

Blocks == UNION {[S -> Int] : S \in SUBSET Int}

TypeInv ==
  /\ program \in Programs
  /\ status \in {"constructed", "running", "finished"} \cup FaultNames
  /\ global_vars \in Mem
  /\ heap \in Seq(Blocks)
  /\ contexts \in Seq(Context)
  /\ \A i \in DOMAIN contexts : contexts[i].pfunc \in DOMAIN program.functions
  /\ cur_ctx \in 0 .. Len(contexts)
  /\ cxt_stack \in Seq(1 .. Len(contexts))
  /\ main_func_retval \in Cell
  /\ input \in Seq(Int)
  /\ status = "running" => cur_ctx # 0

LEMMA BlockType ==
  ASSUME NEW block \in Blocks, NEW i \in DOMAIN block
  PROVE  block[i] \in Int
  BY DEF Blocks

LEMMA TypeInvImpliesTypeOK == TypeInv => TypeOK
<1> SUFFICES ASSUME TypeInv PROVE TypeOK
  OBVIOUS
<1>1. ASSUME NEW i \in DOMAIN contexts
      PROVE  /\ contexts[i].pc \in Int
             /\ contexts[i].retval_addr \in Address
             /\ contexts[i].pfunc \in DOMAIN program.functions
             /\ DOMAIN contexts[i].mem \subseteq Names
             /\ \A x \in DOMAIN contexts[i].mem : contexts[i].mem[x] \in Cell
  <2>1. contexts[i] \in Context
    BY DEF TypeInv
  <2>2. contexts[i].mem \in Mem
    BY <2>1 DEF Context
  <2>3. QED
    BY <2>1, <2>2, MemDef DEF TypeInv, Context
<1>2. ASSUME NEW b \in DOMAIN heap, NEW i \in DOMAIN heap[b]
      PROVE  heap[b][i] \in Int
  <2>1. heap[b] \in Blocks
    BY DEF TypeInv
  <2>2. QED
    BY <2>1 DEF Blocks
<1>3. program \in ProgramTable
  BY DEF TypeInv, ProgramTable
<1>4. QED
  BY <1>1, <1>2, <1>3, MemDef DEF TypeInv, TypeOK

\* The program, the current context and its instruction.
LEMMA ProgType ==
  ASSUME program \in Programs
  PROVE  program \in Program
  BY ProgramsAssumption

LEMMA CurType ==
  ASSUME TypeInv, status = "running"
  PROVE  /\ cur_ctx \in DOMAIN contexts
         /\ Cur \in Context
         /\ Cur.mem \in Mem
         /\ Cur.pfunc \in DOMAIN program.functions
         /\ Body \in Seq(Instruction)
<1>1. cur_ctx \in DOMAIN contexts
  BY DEF TypeInv
<1>2. Cur \in Context /\ Cur.pfunc \in DOMAIN program.functions
  BY <1>1 DEF TypeInv, Cur
<1>3. program.functions \in Seq(Function)
  BY ProgType DEF TypeInv, Program
<1>4. program.functions[Cur.pfunc] \in Function
  BY <1>2, <1>3
<1>5. QED
  BY <1>1, <1>2, <1>4 DEF Context, Body, Function

LEMMA InstType ==
  ASSUME TypeInv, status = "running", PcInRange
  PROVE  /\ Inst \in Instruction
         /\ Inst.op \in Ops
         /\ Inst.op1 \in Operand /\ Inst.op2 \in Operand /\ Inst.des \in Operand
         /\ Inst.args \in Seq(Operand)
         /\ Cur.pc + 1 \in DOMAIN Body
<1>1. Cur.pc + 1 \in DOMAIN Body
  BY CurType DEF PcInRange, Context
<1>2. Inst \in Instruction
  BY <1>1, CurType DEF Inst
<1>3. QED
  BY <1>1, <1>2 DEF Instruction

LEMMA CreatedType ==
  ASSUME TypeInv, status = "running", NEW op \in Operand
  PROVE  /\ Created(op) \in Mem
         /\ DOMAIN Cur.mem \subseteq DOMAIN Created(op)
         /\ op.name \in DOMAIN Created(op) \cup DOMAIN global_vars
         /\ \A y \in DOMAIN Cur.mem : Created(op)[y] = Cur.mem[y]
<1>1. Cur.mem \in Mem /\ op.name \in Names /\ ZeroCell(op.type) \in Cell
  BY CurType, CellIntro DEF Operand
<1>2. CASE op.name \in DOMAIN Cur.mem \cup DOMAIN global_vars
  BY <1>1, <1>2 DEF Created
<1>3. CASE op.name \notin DOMAIN Cur.mem \cup DOMAIN global_vars
  <2>1. Created(op) = Insert(Cur.mem, op.name, ZeroCell(op.type))
    BY <1>3 DEF Created
  <2>2. /\ Insert(Cur.mem, op.name, ZeroCell(op.type)) \in Mem
        /\ DOMAIN Insert(Cur.mem, op.name, ZeroCell(op.type)) = DOMAIN Cur.mem \cup {op.name}
        /\ \A y \in DOMAIN Cur.mem : y # op.name =>
             Insert(Cur.mem, op.name, ZeroCell(op.type))[y] = Cur.mem[y]
    <3> DEFINE M == Cur.mem  z == ZeroCell(op.type)  x == op.name
    <3>1. M \in Mem /\ x \in Names /\ z \in Cell
      BY <1>1
    <3> HIDE DEF M, z, x
    <3>2. /\ Insert(M, x, z) \in Mem
          /\ DOMAIN Insert(M, x, z) = DOMAIN M \cup {x}
          /\ \A y \in DOMAIN M : y # x => Insert(M, x, z)[y] = M[y]
      BY <3>1, InsertMem
    <3>3. QED
      BY <3>2 DEF M, x, z
  <2>3. QED
    BY <1>3, <2>1, <2>2
<1>4. QED
  BY <1>2, <1>3

LEMMA EvalMemType ==
  ASSUME TypeInv, status = "running", PcInRange
  PROVE  EvalMem \in Mem
  BY CreatedType, CurType, InstType DEF EvalMem

\* An operand that is found is a Value.
LEMMA SrcInType ==
  ASSUME TypeInv, NEW mem \in Mem, NEW op \in Operand, FindFaults(mem, op) = {}
  PROVE  SrcIn(mem, op) \in Cell
<1>1. CASE op.type = "IntLiteral"
  <2>1. Wrap(op.lit) \in Int
    BY IntMaxAssumption DEF Wrap, Operand
  <2>2. QED
    BY <1>1, <2>1, CellIntro DEF SrcIn
<1>2. CASE op.type = "FloatLiteral"
  BY <1>2, CellIntro DEF SrcIn, Operand
<1>3. CASE op.type \notin Literals
  <2>1. op.name \in DOMAIN mem \cup DOMAIN global_vars
    BY <1>3 DEF FindFaults, Visible
  <2>2. Lookup(mem, op) \in Cell
    BY <2>1, MemDef DEF Lookup, TypeInv
  <2>3. QED
    BY <1>3, <2>2 DEF SrcIn, Literals
<1>4. QED
  BY <1>1, <1>2, <1>3 DEF Literals

LEMMA SrcType ==
  ASSUME TypeInv, status = "running", PcInRange,
         NEW op \in Operand, FindFaults(EvalMem, op) = {}
  PROVE  Src(op) \in Cell /\ Src(op).n \in Int /\ Src(op).b \in Nat
  BY EvalMemType, SrcInType DEF Src, Cell

LEMMA ReadFaultsNone ==
  ASSUME NEW op, NEW kinds, ReadFaults(op, kinds) = {}
  PROVE  FindFaults(EvalMem, op) = {} /\ op.type \in kinds
  BY DEF ReadFaults

-----------------------------------------------------------------------------
(* Updates of contexts and the globals.                                     *)

\* Replacing a context by one that runs the same function for the same caller.
LEMMA ContextUpdate ==
  ASSUME NEW s \in Seq(Context), NEW c \in DOMAIN s, NEW x \in Context
  PROVE  /\ [s EXCEPT ![c] = x] \in Seq(Context)
         /\ Len([s EXCEPT ![c] = x]) = Len(s)
         /\ DOMAIN [s EXCEPT ![c] = x] = DOMAIN s
         /\ [s EXCEPT ![c] = x][c] = x
         /\ \A i \in DOMAIN s : i # c => [s EXCEPT ![c] = x][i] = s[i]
  OBVIOUS

LEMMA PushContext ==
  ASSUME NEW s \in Seq(Context), NEW x \in Context
  PROVE  /\ Append(s, x) \in Seq(Context)
         /\ Len(Append(s, x)) = Len(s) + 1
         /\ Append(s, x)[Len(s) + 1] = x
         /\ \A i \in DOMAIN s : Append(s, x)[i] = s[i]
  OBVIOUS

LEMMA StepContext ==
  ASSUME NEW y \in Context, NEW m \in Mem
  PROVE  /\ [y EXCEPT !.pc = @ + 1, !.mem = m] \in Context
         /\ [y EXCEPT !.pc = @ + 1, !.mem = m].pc = y.pc + 1
         /\ [y EXCEPT !.pc = @ + 1, !.mem = m].mem = m
         /\ [y EXCEPT !.pc = @ + 1, !.mem = m].pfunc = y.pfunc
         /\ [y EXCEPT !.pc = @ + 1, !.mem = m].retval_addr = y.retval_addr
<1>1. [y EXCEPT !.pc = @ + 1] \in Context
  BY DEF Context
<1>2. [[y EXCEPT !.pc = @ + 1] EXCEPT !.mem = m] \in Context
  BY <1>1 DEF Context
<1>3. QED
  BY <1>2 DEF Context

LEMMA JumpContext ==
  ASSUME NEW y \in Context, NEW d \in Int
  PROVE  /\ [y EXCEPT !.pc = @ + d] \in Context
         /\ [y EXCEPT !.pc = @ + d].mem = y.mem
         /\ [y EXCEPT !.pc = @ + d].pfunc = y.pfunc
         /\ [y EXCEPT !.pc = @ + d].retval_addr = y.retval_addr
  BY DEF Context

LEMMA AdvanceType ==
  ASSUME TypeInv, status = "running", NEW m \in Mem, Advance(m)
  PROVE  /\ contexts' \in Seq(Context)
         /\ Len(contexts') = Len(contexts)
         /\ contexts'[cur_ctx] = [Cur EXCEPT !.pc = @ + 1, !.mem = m]
         /\ \A i \in DOMAIN contexts : i # cur_ctx => contexts'[i] = contexts[i]
         /\ \A i \in DOMAIN contexts : contexts'[i].pfunc = contexts[i].pfunc
<1> DEFINE x == [Cur EXCEPT !.pc = @ + 1, !.mem = m]
<1>1. cur_ctx \in DOMAIN contexts /\ Cur \in Context /\ contexts \in Seq(Context)
  BY CurType DEF TypeInv
<1>2. x \in Context /\ x.pfunc = Cur.pfunc
  BY <1>1, StepContext
<1>3. contexts' = [contexts EXCEPT ![cur_ctx] = x]
  BY <1>1 DEF Advance, Cur
<1>4. Cur = contexts[cur_ctx]
  BY DEF Cur
<1> HIDE DEF x
<1>5. /\ contexts' \in Seq(Context)
      /\ Len(contexts') = Len(contexts)
      /\ contexts'[cur_ctx] = x
      /\ \A i \in DOMAIN contexts : i # cur_ctx => contexts'[i] = contexts[i]
  BY <1>1, <1>2, <1>3, ContextUpdate
<1>6. QED
  BY <1>2, <1>4, <1>5 DEF x

LEMMA PutType ==
  ASSUME TypeInv, status = "running", NEW des \in Operand, NEW c \in Cell, Put(des, c)
  PROVE  /\ contexts' \in Seq(Context)
         /\ Len(contexts') = Len(contexts)
         /\ global_vars' \in Mem
         /\ \A i \in DOMAIN contexts : contexts'[i].pfunc = contexts[i].pfunc
<1>1. Cur.mem \in Mem /\ global_vars \in Mem /\ des.name \in Names
  BY CurType DEF TypeInv, Operand
<1>2. CASE des.name \in DOMAIN global_vars \ DOMAIN Cur.mem
  <2>1. Advance(Cur.mem) /\ global_vars' = Insert(global_vars, des.name, c)
    BY <1>2 DEF Put
  <2>2. global_vars' \in Mem
    BY <1>1, <2>1, InsertMem
  <2>3. QED
    BY <1>1, <2>1, <2>2, AdvanceType
<1>3. CASE des.name \notin DOMAIN global_vars \ DOMAIN Cur.mem
  <2> DEFINE m == Insert(Cur.mem, des.name, c)
  <2>1. Advance(m) /\ global_vars' = global_vars
    BY <1>3 DEF Put
  <2>2. m \in Mem
    <3> DEFINE M == Cur.mem  x == des.name
    <3>1. M \in Mem /\ x \in Names
      BY <1>1
    <3> HIDE DEF M, x
    <3>2. Insert(M, x, c) \in Mem
      BY <3>1, InsertMem
    <3>3. QED
      BY <3>2 DEF M, x
  <2> HIDE DEF m
  <2>3. QED
    BY <1>1, <2>1, <2>2, AdvanceType
<1>4. QED
  BY <1>2, <1>3

LEMMA PutMemberType ==
  ASSUME TypeInv, status = "running", PcInRange,
         NEW m \in {"ival", "fval", "iptr", "fptr"}, NEW k \in Int, NEW b \in Nat,
         PutMember(m, k, b)
  PROVE  /\ contexts' \in Seq(Context)
         /\ Len(contexts') = Len(contexts)
         /\ global_vars' \in Mem
         /\ \A i \in DOMAIN contexts : contexts'[i].pfunc = contexts[i].pfunc
<1> DEFINE old == Lookup(Created(Inst.des), Inst.des)
           new == [t |-> old.t, m |-> m, n |-> k, b |-> b]
<1>1. Inst.des \in Operand
  BY InstType
<1>2. old \in Cell
  BY <1>1, CreatedType, MemDef DEF Lookup, TypeInv
<1>3. new \in Cell
  BY <1>2 DEF Cell
<1>4. Put(Inst.des, new)
  BY DEF PutMember
<1> HIDE DEF new
<1>5. QED
  BY <1>1, <1>3, <1>4, PutType

LEMMA AnswerContext ==
  ASSUME NEW y \in Context, NEW x \in Names, NEW c \in Cell
  PROVE  /\ [y EXCEPT !.mem = Insert(@, x, c)] \in Context
         /\ [y EXCEPT !.mem = Insert(@, x, c)].pfunc = y.pfunc
         /\ [y EXCEPT !.mem = Insert(@, x, c)].retval_addr = y.retval_addr
         /\ [y EXCEPT !.mem = Insert(@, x, c)].pc = y.pc
         /\ [y EXCEPT !.mem = Insert(@, x, c)].mem = Insert(y.mem, x, c)
<1>1. y.mem \in Mem
  BY DEF Context
<1>2. Insert(y.mem, x, c) \in Mem
  BY <1>1, InsertMem
<1>3. QED
  BY <1>2 DEF Context

LEMMA WriteThroughType ==
  ASSUME TypeInv, NEW p \in Address, NEW c \in Cell, WriteThrough(p, c)
  PROVE  /\ contexts' \in Seq(Context)
         /\ Len(contexts') = Len(contexts)
         /\ \A i \in DOMAIN contexts :
              contexts'[i].pfunc = contexts[i].pfunc
         /\ global_vars' \in Mem /\ main_func_retval' \in Cell
<1>1. p.scope \in Int /\ p.name \in Names
  BY DEF Address
<1>2. global_vars' \in Mem
  <2>1. Insert(global_vars, p.name, c) \in Mem
    BY <1>1, InsertMem DEF TypeInv
  <2>2. QED
    BY <2>1 DEF WriteThrough, TypeInv
<1>3. CASE p.scope \in DOMAIN contexts
  <2> DEFINE x == [contexts[p.scope] EXCEPT !.mem = Insert(@, p.name, c)]
  <2>1. contexts[p.scope] \in Context /\ contexts \in Seq(Context)
    BY <1>3 DEF TypeInv
  <2>2. x \in Context /\ x.pfunc = contexts[p.scope].pfunc
    BY <1>1, <2>1, AnswerContext
  <2>3. contexts' = [contexts EXCEPT ![p.scope] = x]
    BY <1>3 DEF WriteThrough
  <2> HIDE DEF x
  <2>4. QED
    BY <1>2, <1>3, <2>1, <2>2, <2>3, ContextUpdate DEF WriteThrough, TypeInv
<1>4. CASE p.scope \notin DOMAIN contexts
  BY <1>2, <1>4 DEF WriteThrough, TypeInv
<1>5. QED
  BY <1>3, <1>4

-----------------------------------------------------------------------------
(* What an instruction that completes has checked.                          *)

LEMMA NoFaults ==
  ASSUME Faults = {}
  PROVE  /\ Inst.op = "return" => ReturnFaults = {}
         /\ Inst.op = "goto" =>
              /\ ReadFaults(Inst.des, IntKinds) = {}
              /\ Inst.op1.type # "null" => FindFaults(Cur.mem, Inst.op1) = {}
         /\ Inst.op = "call" => CallFaults = {}
         /\ Inst.op = "alloc" => AllocFaults = {}
         /\ Inst.op \in {"store", "load"} => AccessFaults = {}
         /\ Inst.op = "getptr" =>
              ReadFaults(Inst.op2, IntKinds) = {} /\ ReadFaults(Inst.op1, Pointers) = {}
         /\ Inst.op \in {"mov", "def", "not", "cvt_i2f"} =>
              ReadFaults(Inst.op1, IntKinds) = {}
         /\ Inst.op \in {"fmov", "fdef", "cvt_f2i"} => ReadFaults(Inst.op1, FloatKinds) = {}
         /\ Inst.op \in IntOps => BinaryFaults(IntKinds, "Int") = {}
         /\ Inst.op \in FloatOps => BinaryFaults(FloatKinds, "Float") = {}
         /\ Inst.op \in {"addi", "subi"} => ReadFaults(Inst.op1, {"Int"}) = {}
  BY DEF Faults, IntOps, FloatOps

LEMMA ReadType ==
  ASSUME TypeInv, status = "running", PcInRange,
         NEW op \in Operand, NEW kinds, ReadFaults(op, kinds) = {}
  PROVE  Src(op) \in Cell /\ Src(op).n \in Int /\ Src(op).b \in Nat
  BY ReadFaultsNone, SrcType

LEMMA FaultsNamed == Faults \subseteq FaultNames
<1>1. \A mem, op : FindFaults(mem, op) \subseteq FaultNames
  BY DEF FindFaults, FaultNames
<1>2. \A op, kinds : ReadFaults(op, kinds) \subseteq FaultNames
  BY <1>1 DEF ReadFaults, FaultNames
<1>3. \A kinds : DesIs(kinds) \subseteq FaultNames
  BY DEF DesIs, FaultNames
<1>4. \A kinds, des : BinaryFaults(kinds, des) \subseteq FaultNames
  BY <1>2, <1>3 DEF BinaryFaults, FaultNames
<1>5. AccessFaults \subseteq FaultNames /\ AllocFaults \subseteq FaultNames
      /\ ReturnFaults \subseteq FaultNames
  BY <1>1, <1>2, <1>3 DEF AccessFaults, AllocFaults, ReturnFaults, FaultNames
<1>6. CallFaults \subseteq FaultNames
  <2>1. UserCallFaults \subseteq FaultNames
    BY <1>1 DEF UserCallFaults, FaultNames
  <2>2. \A i, ty : LibArgFaults(i, ty) \subseteq FaultNames
    BY <1>1 DEF LibArgFaults, FaultNames
  <2>3. \A fn : LibFaults(fn) \subseteq FaultNames
    BY <2>2 DEF LibFaults, FaultNames
  <2>4. \A fn : LibMemoryFaults(fn) \subseteq FaultNames
    BY DEF LibMemoryFaults, FaultNames
  <2>5. QED
    BY <2>1, <2>3, <2>4 DEF CallFaults
<1>7. "operand_type" \in FaultNames
  BY DEF FaultNames
<1>8. QED
  BY <1>1, <1>2, <1>3, <1>4, <1>5, <1>6, <1>7 DEF Faults

\* The results of the operators are ints (of halves).
LEMMA WrapType == \A k \in Int : Wrap(k) \in Int
  BY IntMaxAssumption DEF Wrap

LEMMA CDivType == \A a, b \in Int : b # 0 => CDiv(a, b) \in Int
<1> SUFFICES ASSUME NEW a \in Int, NEW b \in Int, b # 0 PROVE CDiv(a, b) \in Int
  OBVIOUS
<1>1. Abs(a) \in Nat /\ Abs(b) \in Nat /\ Abs(b) > 0 /\ Sign(a) \in Int /\ Sign(b) \in Int
  BY DEF Abs, Sign
<1>2. QED
  BY <1>1 DEF CDiv

LEMMA BoolType == \A p : Bool(p) \in Int
  BY DEF Bool

LEMMA IntResultType ==
  ASSUME NEW op \in IntOps \cup {"addi", "subi"}, NEW a \in Int, NEW b \in Int,
         op \in {"div", "mod"} => b # 0
  PROVE  IntResult(op, a, b) \in Int
<1>1. CASE op \in {"div", "mod"}
  <2>1. CDiv(a, b) \in Int
    BY <1>1, CDivType
  <2>2. QED
    BY <1>1, <2>1, WrapType DEF IntResult, CMod
<1>2. CASE op \in {"add", "addi", "sub", "subi", "mul"}
  BY <1>2, WrapType DEF IntResult
<1>3. CASE op \notin {"div", "mod", "add", "addi", "sub", "subi", "mul"}
  BY <1>3 DEF IntResult, IntOps, Bool
<1>4. QED
  BY <1>1, <1>2, <1>3

LEMMA FloatResultType ==
  ASSUME NEW op \in FloatOps, NEW a \in Int, NEW b \in Int, op = "fdiv" => b # 0
  PROVE  FloatResult(op, a, b) \in Int
<1>1. CASE op = "fmul"
  <2>1. a * b \in Int
    OBVIOUS
  <2>2. CDiv(a * b, 2) \in Int
    BY <2>1, CDivType
  <2>3. QED
    BY <1>1, <2>2 DEF FloatResult
<1>2. CASE op = "fdiv"
  <2>1. CDiv(2 * a, b) \in Int
    BY <1>2, CDivType
  <2>2. QED
    BY <1>2, <2>1 DEF FloatResult
<1>3. CASE op \notin {"fdiv", "fmul"}
  BY <1>3 DEF FloatResult, FloatOps, Bool
<1>4. QED
  BY <1>1, <1>2, <1>3

-----------------------------------------------------------------------------
(* Every action keeps the types.                                            *)

LEMMA KeepTypes ==
  ASSUME TypeInv, LocalFrame,
         contexts' \in Seq(Context), Len(contexts') = Len(contexts),
         \A i \in DOMAIN contexts : contexts'[i].pfunc = contexts[i].pfunc,
         global_vars' \in Mem, heap' \in Seq(Blocks), input' \in Seq(Int)
  PROVE  TypeInv'
<1>1. DOMAIN contexts' = DOMAIN contexts
  BY DEF TypeInv
<1>2. program' = program
  BY DEF LocalFrame
<1>3. QED
  BY <1>1, <1>2 DEF TypeInv, LocalFrame

LEMMA InitTypes == Init => TypeInv
<1> SUFFICES ASSUME Init PROVE TypeInv
  OBVIOUS
<1>1. <<>> \in Mem /\ ZeroCell("null") \in Cell
  BY EmptyMem, CellIntro DEF Types
<1>2. input \in Seq(Int)
  <2>1. input \in Seq((-IntMax - 1) .. IntMax)
    BY InputsAssumption DEF Init, Executor
  <2>2. QED
    BY <2>1, IntMaxAssumption
<1>3. program \in Programs
  BY DEF Init, Executor, ProgramTable
<1>4. QED
  BY <1>1, <1>2, <1>3 DEF Init, Executor, TypeInv

LEMMA RunTypes == TypeInv /\ Run => TypeInv'
<1> SUFFICES ASSUME TypeInv, Run PROVE TypeInv'
  OBVIOUS
<1>1. program \in Program /\ program' = program
  BY ProgType DEF TypeInv, Run
<1>2. Globals \in Seq(GlobalVal) /\ program.functions \in Seq(Function)
  BY <1>1 DEF Program, Globals
<1>3. global_vars' \in Mem
  <2>1. ASSUME NEW i \in DOMAIN Globals
        PROVE  Globals[i].val \in Operand /\ Globals[i].maxlen \in Nat
    <3>1. Globals[i] \in GlobalVal
      BY <1>2
    <3>2. QED
      BY <3>1 DEF GlobalVal
  <2>2. GlobalNames \in SUBSET Names
    BY <2>1 DEF GlobalNames, Operand
  <2>3. ASSUME NEW x \in GlobalNames PROVE GlobalCell(FirstEntry(x)) \in Cell
    <3>1. FirstEntry(x) \in DOMAIN Globals
      <4> DEFINE Entries == {i \in DOMAIN Globals : Globals[i].val.name = x}
      <4>1. Entries \subseteq Nat /\ Entries # {}
        BY <1>2 DEF GlobalNames
      <4>2. \A i \in Entries : i \in DOMAIN Globals /\ Globals[i].val.name = x
        OBVIOUS
      <4>3. \A j \in DOMAIN Globals : Globals[j].val.name = x => j \in Entries
        OBVIOUS
      <4> HIDE DEF Entries
      <4>4. PICK i \in Entries : \A j \in Entries : i <= j
        BY <4>1, LeastNumber
      <4>5. QED
        BY <4>2, <4>3, <4>4 DEF FirstEntry
    <3>2. Globals[FirstEntry(x)].val.type \in Types /\ FirstEntry(x) \in Nat
      BY <1>2, <2>1, <3>1 DEF Operand
    <3>3. MemberOf(Globals[FirstEntry(x)].val.type) \in {"ival", "fval", "iptr", "fptr"}
      BY DEF MemberOf
    <3> DEFINE e == FirstEntry(x)  ty == Globals[e].val.type
    <3>4. [t |-> ty, m |-> MemberOf(ty), n |-> 0, b |-> e] \in Cell
      BY <3>2, <3>3 DEF Cell
    <3>5. ZeroCell(ty) \in Cell
      BY <3>2, CellIntro
    <3>6. QED
      BY <3>4, <3>5 DEF GlobalCell
  <2>4. QED
    BY <2>2, <2>3, MemIntro DEF Run
<1>4. heap' \in Seq(Blocks)
  <2>1. \A i \in DOMAIN Globals :
          [k \in 0 .. (Globals[i].maxlen - 1) |-> 0] \in Blocks
    BY DEF Blocks
  <2>2. DOMAIN Globals = 1 .. Len(Globals) /\ Len(Globals) \in Nat
    BY <1>2
  <2>3. heap' \in [1 .. Len(Globals) -> Blocks]
    BY <2>1, <2>2 DEF Run
  <2>4. QED
    BY <2>2, <2>3
<1>5. FirstMain \in DOMAIN program.functions
  <2>1. FunctionsNamed("main") \subseteq Nat /\ FunctionsNamed("main") # {}
    BY <1>2 DEF Run, FunctionsNamed
  <2>2. FirstMain \in FunctionsNamed("main")
    <3>1. PICK i \in FunctionsNamed("main") :
                 \A j \in FunctionsNamed("main") : i <= j
      BY <2>1, LeastNumber
    <3>2. QED
      BY <3>1 DEF FirstMain
  <2>3. QED
    BY <2>2 DEF FunctionsNamed
<1>6. contexts' \in Seq(Context) /\ Len(contexts') = 1 /\ contexts'[1].pfunc = FirstMain
  BY <1>2, <1>5, EmptyMem, NoName DEF Run, Context, Address, MainRetAddr
<1>7. QED
  BY <1>1, <1>3, <1>4, <1>5, <1>6 DEF Run, TypeInv

LEMMA StopTypes ==
  TypeInv /\ (Stop \/ RunFails \/ UNCHANGED vars) => TypeInv'
<1> SUFFICES ASSUME TypeInv, Stop \/ RunFails \/ UNCHANGED vars PROVE TypeInv'
  OBVIOUS
<1>1. program' = program
  BY DEF Stop, RunFails, vars
<1>2. status' \in {"constructed", "running", "finished"} \cup FaultNames
  BY FaultsNamed DEF Stop, RunFails, vars, TypeInv, FaultNames
<1>3. status' = "running" => status = "running"
  <2>1. "running" \notin FaultNames
    BY DEF FaultNames
  <2>2. QED
    BY <2>1, FaultsNamed DEF Stop, RunFails, vars
<1>4. QED
  BY <1>1, <1>2, <1>3 DEF Stop, RunFails, vars, TypeInv

LEMMA MoveTypes == TypeInv /\ Move => TypeInv'
<1> SUFFICES ASSUME TypeInv, Move PROVE TypeInv'
  OBVIOUS
<1>1. status = "running" /\ PcInRange /\ Faults = {}
  BY DEF Move, Executing
<1>2. Inst.op1 \in Operand /\ Inst.des \in Operand
  BY <1>1, InstType
<1>3. FindFaults(EvalMem, Inst.op1) = {}
  BY <1>1, NoFaults, ReadFaultsNone DEF Move, Executing
<1>4. Src(Inst.op1) \in Cell
  BY <1>1, <1>2, <1>3, SrcType
<1>5. QED
  BY <1>1, <1>2, <1>4, PutType, KeepTypes DEF Move, TypeInv

LEMMA ConvertTypes == TypeInv /\ Convert => TypeInv'
<1> SUFFICES ASSUME TypeInv, Convert PROVE TypeInv'
  OBVIOUS
<1>1. status = "running" /\ PcInRange /\ Faults = {}
  BY DEF Convert, Executing
<1>2. Inst.op1 \in Operand
  BY <1>1, InstType
<1>3. Src(Inst.op1).n \in Int
  BY <1>1, <1>2, NoFaults, ReadType DEF Convert, Executing
<1>4. Wrap(CDiv(Src(Inst.op1).n, 2)) \in Int
  BY <1>3, CDivType, WrapType
<1> DEFINE v == Src(Inst.op1).n
<1>5. \E m \in {"ival", "fval"}, k \in Int : PutMember(m, k, 0)
  <2>1. \/ PutMember("ival", Bool(v = 0), 0) \/ PutMember("fval", 2 * v, 0)
        \/ PutMember("ival", Wrap(CDiv(v, 2)), 0)
    BY DEF Convert, Executing
  <2>2. Bool(v = 0) \in Int /\ 2 * v \in Int
    BY <1>3, BoolType
  <2> HIDE DEF v
  <2>3. Wrap(CDiv(v, 2)) \in Int
    BY <1>4 DEF v
  <2>4. QED
    BY <2>1, <2>2, <2>3
<1>6. QED
  BY <1>1, <1>5, PutMemberType, KeepTypes DEF Convert, TypeInv

LEMMA IntBinaryTypes == TypeInv /\ IntBinary => TypeInv'
<1> SUFFICES ASSUME TypeInv, IntBinary PROVE TypeInv'
  OBVIOUS
<1>1. status = "running" /\ PcInRange /\ Faults = {} /\ Inst.op \in IntOps
  BY DEF IntBinary, Executing
<1>2. Inst.op1 \in Operand /\ Inst.op2 \in Operand
  BY <1>1, InstType
<1>3. /\ ReadFaults(Inst.op1, IntKinds) = {} /\ ReadFaults(Inst.op2, IntKinds) = {}
      /\ Inst.op \in {"div", "mod"} => Src(Inst.op2).n # 0
  BY <1>1, NoFaults DEF BinaryFaults
<1>4. Src(Inst.op1).n \in Int /\ Src(Inst.op2).n \in Int
  BY <1>1, <1>2, <1>3, ReadType
<1>5. IntResult(Inst.op, Src(Inst.op1).n, Src(Inst.op2).n) \in Int
  BY <1>1, <1>3, <1>4, IntResultType
<1>6. QED
  BY <1>1, <1>5, PutMemberType, KeepTypes DEF IntBinary, TypeInv

LEMMA FloatBinaryTypes == TypeInv /\ FloatBinary => TypeInv'
<1> SUFFICES ASSUME TypeInv, FloatBinary PROVE TypeInv'
  OBVIOUS
<1>1. status = "running" /\ PcInRange /\ Faults = {} /\ Inst.op \in FloatOps
  BY DEF FloatBinary, Executing
<1>2. Inst.op1 \in Operand /\ Inst.op2 \in Operand
  BY <1>1, InstType
<1>3. /\ ReadFaults(Inst.op1, FloatKinds) = {} /\ ReadFaults(Inst.op2, FloatKinds) = {}
      /\ Inst.op = "fdiv" => Src(Inst.op2).n # 0
  BY <1>1, NoFaults DEF BinaryFaults
<1>4. Src(Inst.op1).n \in Int /\ Src(Inst.op2).n \in Int
  BY <1>1, <1>2, <1>3, ReadType
<1>5. FloatResult(Inst.op, Src(Inst.op1).n, Src(Inst.op2).n) \in Int
  BY <1>1, <1>3, <1>4, FloatResultType
<1>6. QED
  BY <1>1, <1>5, PutMemberType, KeepTypes DEF FloatBinary, TypeInv

LEMMA ImmediateTypes == TypeInv /\ Immediate => TypeInv'
<1> SUFFICES ASSUME TypeInv, Immediate PROVE TypeInv'
  OBVIOUS
<1>1. status = "running" /\ PcInRange /\ Faults = {} /\ Inst.op \in {"addi", "subi"}
  BY DEF Immediate, Executing
<1>2. Inst.op1 \in Operand /\ Inst.op2.lit \in Int
  BY <1>1, InstType DEF Operand
<1>3. Src(Inst.op1).n \in Int
  BY <1>1, <1>2, NoFaults, ReadType
<1>4. IntResult(Inst.op, Src(Inst.op1).n, Inst.op2.lit) \in Int
  BY <1>1, <1>2, <1>3, IntResultType
<1>5. QED
  BY <1>1, <1>4, PutMemberType, KeepTypes DEF Immediate, TypeInv

\* The element an access names lies in the heap.
LEMMA AccessType ==
  ASSUME TypeInv, status = "running", PcInRange, Faults = {},
         Inst.op \in {"store", "load"}
  PROVE  /\ Element[1] \in DOMAIN heap /\ Element[2] \in DOMAIN heap[Element[1]]
         /\ heap[Element[1]] \in Blocks
         /\ heap[Element[1]][Element[2]] \in Int
         /\ Inst.op = "store" => Src(Inst.des).n \in Int
<1>1. Inst.op1 \in Operand /\ Inst.op2 \in Operand /\ Inst.des \in Operand
  BY InstType
<1>2. AccessFaults = {}
  BY NoFaults
<1>3. /\ InBlock(Src(Inst.op1), Src(Inst.op2).n)
      /\ Inst.op = "store" => \E kinds : ReadFaults(Inst.des, kinds) = {}
  BY <1>2 DEF AccessFaults
<1>4. Element[1] \in DOMAIN heap /\ Element[2] \in DOMAIN heap[Element[1]]
  BY <1>3 DEF InBlock, Element
<1>5. heap[Element[1]] \in Blocks
  BY <1>4 DEF TypeInv
<1>6. heap[Element[1]][Element[2]] \in Int
  BY <1>4, <1>5, BlockType
<1>7. QED
  BY <1>1, <1>3, <1>4, <1>5, <1>6, ReadType

LEMMA StoreTypes == TypeInv /\ Store => TypeInv'
<1> SUFFICES ASSUME TypeInv, Store PROVE TypeInv'
  OBVIOUS
<1>1. status = "running" /\ PcInRange /\ Faults = {} /\ Inst.op = "store"
  BY DEF Store, Executing
<1> DEFINE b == Element[1]  i == Element[2]  n == Src(Inst.des).n
<1>2. b \in DOMAIN heap /\ heap[b] \in Blocks /\ n \in Int
  BY <1>1, AccessType
<1>3. heap' = [heap EXCEPT ![b] = [heap[b] EXCEPT ![i] = n]]
  BY DEF Store
<1> HIDE DEF b, i, n
<1>4. [heap[b] EXCEPT ![i] = n] \in Blocks
  BY <1>2 DEF Blocks
<1>5. heap' \in Seq(Blocks)
  BY <1>2, <1>3, <1>4 DEF TypeInv
<1>6. Cur.mem \in Mem
  BY <1>1, CurType
<1>7. QED
  BY <1>1, <1>5, <1>6, AdvanceType, KeepTypes DEF Store, TypeInv

LEMMA MembersType == \A ty : MemberOf(ty) \in {"ival", "fval", "iptr", "fptr"}
  BY DEF MemberOf

LEMMA LoadTypes == TypeInv /\ Load => TypeInv'
<1> SUFFICES ASSUME TypeInv, Load PROVE TypeInv'
  OBVIOUS
<1>1. status = "running" /\ PcInRange /\ Faults = {} /\ Inst.op = "load"
  BY DEF Load, Executing
<1>2. heap[Element[1]][Element[2]] \in Int
  BY <1>1, AccessType
<1>3. QED
  BY <1>1, <1>2, MembersType, PutMemberType, KeepTypes DEF Load, TypeInv

LEMMA GetPtrTypes == TypeInv /\ GetPtr => TypeInv'
<1> SUFFICES ASSUME TypeInv, GetPtr PROVE TypeInv'
  OBVIOUS
<1>1. status = "running" /\ PcInRange /\ Faults = {} /\ Inst.op = "getptr"
  BY DEF GetPtr, Executing
<1>2. Inst.op1 \in Operand /\ Inst.op2 \in Operand
  BY <1>1, InstType
<1>3. ReadFaults(Inst.op1, Pointers) = {} /\ ReadFaults(Inst.op2, IntKinds) = {}
  BY <1>1, NoFaults
<1>4. Src(Inst.op1).b \in Nat /\ Src(Inst.op1).n \in Int /\ Src(Inst.op2).n \in Int
  BY <1>1, <1>2, <1>3, ReadType
<1>5. Element[1] \in Nat /\ Element[2] \in Int
  BY <1>4 DEF Element
<1>6. QED
  BY <1>1, <1>5, MembersType, PutMemberType, KeepTypes DEF GetPtr, TypeInv

LEMMA AllocTypes == TypeInv /\ Alloc => TypeInv'
<1> SUFFICES ASSUME TypeInv, Alloc PROVE TypeInv'
  OBVIOUS
<1>1. status = "running" /\ PcInRange
  BY DEF Alloc, Executing
<1>2. PICK j \in Junk : heap' = Append(heap, [k \in 0 .. (Src(Inst.op1).n - 1) |-> j])
  BY DEF Alloc
<1>3. j \in Int
  BY JunkAssumption, IntMaxAssumption
<1>4. [k \in 0 .. (Src(Inst.op1).n - 1) |-> j] \in Blocks
  BY <1>3 DEF Blocks
<1>5. heap' \in Seq(Blocks) /\ Len(heap) + 1 \in Nat
  BY <1>2, <1>4 DEF TypeInv
<1> DEFINE m == MemberOf(Inst.des.type)  b == Len(heap) + 1
<1>6. PutMember(m, 0, b) /\ LocalFrame /\ input' = input
  BY DEF Alloc
<1>7. m \in {"ival", "fval", "iptr", "fptr"} /\ b \in Nat
  BY <1>5, MembersType
<1> HIDE DEF m, b
<1>8. /\ contexts' \in Seq(Context) /\ Len(contexts') = Len(contexts)
      /\ global_vars' \in Mem
      /\ \A i \in DOMAIN contexts : contexts'[i].pfunc = contexts[i].pfunc
  BY <1>1, <1>6, <1>7, PutMemberType
<1>9. input' \in Seq(Int)
  BY <1>6 DEF TypeInv
<1>10. QED
  BY <1>5, <1>6, <1>8, <1>9, KeepTypes

LEMMA UnusedTypes == TypeInv /\ Unused => TypeInv'
<1> SUFFICES ASSUME TypeInv, Unused PROVE TypeInv'
  OBVIOUS
<1>1. status = "running" /\ Cur.mem \in Mem
  BY CurType DEF Unused, Executing
<1>2. QED
  BY <1>1, AdvanceType, KeepTypes DEF Unused, TypeInv

LEMMA GotoTypes == TypeInv /\ Goto => TypeInv'
<1> SUFFICES ASSUME TypeInv, Goto PROVE TypeInv'
  OBVIOUS
<1>1. status = "running" /\ PcInRange /\ Faults = {} /\ Inst.op = "goto"
  BY DEF Goto, Executing
<1> DEFINE d == IF Taken THEN Src(Inst.des).n ELSE 1
           x == [Cur EXCEPT !.pc = @ + d]
<1>2. d \in Int
  BY <1>1, InstType, NoFaults, ReadType
<1>3. cur_ctx \in DOMAIN contexts /\ Cur \in Context /\ contexts \in Seq(Context)
  BY <1>1, CurType DEF TypeInv
<1>4. contexts' = [contexts EXCEPT ![cur_ctx] = x] /\ Cur = contexts[cur_ctx]
  BY DEF Goto, Cur
<1> HIDE DEF d
<1>5. x \in Context /\ x.pfunc = Cur.pfunc
  BY <1>2, <1>3, JumpContext
<1> HIDE DEF x
<1>6. /\ contexts' \in Seq(Context) /\ Len(contexts') = Len(contexts)
      /\ \A i \in DOMAIN contexts : contexts'[i].pfunc = contexts[i].pfunc
  BY <1>3, <1>4, <1>5, ContextUpdate
<1>7. QED
  BY <1>6, KeepTypes DEF Goto, LocalFrame, TypeInv

\* The library.
LEMMA InputType == TypeInv => Input \subseteq Int
<1> SUFFICES ASSUME TypeInv PROVE Input \subseteq Int
  OBVIOUS
<1>1. input # <<>> => Head(input) \in Int
  BY DEF TypeInv
<1>2. Junk \subseteq Int
  BY JunkAssumption, IntMaxAssumption
<1>3. QED
  BY <1>1, <1>2 DEF Input

LEMMA RestType == \A s \in Seq(Int), k \in Nat : RestOf(s, k) \in Seq(Int)
<1> SUFFICES ASSUME NEW s \in Seq(Int), NEW k \in Nat PROVE RestOf(s, k) \in Seq(Int)
  OBVIOUS
<1>1. QED
  BY SubSeqProperties DEF RestOf

LEMMA CallGetTypes == TypeInv /\ CallGet => TypeInv'
<1> SUFFICES ASSUME TypeInv, CallGet PROVE TypeInv'
  OBVIOUS
<1>1. status = "running" /\ PcInRange
  BY DEF CallGet, Executing
<1>2. PICK k \in Int :
        Put(Inst.des, IF Inst.des.type = "Float" THEN FloatCell(k) ELSE IntCell(k))
  BY InputType DEF CallGet
<1> DEFINE c == IF Inst.des.type = "Float" THEN FloatCell(k) ELSE IntCell(k)
<1>3. c \in Cell
  BY CellIntro
<1>4. input' \in Seq(Int) /\ heap' \in Seq(Blocks)
  BY RestType DEF CallGet, TypeInv
<1>5. Put(Inst.des, c) /\ LocalFrame
  BY <1>2 DEF CallGet
<1>6. Inst.des \in Operand
  BY <1>1, InstType
<1> HIDE DEF c
<1>7. QED
  BY <1>1, <1>3, <1>4, <1>5, <1>6, PutType, KeepTypes

LEMMA CallPutTypes == TypeInv /\ CallPut => TypeInv'
<1> SUFFICES ASSUME TypeInv, CallPut PROVE TypeInv'
  OBVIOUS
<1>1. status = "running" /\ Cur.mem \in Mem
  BY CurType DEF CallPut, Executing
<1>2. QED
  BY <1>1, AdvanceType, KeepTypes DEF CallPut, TypeInv

LEMMA HeapUpdate ==
  ASSUME NEW h \in Seq(Blocks), NEW b, NEW x, b \in DOMAIN h => x \in Blocks
  PROVE  [h EXCEPT ![b] = x] \in Seq(Blocks)
<1>1. CASE b \in DOMAIN h
  BY <1>1
<1>2. CASE b \notin DOMAIN h
  <2>1. [h EXCEPT ![b] = x] = h
    BY <1>2
  <2>2. QED
    BY <2>1
<1>3. QED
  BY <1>1, <1>2

\* getarray's argument is a pointer that was found.
LEMMA ArrayArgument ==
  ASSUME TypeInv, status = "running", PcInRange, Faults = {}, Inst.op = "call",
         Inst.op1.name \in {"getarray", "getfarray"}
  PROVE  Src(Inst.args[1]).n \in Int
<1>1. LibFaults(Inst.op1.name) = {}
  BY NoFaults DEF CallFaults, LibFuncs, LibReturnType
<1>2. 1 \in DOMAIN LibArgTypes[Inst.op1.name]
  BY DEF LibArgTypes
<1>3. LibArgFaults(1, LibArgTypes[Inst.op1.name][1]) = {}
  BY <1>1, <1>2 DEF LibFaults
<1>4. Len(Inst.args) >= 1 /\ FindFaults(Cur.mem, Inst.args[1]) = {}
  <2>1. ~(1 > Len(Inst.args)) /\ FindFaults(Cur.mem, Inst.args[1]) = {}
    BY <1>3 DEF LibArgFaults
  <2>2. Len(Inst.args) \in Nat
    BY InstType
  <2>3. QED
    BY <2>1, <2>2
<1>5. Inst.args[1] \in Operand
  BY <1>4, InstType
<1>6. EvalMem = Cur.mem
  BY DEF EvalMem, DesFirst
<1>7. QED
  BY <1>4, <1>5, <1>6, SrcType

LEMMA CallGetArrayTypes == TypeInv /\ CallGetArray => TypeInv'
<1> SUFFICES ASSUME TypeInv, CallGetArray PROVE TypeInv'
  OBVIOUS
<1>1. /\ status = "running" /\ PcInRange /\ Faults = {} /\ Inst.op = "call"
      /\ Inst.op1.name \in {"getarray", "getfarray"}
  BY DEF CallGetArray, Executing
<1>2. PICK k \in Int : Put(Inst.des, IntCell(k))
  BY InputType DEF CallGetArray
<1>3. input \in Seq(Int) /\ Stored \in Int /\ (Stored <= 0 \/ Stored <= Len(input) - 1)
  BY DEF TypeInv, Stored, Announced
<1>4. heap' \in Seq(Blocks)
  <2>1. CASE Stored <= 0
    BY <2>1 DEF CallGetArray, TypeInv
  <2>2. CASE ~(Stored <= 0)
    <3> DEFINE p == Src(Inst.args[1])
               blk == [i \in DOMAIN heap[p.b] |->
                         IF i \in p.n .. (p.n + Stored - 1)
                         THEN input[i - p.n + 2] ELSE heap[p.b][i]]
    <3>1. heap' = [heap EXCEPT ![p.b] = blk]
      BY <2>2 DEF CallGetArray
    <3>2. p.n \in Int
      BY <1>1, ArrayArgument
    <3>3. ASSUME p.b \in DOMAIN heap PROVE blk \in Blocks
      <4>1. heap[p.b] \in Blocks
        BY <3>3 DEF TypeInv
      <4>2. ASSUME NEW i \in DOMAIN heap[p.b] PROVE blk[i] \in Int
        <5>1. i \in Int
          BY <4>1 DEF Blocks
        <5>2. i \in p.n .. (p.n + Stored - 1) => i - p.n + 2 \in 1 .. Len(input)
          BY <1>3, <2>2, <3>2, <5>1
        <5>3. QED
          BY <1>3, <4>1, <5>2, BlockType
      <4>3. DOMAIN heap[p.b] \in SUBSET Int
        BY <4>1 DEF Blocks
      <4>4. blk \in [DOMAIN heap[p.b] -> Int]
        BY <4>2
      <4> HIDE DEF blk
      <4>5. QED
        BY <4>3, <4>4 DEF Blocks
    <3> HIDE DEF blk, p
    <3>4. QED
      BY <3>1, <3>3, HeapUpdate DEF TypeInv
  <2>3. QED
    BY <2>1, <2>2
<1>5. input' \in Seq(Int)
  <2>1. (IF Stored <= 0 THEN 1 ELSE Stored + 1) \in Nat
    BY <1>3
  <2>2. QED
    BY <1>3, <2>1, RestType DEF CallGetArray
<1>6. Inst.des \in Operand /\ IntCell(k) \in Cell
  BY <1>1, InstType, CellIntro
<1>7. LocalFrame
  BY DEF CallGetArray
<1>8. QED
  BY <1>1, <1>2, <1>4, <1>5, <1>6, <1>7, PutType, KeepTypes

-----------------------------------------------------------------------------
(* Calls and returns.                                                       *)

LEMMA ReturnTypes == TypeInv /\ Return => TypeInv'
<1> SUFFICES ASSUME TypeInv, Return PROVE TypeInv'
  OBVIOUS
<1>1. status = "running" /\ PcInRange /\ Faults = {} /\ Inst.op = "return"
  BY DEF Return, Executing
<1>2. cur_ctx \in DOMAIN contexts /\ Cur \in Context
  BY <1>1, CurType
<1> DEFINE p == Cur.retval_addr  c == Src(Inst.op1)
<1>3. /\ contexts' \in Seq(Context) /\ Len(contexts') = Len(contexts)
      /\ \A i \in DOMAIN contexts : contexts'[i].pfunc = contexts[i].pfunc
      /\ global_vars' \in Mem /\ main_func_retval' \in Cell
  <2>1. CASE p = NullAddr
    BY <2>1 DEF Return, TypeInv
  <2>2. CASE p # NullAddr
    <3>1. FindFaults(Cur.mem, Inst.op1) = {}
      BY <1>1, <2>2, NoFaults DEF ReturnFaults
    <3>2. EvalMem = Cur.mem
      BY <1>1 DEF EvalMem, DesFirst
    <3>3. c \in Cell
      BY <1>1, <3>1, <3>2, InstType, SrcType
    <3>4. p \in Address /\ p.name \in Names
      BY <1>2 DEF Context, Address
    <3>5. WriteThrough(p, c)
      BY <2>2 DEF Return
    <3> HIDE DEF p, c
    <3>6. QED
      BY <3>3, <3>4, <3>5, WriteThroughType
  <2>3. QED
    BY <2>1, <2>2
<1>4. /\ cur_ctx' \in 0 .. Len(contexts) /\ cxt_stack' \in Seq(1 .. Len(contexts))
      /\ status' \in {"running", "finished"}
      /\ status' = "running" => cur_ctx' # 0
  <2>1. CASE cxt_stack = <<>>
    BY <1>1, <2>1 DEF Return, TypeInv
  <2>2. CASE cxt_stack # <<>>
    <3>1. /\ cur_ctx' = cxt_stack[Len(cxt_stack)]
          /\ cxt_stack' = SubSeq(cxt_stack, 1, Len(cxt_stack) - 1)
          /\ status' = status
      BY <2>2 DEF Return
    <3>2. cxt_stack[Len(cxt_stack)] \in 1 .. Len(contexts)
      BY <2>2 DEF TypeInv
    <3>3. SubSeq(cxt_stack, 1, Len(cxt_stack) - 1) \in Seq(1 .. Len(contexts))
      BY <2>2 DEF TypeInv
    <3>4. QED
      BY <1>1, <3>1, <3>2, <3>3
  <2>3. QED
    BY <2>1, <2>2
<1>5. program' = program /\ heap' = heap /\ input' = input
  BY DEF Return
<1>6. DOMAIN contexts' = DOMAIN contexts
  BY <1>3 DEF TypeInv
<1> HIDE DEF p, c
<1>7. QED
  BY <1>3, <1>4, <1>5, <1>6 DEF TypeInv

\* A call that completes finds its function, its arguments and its result.
LEMMA CalleeNamed ==
  ASSUME program \in Program, FunctionsNamed(Inst.op1.name) # {}
  PROVE  /\ Callee \in DOMAIN program.functions
         /\ program.functions[Callee].name = Inst.op1.name
<1> DEFINE S == FunctionsNamed(Inst.op1.name)  n == Len(program.functions)
<1>1. program.functions \in Seq(Function)
  BY DEF Program
<1>2. n \in Nat /\ S \subseteq 1 .. n /\ S # {}
  BY <1>1 DEF FunctionsNamed
<1>3. Callee = CHOOSE i \in S : \A j \in S : j <= i
  BY DEF Callee
<1> HIDE DEF S, n
<1>4. PICK i \in S : \A j \in S : j <= i
  BY <1>2, GreatestNumber
<1>5. Callee \in S
  BY <1>3, <1>4
<1>6. QED
  BY <1>5 DEF S, FunctionsNamed

LEMMA CalleeType ==
  ASSUME TypeInv, status = "running", PcInRange, Faults = {}, Inst.op = "call",
         Inst.op1.name \notin LibFuncs
  PROVE  /\ Callee \in DOMAIN program.functions
         /\ program.functions[Callee].name = Inst.op1.name
         /\ CalleeFunc \in Function /\ Params \in Seq(Operand)
         /\ \A i \in DOMAIN Params :
              /\ i \in DOMAIN Inst.args
              /\ FindFaults(CallerMem, Inst.args[i]) = {}
<1>1. UserCallFaults = {}
  BY NoFaults DEF CallFaults
<1>2. program \in Program /\ program.functions \in Seq(Function)
  BY ProgType DEF TypeInv, Program
<1>3. FunctionsNamed(Inst.op1.name) # {}
  BY <1>1 DEF UserCallFaults
<1>4. Callee \in DOMAIN program.functions /\ program.functions[Callee].name = Inst.op1.name
  BY <1>2, <1>3, CalleeNamed
<1>5. CalleeFunc \in Function /\ Params \in Seq(Operand)
  <2>1. CalleeFunc \in Function
    BY <1>2, <1>4 DEF CalleeFunc
  <2>2. QED
    BY <2>1 DEF Function, Params
<1>6. ~(Len(Inst.args) < Len(Params))
  BY <1>1 DEF UserCallFaults
<1>7. \A i \in DOMAIN Params : FindFaults(CallerMem, Inst.args[i]) = {}
  BY <1>1 DEF UserCallFaults
<1>8. \A i \in DOMAIN Params : i \in DOMAIN Inst.args
  BY <1>5, <1>6, InstType
<1>9. QED
  BY <1>4, <1>5, <1>7, <1>8

LEMMA CallerMemType ==
  ASSUME TypeInv, status = "running", PcInRange
  PROVE  /\ CallerMem \in Mem
         /\ ResultAddr \in Address
         /\ ResultAddr # NullAddr =>
              /\ ResultAddr.name = Inst.des.name
              /\ \/ ResultAddr.scope = cur_ctx /\ ResultAddr.name \in DOMAIN CallerMem
                 \/ ResultAddr.scope = 0 /\ ResultAddr.name \in DOMAIN global_vars
         /\ ResultAddr = NullAddr <=> CalleeFunc.returnType = "null"
<1>1. Inst.des \in Operand /\ Inst.des.name \in Names /\ cur_ctx \in Nat
  BY InstType DEF Operand, TypeInv
<1>2. CallerMem \in Mem
  BY <1>1, CurType, CreatedType DEF CallerMem
<1>3. CASE CalleeFunc.returnType = "null"
  BY <1>2, <1>3, NoName DEF ResultAddr, NullAddr, Address
<1>4. CASE CalleeFunc.returnType # "null"
  <2>1. CallerMem = Created(Inst.des)
    BY <1>4 DEF CallerMem
  <2>2. Inst.des.name \in DOMAIN CallerMem \cup DOMAIN global_vars
    BY <1>1, <2>1, CreatedType
  <2>3. ResultAddr = [scope |-> IF Inst.des.name \in DOMAIN CallerMem THEN cur_ctx ELSE 0,
                      name  |-> Inst.des.name]
    BY <1>4 DEF ResultAddr
  <2>4. ResultAddr \in Address /\ ResultAddr # NullAddr
    BY <1>1, <2>3 DEF Address, NullAddr
  <2>5. QED
    BY <1>2, <1>4, <2>2, <2>3, <2>4
<1>5. QED
  BY <1>3, <1>4

LEMMA ParamMemType ==
  ASSUME TypeInv, status = "running", PcInRange, Faults = {}, Inst.op = "call",
         Inst.op1.name \notin LibFuncs
  PROVE  ParamMem \in Mem
<1>1. /\ Params \in Seq(Operand)
      /\ \A i \in DOMAIN Params : /\ i \in DOMAIN Inst.args
                                 /\ FindFaults(CallerMem, Inst.args[i]) = {}
  BY CalleeType
<1>2. ParamNames \in SUBSET Names
  <2>1. ASSUME NEW i \in DOMAIN Params PROVE Params[i].name \in Names
    <3>1. Params[i] \in Operand
      BY <1>1
    <3>2. QED
      BY <3>1 DEF Operand
  <2>2. QED
    BY <2>1 DEF ParamNames
<1>3. ASSUME NEW x \in ParamNames
      PROVE  SrcIn(CallerMem, Inst.args[ParamIndex(x)]) \in Cell
  <2>1. ParamIndex(x) \in DOMAIN Params
    <3> DEFINE S == {i \in DOMAIN Params : Params[i].name = x}
    <3>1. S \subseteq Nat /\ S # {}
      BY <1>1 DEF ParamNames
    <3>2. /\ \A i \in S : i \in DOMAIN Params /\ Params[i].name = x
          /\ \A j \in DOMAIN Params : Params[j].name = x => j \in S
      OBVIOUS
    <3> HIDE DEF S
    <3>3. PICK i \in S : \A j \in S : i <= j
      BY <3>1, LeastNumber
    <3>4. QED
      BY <3>2, <3>3 DEF ParamIndex
  <2>2. Inst.args[ParamIndex(x)] \in Operand
    BY <1>1, <2>1, InstType
  <2>3. QED
    BY <1>1, <2>1, <2>2, CallerMemType, SrcInType
<1>4. QED
  BY <1>2, <1>3, MemIntro DEF ParamMem

LEMMA CallTypes == TypeInv /\ Call => TypeInv'
<1> SUFFICES ASSUME TypeInv, Call PROVE TypeInv'
  OBVIOUS
<1>1. /\ status = "running" /\ PcInRange /\ Faults = {} /\ Inst.op = "call"
      /\ Inst.op1.name \notin LibFuncs
  BY DEF Call, Executing
<1> DEFINE x == [Cur EXCEPT !.pc = @ + 1, !.mem = CallerMem]
           callee == [pc |-> 0, retval_addr |-> ResultAddr, mem |-> ParamMem,
                      pfunc |-> Callee]
           suspended == [contexts EXCEPT ![cur_ctx] = x]
<1>2. cur_ctx \in DOMAIN contexts /\ Cur \in Context /\ contexts \in Seq(Context)
  BY <1>1, CurType DEF TypeInv
<1>3. x \in Context /\ x.pfunc = Cur.pfunc
  BY <1>1, <1>2, CallerMemType, StepContext
<1>4. callee \in Context /\ callee.pfunc \in DOMAIN program.functions
  <2>1. Callee \in DOMAIN program.functions /\ program.functions \in Seq(Function)
    BY <1>1, CalleeType, ProgType DEF TypeInv, Program
  <2>2. QED
    BY <1>1, <2>1, CallerMemType, ParamMemType DEF Context
<1>5. contexts' = Append(suspended, callee) /\ Cur = contexts[cur_ctx]
  BY <1>2 DEF Call, Cur
<1> HIDE DEF x, callee
<1>6. /\ suspended \in Seq(Context) /\ Len(suspended) = Len(contexts)
      /\ \A i \in DOMAIN contexts : suspended[i].pfunc = contexts[i].pfunc
  BY <1>2, <1>3, <1>5, ContextUpdate
<1> HIDE DEF suspended
<1>7. /\ contexts' \in Seq(Context) /\ Len(contexts') = Len(contexts) + 1
      /\ \A i \in DOMAIN contexts' : contexts'[i].pfunc \in DOMAIN program.functions
  <2>1. /\ contexts' \in Seq(Context) /\ Len(contexts') = Len(contexts) + 1
        /\ contexts'[Len(contexts) + 1] = callee
        /\ \A i \in DOMAIN contexts : contexts'[i] = suspended[i]
    BY <1>2, <1>4, <1>5, <1>6, PushContext
  <2>2. DOMAIN contexts' = DOMAIN contexts \cup {Len(contexts) + 1}
    BY <1>2, <2>1
  <2>3. \A i \in DOMAIN contexts : contexts[i].pfunc \in DOMAIN program.functions
    BY DEF TypeInv
  <2>4. QED
    BY <1>4, <1>6, <2>1, <2>2, <2>3
<1>8. cxt_stack' \in Seq(1 .. Len(contexts')) /\ cur_ctx' = Len(contexts')
  BY <1>2, <1>7 DEF Call, TypeInv
<1>9. program' = program
  BY DEF Call
<1>10. /\ program' = program /\ status' = status /\ global_vars' = global_vars
       /\ heap' = heap /\ main_func_retval' = main_func_retval /\ input' = input
  BY DEF Call
<1>11. cur_ctx' \in 0 .. Len(contexts') /\ cur_ctx' # 0
  BY <1>2, <1>7, <1>8
<1>12. \A i \in DOMAIN contexts' : contexts'[i].pfunc \in DOMAIN program'.functions
  BY <1>7, <1>9
<1>13. QED
  BY <1>7, <1>8, <1>10, <1>11, <1>12 DEF TypeInv

-----------------------------------------------------------------------------
\* One lemma per action, put together.
LEMMA NextTypes == TypeInv /\ [Next]_vars => TypeInv'
<1> SUFFICES ASSUME TypeInv, [Next]_vars PROVE TypeInv'
  OBVIOUS
<1>1. CASE Run
  BY <1>1, RunTypes
<1>2. CASE RunFails \/ Stop \/ Ended \/ UNCHANGED vars
  BY <1>2, StopTypes DEF Ended
<1>3. CASE Return
  BY <1>3, ReturnTypes
<1>4. CASE Goto
  BY <1>4, GotoTypes
<1>5. CASE Call
  BY <1>5, CallTypes
<1>6. CASE CallGet \/ CallGetArray \/ CallPut
  BY <1>6, CallGetTypes, CallGetArrayTypes, CallPutTypes
<1>7. CASE Alloc \/ Store \/ Load \/ GetPtr
  BY <1>7, AllocTypes, StoreTypes, LoadTypes, GetPtrTypes
<1>8. CASE Move \/ Convert \/ IntBinary \/ Immediate \/ FloatBinary \/ Unused
  BY <1>8, MoveTypes, ConvertTypes, IntBinaryTypes, ImmediateTypes, FloatBinaryTypes,
     UnusedTypes
<1>9. QED
  BY <1>1, <1>2, <1>3, <1>4, <1>5, <1>6, <1>7, <1>8 DEF Next, ExecIR

LEMMA TypeInvariant == Spec => []TypeInv
<1>1. Init => TypeInv
  BY InitTypes
<1>2. TypeInv /\ [Next]_vars => TypeInv'
  BY NextTypes
<1>3. QED
  BY <1>1, <1>2, PTL DEF Spec

\* Every variable of the executor keeps its type, whatever the program is:
\* run() never loops on a null current context (ir_executor.cpp:168), a context
\* on the stack is one that was made, and every Value a program can reach is one.
THEOREM TypeCorrect == Spec => []TypeOK
<1>1. TypeInv => TypeOK
  BY TypeInvImpliesTypeOK
<1>2. QED
  BY <1>1, TypeInvariant, PTL
=============================================================================
