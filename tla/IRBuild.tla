------------------------------- MODULE IRBuild -------------------------------
(***************************************************************************)
(* Constructors of operands and instructions, after ir::Operand and        *)
(* ir::Instruction (src/include/ir, src/src/ir/ir_instruction.cpp).         *)
(***************************************************************************)
EXTENDS Integers

None         == [name |-> "null", type |-> "null", lit |-> 0]
IntVar(x)    == [name |-> x, type |-> "Int", lit |-> 0]
FloatVar(x)  == [name |-> x, type |-> "Float", lit |-> 0]
IntPtr(x)    == [name |-> x, type |-> "IntPtr", lit |-> 0]
FloatPtr(x)  == [name |-> x, type |-> "FloatPtr", lit |-> 0]
IntLit(k)    == [name |-> "null", type |-> "IntLiteral", lit |-> k]
FloatLit(h)  == [name |-> "null", type |-> "FloatLiteral", lit |-> h]
FuncName(f)  == [name |-> f, type |-> "null", lit |-> 0]

\* Instruction(op1, op2, des, op) and CallInst(op1, args, des).
Ins(op, op1, op2, des) ==
  [op |-> op, op1 |-> op1, op2 |-> op2, des |-> des, args |-> <<>>]
CallIns(f, args, des) ==
  [op |-> "call", op1 |-> FuncName(f), op2 |-> None, des |-> des, args |-> args]
RetIns(v)       == Ins("return", v, None, None)
GotoIns(k)      == Ins("goto", None, None, IntLit(k))
IfGoto(c, k)    == Ins("goto", c, None, IntLit(k))

Func(f, ty, params, body) ==
  [name |-> f, returnType |-> ty, ParameterList |-> params, InstVec |-> body]
=============================================================================
