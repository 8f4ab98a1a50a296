------------------------------ MODULE IRTyping ------------------------------
(***************************************************************************)
(* A static discipline for ir::Programs under which none of the executor's *)
(* type assertions can fail and no union is read through a member that was *)
(* not written; and the executor as an implementation of CallProtocol.     *)
(***************************************************************************)
EXTENDS IRExecutor

\* The named operands a function mentions, its parameters included.
InstOperands(i) == {i.op1, i.op2, i.des} \cup {i.args[k] : k \in DOMAIN i.args}
Mentioned(f) ==
  {o \in {f.ParameterList[k] : k \in DOMAIN f.ParameterList}
           \cup UNION {InstOperands(f.InstVec[k]) : k \in DOMAIN f.InstVec} :
     o.type \notin Literals \cup {"null"}}

\* Nothing in f but a definition mentions x, and that one as its destination.
OnlyDefined(f, x) ==
  \A k \in DOMAIN f.InstVec :
    LET i == f.InstVec[k]
    IN  /\ x \notin {o.name : o \in {i.op1, i.op2} \cup {i.args[j] : j \in DOMAIN i.args}}
        /\ i.des.name = x => i.op \in {"def", "fdef"}

\* One type per name in a function, the type of the global if there is one.  A
\* global constant's is a literal's: it is given a value but never looked up.
OneTypePerName(P, f) ==
  \A o \in Mentioned(f) :
    /\ \A q \in Mentioned(f) : q.name = o.name => q.type = o.type
    /\ \A k \in DOMAIN P.globalVal :
         P.globalVal[k].val.name = o.name =>
           \/ P.globalVal[k].val.type = o.type
           \/ /\ P.globalVal[k].val.type \in Literals
              /\ ValueType(P.globalVal[k].val.type) = o.type
              /\ OnlyDefined(f, o.name)

CallOK(P, i) ==
  IF i.op1.name \in LibFuncs
  THEN /\ i.des.type = LibResultType(i.op1.name)
       /\ Len(LibArgTypes[i.op1.name]) <= Len(i.args)
       /\ \A k \in DOMAIN LibArgTypes[i.op1.name] :
            ValueType(i.args[k].type) = LibArgTypes[i.op1.name][k]
  ELSE \A k \in DOMAIN P.functions :
         P.functions[k].name = i.op1.name =>
           /\ P.functions[k].returnType \in {"null", i.des.type}
           /\ Len(P.functions[k].ParameterList) <= Len(i.args)
           /\ \A j \in DOMAIN P.functions[k].ParameterList :
                /\ ValueType(i.args[j].type) = P.functions[k].ParameterList[j].type
                /\ i.args[j].type # "null"

ElementKinds(ty) == IF ty = "IntPtr" THEN IntKinds ELSE FloatKinds

\* The types each operator of the IR takes.
InstOK(P, f, i) ==
  CASE i.op = "return" -> f.returnType = "null" \/ ValueType(i.op1.type) = f.returnType
    [] i.op = "goto"   -> i.des.type \in IntKinds
    [] i.op = "call"   -> CallOK(P, i)
    [] i.op = "alloc"  -> i.op1.type \in IntKinds /\ i.des.type \in Pointers
    [] i.op \in {"store", "load"} ->
         /\ i.op2.type \in IntKinds /\ i.op1.type \in Pointers
         /\ i.des.type \in ElementKinds(i.op1.type)
         /\ i.op = "load" => i.des.type \notin Literals
    [] i.op = "getptr" -> i.op2.type \in IntKinds /\ i.op1.type \in Pointers
                            /\ i.des.type = i.op1.type
    [] i.op \in {"mov", "def"} -> i.des.type = "Int" /\ i.op1.type \in IntKinds
    [] i.op = "not" -> i.des.type = "Int" /\ i.op1.type \in IntKinds
    [] i.op \in {"fmov", "fdef"} -> i.des.type = "Float" /\ i.op1.type \in FloatKinds
    [] i.op = "cvt_i2f" -> i.des.type = "Float" /\ i.op1.type \in IntKinds
    [] i.op = "cvt_f2i" -> i.des.type = "Int" /\ i.op1.type \in FloatKinds
    [] i.op \in IntOps -> i.des.type = "Int" /\ {i.op1.type, i.op2.type} \subseteq IntKinds
    [] i.op \in FloatOps ->
         i.des.type = "Float" /\ {i.op1.type, i.op2.type} \subseteq FloatKinds
    [] i.op \in {"addi", "subi"} ->
         i.des.type = "Int" /\ i.op1.type = "Int" /\ i.op2.type = "IntLiteral"
    [] OTHER -> TRUE

WellTyped(P) ==
  /\ \A k \in DOMAIN P.globalVal :
       P.globalVal[k].maxlen > 0 => P.globalVal[k].val.type \in Pointers
  /\ \A k \in DOMAIN P.functions :
       LET f == P.functions[k] IN
         /\ f.returnType \in {"null", "Int", "Float"}
         /\ f.name = "main" => f.returnType # "null"
         /\ OneTypePerName(P, f)
         /\ \A i \in DOMAIN f.InstVec : InstOK(P, f, f.InstVec[i])

TypeFaults == {"operand_type", "type_mismatch", "punned", "return_type",
               "argument_count", "argument_type", "lib_signature", "global_type"}

\* A program that keeps to the discipline never trips an assertion about types
\* (ir_executor.cpp:61, 255, 264-277, 369, 382, 398, ...), and never reads
\* a union through another member than the one that was written: calls, pointers
\* to cells of other contexts and cells that outlive their writer included.
TypeSafe == WellTyped(program) => status \notin TypeFaults

-----------------------------------------------------------------------------
\* main is below itself on the stack of the executor; once in the protocol.
Activations ==
  IF status = "constructed" \/ cur_ctx = 0 THEN <<>>
  ELSE IF cxt_stack = <<>> THEN <<cur_ctx>> ELSE Tail(Chain)

Protocol == INSTANCE CallProtocol WITH
  made    <- Len(contexts),
  pending <- Activations,
  phase   <- CASE status = "constructed" -> "idle" [] status = "running" -> "running"
               [] status = "finished" -> "over" [] OTHER -> "broken"

\* Every activation is completed at most once, last in first out, and its
\* result is passed by the step that completes it: the executor's doubled
\* execution of main's return (ir_executor.cpp:204-211) does not show.
CallsAreNested == Protocol!PSpec
=============================================================================
