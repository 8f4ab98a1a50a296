----------------------------- MODULE CallProofs -----------------------------
(***************************************************************************)
(* Proofs about the executor's calls: the stack of contexts, the doubled   *)
(* return of main, who may write to whose frame, what a suspended context  *)
(* waits for; and that the executor implements CallProtocol: activations   *)
(* of functions are completed once each, last in first out.                *)
(***************************************************************************)
EXTENDS IRExecutorProofs, IRTyping

-----------------------------------------------------------------------------
(* The inductive invariant.                                                 *)

\* main has been popped and executes its return once more: it still stands on
\* that return, nothing can stop it, and the value is already in place.
LastReturn ==
  /\ PcInRange /\ Inst.op = "return" /\ Faults = {}
  /\ main_func_retval = Src(Inst.op1)

\* Only main answers into the local of run(); every other context answers into
\* the globals, the context that waits for it, or nowhere.
AnswersToCaller ==
  /\ contexts[1].retval_addr = MainRetAddr
  /\ \A i \in 2 .. Len(cxt_stack) :
       contexts[Chain[i + 1]].retval_addr.scope \in {-1, 0, Chain[i]}

CallInv ==
  /\ status = "constructed" => contexts = <<>>
  /\ CallOrder
  /\ status = "running" => AnswersToCaller
  /\ status = "running" /\ cxt_stack = <<>> => LastReturn

-----------------------------------------------------------------------------
(* Chains.                                                                  *)

LEMMA ChainAt ==
  ASSUME NEW S, NEW s \in Seq(S), NEW c
  PROVE  /\ Len(Append(s, c)) = Len(s) + 1
         /\ \A i \in 1 .. Len(s) : Append(s, c)[i] = s[i]
         /\ Append(s, c)[Len(s) + 1] = c
  OBVIOUS

\* Popping the stack into cur_ctx removes the end of the chain.
LEMMA PopChain ==
  ASSUME NEW S, NEW s \in Seq(S), s # <<>>
  PROVE  /\ Len(SubSeq(s, 1, Len(s) - 1)) = Len(s) - 1
         /\ Append(SubSeq(s, 1, Len(s) - 1), s[Len(s)]) = s
<1> DEFINE front == SubSeq(s, 1, Len(s) - 1)
<1>1. Len(s) \in Nat \ {0} /\ s[Len(s)] \in S
  OBVIOUS
<1>2. /\ front \in Seq(S) /\ Len(front) = Len(s) - 1
      /\ \A i \in 1 .. Len(s) - 1 : front[i] = s[i]
  BY <1>1, SubSeqProperties
<1> HIDE DEF front
<1>3. /\ Append(front, s[Len(s)]) \in Seq(S) /\ Len(Append(front, s[Len(s)])) = Len(s)
      /\ \A i \in 1 .. Len(s) : Append(front, s[Len(s)])[i] = s[i]
  BY <1>1, <1>2
<1>4. Append(front, s[Len(s)]) = s
  BY <1>3, SeqEqual
<1>5. QED
  BY <1>2, <1>4 DEF front

-----------------------------------------------------------------------------
(* What a step may do to the frames.                                        *)

\* A step that stays in its frame: no context is made, none but the current one
\* changes, and where a context answers is fixed.
InFrame ==
  /\ Len(contexts') = Len(contexts)
  /\ \A i \in DOMAIN contexts :
       /\ contexts'[i].retval_addr = contexts[i].retval_addr
       /\ i # cur_ctx => contexts'[i] = contexts[i]

Inner == \/ Goto \/ CallGet \/ CallGetArray \/ CallPut \/ Alloc \/ Store \/ Load
         \/ GetPtr \/ Move \/ Convert \/ IntBinary \/ Immediate \/ FloatBinary \/ Unused

LEMMA AdvanceFrame ==
  ASSUME TypeInv, status = "running", NEW m, Advance(m)
  PROVE  InFrame
<1> DEFINE x == [Cur EXCEPT !.pc = @ + 1, !.mem = m]
<1>1. cur_ctx \in DOMAIN contexts /\ Cur \in Context /\ contexts \in Seq(Context)
      /\ Cur = contexts[cur_ctx]
  BY CurType DEF TypeInv, Cur
<1>2. x.retval_addr = Cur.retval_addr
  BY <1>1 DEF Context
<1>3. contexts' = [contexts EXCEPT ![cur_ctx] = x]
  BY <1>1 DEF Advance
<1> HIDE DEF x
<1>4. QED
  BY <1>1, <1>2, <1>3 DEF InFrame

LEMMA PutFrame ==
  ASSUME TypeInv, status = "running", NEW des, NEW c, Put(des, c)
  PROVE  InFrame
  BY AdvanceFrame DEF Put

LEMMA GotoFrame == TypeInv /\ Goto => InFrame
<1> SUFFICES ASSUME TypeInv, Goto PROVE InFrame
  OBVIOUS
<1> DEFINE d == IF Taken THEN Src(Inst.des).n ELSE 1
           x == [Cur EXCEPT !.pc = @ + d]
<1>1. status = "running"
  BY DEF Goto, Executing
<1>2. cur_ctx \in DOMAIN contexts /\ Cur \in Context /\ contexts \in Seq(Context)
      /\ Cur = contexts[cur_ctx]
  BY <1>1, CurType DEF TypeInv, Cur
<1>3. contexts' = [contexts EXCEPT ![cur_ctx].pc = @ + d]
  BY DEF Goto
<1> HIDE DEF d
<1>4. x.retval_addr = Cur.retval_addr
  BY <1>2 DEF Context
<1>5. contexts' = [contexts EXCEPT ![cur_ctx] = x]
  BY <1>2, <1>3
<1> HIDE DEF x
<1>6. QED
  BY <1>2, <1>4, <1>5 DEF InFrame

\* All cases of the switch but return and a call of the program's functions.
LEMMA InnerFrame ==
  ASSUME TypeInv, Inner
  PROVE  /\ InFrame
         /\ status = "running" /\ PcInRange /\ Inst.op # "return"
         /\ UNCHANGED <<program, status, cur_ctx, cxt_stack>>
<1>1. status = "running" /\ PcInRange /\ Inst.op # "return"
  BY DEF Inner, Goto, CallGet, CallGetArray, CallPut, Alloc, Store, Load, GetPtr, Move,
     Convert, IntBinary, Immediate, FloatBinary, Unused, Executing, IntOps, FloatOps
<1>2. UNCHANGED <<program, status, cur_ctx, cxt_stack>>
  BY DEF Inner, Goto, CallGet, CallGetArray, CallPut, Alloc, Store, Load, GetPtr, Move,
     Convert, IntBinary, Immediate, FloatBinary, Unused, LocalFrame
<1>3. CASE Goto
  BY <1>1, <1>2, <1>3, GotoFrame
<1>4. CASE CallPut \/ Store \/ Unused
  <2>1. Advance(Cur.mem)
    BY <1>4 DEF CallPut, Store, Unused
  <2>2. QED
    BY <1>1, <1>2, <2>1, AdvanceFrame
<1>5. CASE CallGet \/ CallGetArray \/ Move
  <2>1. \E c : Put(Inst.des, c)
    BY <1>5 DEF CallGet, CallGetArray, Move
  <2>2. QED
    BY <1>1, <1>2, <2>1, PutFrame
<1>6. CASE \/ Alloc \/ Load \/ GetPtr \/ Convert \/ IntBinary \/ Immediate \/ FloatBinary
  <2>1. \E m, k, b : PutMember(m, k, b)
    <3>1. CASE Convert
      BY <3>1 DEF Convert, Executing
    <3>2. CASE Alloc \/ Load \/ GetPtr
      BY <3>2 DEF Alloc, Load, GetPtr
    <3>3. CASE IntBinary \/ Immediate \/ FloatBinary
      BY <3>3 DEF IntBinary, Immediate, FloatBinary
    <3>4. QED
      BY <1>6, <3>1, <3>2, <3>3
  <2>2. \E c : Put(Inst.des, c)
    BY <2>1 DEF PutMember
  <2>3. QED
    BY <1>1, <1>2, <2>2, PutFrame
<1>7. QED
  BY <1>1, <1>2, <1>3, <1>4, <1>5, <1>6 DEF Inner

\* A return changes nothing but, in the context it answers to, the result's cell.
LEMMA ReturnFrame ==
  ASSUME TypeInv, Return
  PROVE  /\ status = "running" /\ PcInRange /\ Inst.op = "return" /\ Faults = {}
         /\ cur_ctx \in DOMAIN contexts
         /\ Len(contexts') = Len(contexts)
         /\ \A i \in DOMAIN contexts :
              /\ contexts'[i].retval_addr = contexts[i].retval_addr
              /\ contexts'[i].pc = contexts[i].pc
              /\ contexts'[i].pfunc = contexts[i].pfunc
              /\ i # Cur.retval_addr.scope => contexts'[i] = contexts[i]
              /\ \A x \in DOMAIN contexts[i].mem :
                   x # Cur.retval_addr.name => contexts'[i].mem[x] = contexts[i].mem[x]
<1>1. status = "running" /\ PcInRange /\ Inst.op = "return" /\ Faults = {}
  BY DEF Return, Executing
<1>2. cur_ctx \in DOMAIN contexts /\ Cur \in Context /\ contexts \in Seq(Context)
  BY <1>1, CurType DEF TypeInv
<1> DEFINE p == Cur.retval_addr
           c == Src(Inst.op1)
<1>3. CASE p = NullAddr \/ p.scope \notin DOMAIN contexts
  <2>1. contexts' = contexts
    BY <1>3 DEF Return, WriteThrough
  <2>2. QED
    BY <1>1, <1>2, <2>1
<1>4. CASE p # NullAddr /\ p.scope \in DOMAIN contexts
  <2>1. FindFaults(Cur.mem, Inst.op1) = {}
    BY <1>1, <1>4, NoFaults DEF ReturnFaults
  <2>2. EvalMem = Cur.mem
    BY <1>1 DEF EvalMem, DesFirst
  <2>3. c \in Cell
    BY <1>1, <2>1, <2>2, InstType, SrcType
  <2>4. p.name \in Names
    BY <1>2 DEF Context, Address
  <2> HIDE DEF c, p
  <2> DEFINE y == contexts[p.scope]
             x == [y EXCEPT !.mem = Insert(@, p.name, c)]
  <2>5. y \in Context /\ y.mem \in Mem
    <3>1. y \in Context
      BY <1>2, <1>4
    <3> HIDE DEF y
    <3>2. QED
      BY <3>1 DEF Context
  <2>6. contexts' = [contexts EXCEPT ![p.scope] = x]
    BY <1>4 DEF Return, WriteThrough, p, c
  <2> HIDE DEF y
  <2>7. /\ x \in Context /\ x.retval_addr = y.retval_addr /\ x.pc = y.pc
        /\ x.pfunc = y.pfunc /\ x.mem = Insert(y.mem, p.name, c)
    BY <2>3, <2>4, <2>5, AnswerContext
  <2>8. \A z \in DOMAIN y.mem : z # p.name => x.mem[z] = y.mem[z]
    <3>1. \A z \in DOMAIN y.mem : z # p.name => Insert(y.mem, p.name, c)[z] = y.mem[z]
      BY <2>3, <2>4, <2>5, InsertMem
    <3> HIDE DEF x
    <3>2. QED
      BY <2>7, <3>1
  <2> HIDE DEF x
  <2>9. /\ Len(contexts') = Len(contexts) /\ contexts'[p.scope] = x
        /\ \A i \in DOMAIN contexts : i # p.scope => contexts'[i] = contexts[i]
    BY <1>2, <1>4, <2>6, <2>7, ContextUpdate
  <2>10. QED
    BY <1>1, <1>2, <2>7, <2>8, <2>9 DEF y, p
<1>5. QED
  BY <1>3, <1>4

\* A call makes one context, which answers to its caller.
LEMMA CallFrame ==
  ASSUME TypeInv, Call
  PROVE  /\ status = "running" /\ PcInRange /\ Inst.op = "call"
         /\ cur_ctx \in DOMAIN contexts
         /\ Len(contexts') = Len(contexts) + 1
         /\ \A i \in DOMAIN contexts :
              /\ contexts'[i].retval_addr = contexts[i].retval_addr
              /\ i # cur_ctx => contexts'[i] = contexts[i]
         /\ contexts'[Len(contexts) + 1].retval_addr.scope \in {-1, 0, cur_ctx}
<1>1. /\ status = "running" /\ PcInRange /\ Inst.op = "call"
  BY DEF Call, Executing
<1> DEFINE x == [Cur EXCEPT !.pc = @ + 1, !.mem = CallerMem]
           callee == [pc |-> 0, retval_addr |-> ResultAddr, mem |-> ParamMem,
                      pfunc |-> Callee]
           suspended == [contexts EXCEPT ![cur_ctx] = x]
<1>2. cur_ctx \in DOMAIN contexts /\ Cur \in Context /\ contexts \in Seq(Context)
      /\ Cur = contexts[cur_ctx]
  BY <1>1, CurType DEF TypeInv, Cur
<1>3. x.retval_addr = Cur.retval_addr
  BY <1>2 DEF Context
<1>4. callee.retval_addr.scope \in {-1, 0, cur_ctx}
  BY DEF ResultAddr, NullAddr
<1>5. contexts' = Append(suspended, callee)
  BY <1>2 DEF Call
<1> HIDE DEF x, callee
<1>6. DOMAIN suspended = 1 .. Len(contexts) /\ Len(suspended) = Len(contexts)
  BY <1>2
<1>7. /\ Len(contexts') = Len(contexts) + 1
      /\ contexts'[Len(contexts) + 1] = callee
      /\ \A i \in DOMAIN contexts : contexts'[i] = suspended[i]
  BY <1>2, <1>5, <1>6
<1>8. \A i \in DOMAIN contexts : suspended[i] = IF i = cur_ctx THEN x ELSE contexts[i]
  BY <1>2
<1> HIDE DEF suspended
<1>9. QED
  BY <1>1, <1>2, <1>3, <1>4, <1>7, <1>8

-----------------------------------------------------------------------------
(* The invariant is inductive.                                              *)

\* Where the program, the current context and the cells stay as they are, a
\* return is still there, with the same operand and as free of faults.
LEMMA SameReturn ==
  ASSUME program' = program, cur_ctx' = cur_ctx, contexts' = contexts,
         global_vars' = global_vars, Inst.op = "return"
  PROVE  /\ PcInRange' <=> PcInRange
         /\ Inst' = Inst
         /\ Src(Inst.op1)' = Src(Inst.op1)
         /\ Faults' = Faults
<1>1. Cur' = Cur
  BY DEF Cur
<1>2. Body' = Body
  BY <1>1 DEF Body
<1>3. Inst' = Inst /\ (PcInRange' <=> PcInRange)
  BY <1>1, <1>2 DEF Inst, PcInRange
<1>4. EvalMem = Cur.mem /\ EvalMem' = Cur.mem
  BY <1>1, <1>3 DEF EvalMem, DesFirst
<1>5. Lookup(Cur.mem, Inst.op1)' = Lookup(Cur.mem, Inst.op1)
  BY <1>1, <1>3 DEF Lookup
<1>6. Src(Inst.op1)' = Src(Inst.op1)
  BY <1>1, <1>3, <1>4, <1>5 DEF Src, SrcIn
<1>7. FindFaults(Cur.mem, Inst.op1)' = FindFaults(Cur.mem, Inst.op1)
  BY <1>1, <1>3, <1>5 DEF FindFaults, Visible
<1>8. ReturnFaults' = ReturnFaults
  BY <1>1, <1>3, <1>7 DEF ReturnFaults
<1>9. Faults = ReturnFaults
  BY DEF Faults, IntOps, FloatOps
<1>10. Inst'.op = "return"
  BY <1>3
<1>11. Faults' = ReturnFaults'
  BY <1>10 DEF Faults, IntOps, FloatOps
<1>12. QED
  BY <1>3, <1>6, <1>8, <1>9, <1>11

LEMMA CallInvInit == Init => CallInv
  BY DEF Init, Executor, CallInv, CallOrder

LEMMA RunCalls == TypeInv /\ CallInv /\ Run => CallInv'
<1> SUFFICES ASSUME TypeInv, CallInv, Run PROVE CallInv'
  OBVIOUS
<1>1. status' = "running" /\ cxt_stack' = <<1>> /\ cur_ctx' = 1
  BY DEF Run
<1>2. Len(Chain') = 2 /\ Chain'[1] = 1 /\ Chain'[2] = 1
  BY <1>1 DEF Chain
<1>3. contexts'[1].retval_addr = MainRetAddr
  BY DEF Run
<1>4. QED
  BY <1>1, <1>2, <1>3 DEF CallInv, CallOrder, AnswersToCaller

\* A program that has stopped is of no concern.
LEMMA StopCalls == TypeInv /\ CallInv /\ (RunFails \/ Stop) => CallInv'
<1> SUFFICES ASSUME TypeInv, CallInv, RunFails \/ Stop PROVE CallInv'
  OBVIOUS
<1>1. status' \in FaultNames
  BY FaultsNamed DEF RunFails, Stop, FaultNames
<1>2. status' # "running" /\ status' # "constructed"
  BY <1>1 DEF FaultNames
<1>3. QED
  BY <1>2 DEF CallInv, CallOrder

LEMMA SameCalls == TypeInv /\ CallInv /\ UNCHANGED vars => CallInv'
<1> SUFFICES ASSUME TypeInv, CallInv, UNCHANGED vars PROVE CallInv'
  OBVIOUS
<1>1. /\ status' = status /\ contexts' = contexts /\ cxt_stack' = cxt_stack
      /\ cur_ctx' = cur_ctx /\ program' = program /\ global_vars' = global_vars
      /\ main_func_retval' = main_func_retval
  BY DEF vars
<1>2. Chain' = Chain
  BY <1>1 DEF Chain
<1>3. CallOrder'
  BY <1>1, <1>2 DEF CallInv, CallOrder
<1>4. AnswersToCaller' <=> AnswersToCaller
  BY <1>1, <1>2 DEF AnswersToCaller
<1>5. LastReturn => LastReturn'
  BY <1>1, SameReturn DEF LastReturn
<1>6. QED
  BY <1>1, <1>3, <1>4, <1>5 DEF CallInv

\* Within a frame the chain stays; and the last context of all only returns.
LEMMA InnerCalls == TypeInv /\ CallInv /\ Inner => CallInv'
<1> SUFFICES ASSUME TypeInv, CallInv, Inner PROVE CallInv'
  OBVIOUS
<1>1. /\ InFrame /\ status = "running" /\ Inst.op # "return"
      /\ status' = status /\ cur_ctx' = cur_ctx /\ cxt_stack' = cxt_stack
  BY InnerFrame
<1>2. cxt_stack # <<>>
  BY <1>1 DEF CallInv, LastReturn
<1>3. Chain' = Chain
  BY <1>1 DEF Chain
<1>4. CallOrder'
  BY <1>1, <1>3 DEF CallInv, CallOrder
<1>5. \A i \in DOMAIN contexts : contexts'[i].retval_addr = contexts[i].retval_addr
  BY <1>1 DEF InFrame
<1>6. 1 \in DOMAIN contexts /\ \A i \in 1 .. Len(cxt_stack) + 1 : Chain[i] \in DOMAIN contexts
  BY <1>1 DEF Chain, TypeInv
<1>7. AnswersToCaller'
  <2>1. AnswersToCaller
    BY <1>1 DEF CallInv
  <2>2. contexts'[1].retval_addr = MainRetAddr
    BY <1>5, <1>6, <2>1 DEF AnswersToCaller
  <2>3. ASSUME NEW i \in 2 .. Len(cxt_stack)
        PROVE  contexts'[Chain'[i + 1]].retval_addr.scope \in {-1, 0, Chain'[i]}
    <3>1. i + 1 \in 1 .. Len(cxt_stack) + 1
      BY DEF TypeInv
    <3>2. contexts'[Chain[i + 1]].retval_addr = contexts[Chain[i + 1]].retval_addr
      BY <1>5, <1>6, <3>1
    <3>3. QED
      BY <1>3, <2>1, <3>2 DEF AnswersToCaller
  <2>4. QED
    BY <1>1, <2>2, <2>3 DEF AnswersToCaller
<1>8. QED
  BY <1>1, <1>2, <1>4, <1>7 DEF CallInv

\* A call adds its context, newer than all others, to the end of the chain.
LEMMA CallCalls == TypeInv /\ CallInv /\ Call => CallInv'
<1> SUFFICES ASSUME TypeInv, CallInv, Call PROVE CallInv'
  OBVIOUS
<1> DEFINE new == Len(contexts) + 1
<1>1. /\ status = "running" /\ Inst.op = "call" /\ cur_ctx \in DOMAIN contexts
      /\ Len(contexts') = new
      /\ \A i \in DOMAIN contexts : contexts'[i].retval_addr = contexts[i].retval_addr
      /\ contexts'[new].retval_addr.scope \in {-1, 0, cur_ctx}
  BY CallFrame
<1>2. /\ status' = status /\ cxt_stack' = Chain /\ cur_ctx' = new
  BY DEF Call, Chain
<1>3. cxt_stack # <<>>
  BY <1>1 DEF CallInv, LastReturn
<1>4. /\ cxt_stack \in Seq(1 .. Len(contexts)) /\ Len(cxt_stack) \in Nat \ {0}
      /\ Len(contexts) \in Nat /\ DOMAIN contexts = 1 .. Len(contexts)
  BY <1>3 DEF TypeInv
<1>5. /\ Chain \in Seq(1 .. Len(contexts)) /\ Len(Chain) = Len(cxt_stack) + 1
      /\ \A i \in 1 .. Len(Chain) : Chain[i] \in 1 .. Len(contexts)
      /\ Chain[Len(Chain)] = cur_ctx
  BY <1>1, <1>4 DEF Chain
<1>6. /\ Len(Chain') = Len(Chain) + 1 /\ Chain'[Len(Chain) + 1] = new
      /\ \A i \in 1 .. Len(Chain) : Chain'[i] = Chain[i]
  <2>1. Chain' = Append(Chain, new)
    BY <1>2 DEF Chain
  <2>2. QED
    BY <1>5, <2>1, ChainAt
<1>7. CallOrder /\ AnswersToCaller
  BY <1>1 DEF CallInv
<1> HIDE DEF new
<1>8. CallOrder'
  <2>1. Chain'[1] = 1 /\ Chain'[2] = 1
    BY <1>1, <1>4, <1>5, <1>6, <1>7 DEF CallOrder
  <2>2. ASSUME NEW i \in 2 .. Len(Chain)
        PROVE  Chain'[i] < Chain'[i + 1]
    <3>1. CASE i < Len(Chain)
      <4>1. i \in 2 .. (Len(Chain) - 1)
        BY <1>4, <1>5, <3>1
      <4>2. Chain[i] < Chain[i + 1]
        BY <1>1, <1>7, <4>1 DEF CallOrder
      <4>3. Chain'[i] = Chain[i] /\ Chain'[i + 1] = Chain[i + 1]
        <5>1. Len(Chain) \in Nat
          BY <1>4, <1>5
        <5>2. i \in 1 .. Len(Chain) /\ i + 1 \in 1 .. Len(Chain)
          BY <4>1, <5>1
        <5>3. QED
          BY <1>6, <5>2
      <4>4. QED
        BY <4>2, <4>3
    <3>2. CASE i = Len(Chain)
      BY <1>4, <1>5, <1>6, <3>2 DEF new
    <3>3. QED
      BY <1>4, <1>5, <3>1, <3>2
  <2>3. QED
    BY <1>5, <1>6, <2>1, <2>2 DEF CallOrder
<1>9. AnswersToCaller'
  <2>1. ASSUME NEW i \in 2 .. Len(Chain)
        PROVE  contexts'[Chain'[i + 1]].retval_addr.scope \in {-1, 0, Chain'[i]}
    <3>1. CASE i < Len(Chain)
      <4>1. /\ i \in 2 .. Len(cxt_stack) /\ Chain[i + 1] \in DOMAIN contexts
            /\ Chain'[i + 1] = Chain[i + 1] /\ Chain'[i] = Chain[i]
        BY <1>4, <1>5, <1>6, <3>1
      <4>2. contexts[Chain[i + 1]].retval_addr.scope \in {-1, 0, Chain[i]}
        BY <1>7, <4>1 DEF AnswersToCaller
      <4>3. QED
        BY <1>1, <4>1, <4>2
    <3>2. CASE i = Len(Chain)
      BY <1>1, <1>5, <1>6, <3>2
    <3>3. QED
      BY <1>4, <1>5, <3>1, <3>2
  <2>2. contexts'[1].retval_addr = MainRetAddr
    BY <1>1, <1>4, <1>7 DEF AnswersToCaller
  <2>3. QED
    BY <1>2, <2>1, <2>2 DEF AnswersToCaller
<1>10. cxt_stack' # <<>>
  BY <1>2, <1>5
<1>11. QED
  BY <1>1, <1>2, <1>8, <1>9, <1>10 DEF CallInv

\* main's return, executed in its own context, leaves all as it is but the value
\* run() will return.
LEMMA MainReturns ==
  ASSUME TypeInv, Return, Cur.retval_addr = MainRetAddr
  PROVE  /\ contexts' = contexts /\ global_vars' = global_vars
         /\ main_func_retval' = Src(Inst.op1)
<1>1. MainRetAddr # NullAddr /\ MainRetAddr.scope = -2
  BY DEF MainRetAddr, NullAddr
<1>2. -2 \notin DOMAIN contexts
  BY DEF TypeInv
<1>3. WriteThrough(MainRetAddr, Src(Inst.op1))
  BY <1>1 DEF Return
<1>4. QED
  BY <1>1, <1>2, <1>3 DEF WriteThrough

\* A return takes its context off the end of the chain.
LEMMA ReturnCalls == TypeInv /\ CallInv /\ Return => CallInv'
<1> SUFFICES ASSUME TypeInv, CallInv, Return PROVE CallInv'
  OBVIOUS
<1>1. /\ status = "running" /\ PcInRange /\ Inst.op = "return" /\ Faults = {}
      /\ cur_ctx \in DOMAIN contexts
      /\ \A i \in DOMAIN contexts : contexts'[i].retval_addr = contexts[i].retval_addr
  BY ReturnFrame
<1>2. CASE cxt_stack = <<>>
  <2>1. status' = "finished"
    BY <1>2 DEF Return
  <2>2. QED
    BY <2>1 DEF CallInv, CallOrder
<1>3. CASE cxt_stack # <<>>
  <2>1. /\ status' = status /\ cur_ctx' = cxt_stack[Len(cxt_stack)]
        /\ cxt_stack' = SubSeq(cxt_stack, 1, Len(cxt_stack) - 1)
    BY <1>3 DEF Return
  <2>2. /\ cxt_stack \in Seq(1 .. Len(contexts)) /\ Len(cxt_stack) \in Nat \ {0}
        /\ DOMAIN contexts = 1 .. Len(contexts)
    BY <1>3 DEF TypeInv
  <2>3. Chain' = cxt_stack /\ Len(cxt_stack') = Len(cxt_stack) - 1
    BY <1>3, <2>1, <2>2, PopChain DEF Chain
  <2>4. /\ Len(Chain) = Len(cxt_stack) + 1 /\ Chain[Len(cxt_stack) + 1] = cur_ctx
        /\ \A i \in 1 .. Len(cxt_stack) : Chain'[i] = Chain[i]
    BY <2>2, <2>3 DEF Chain
  <2>5. CallOrder /\ AnswersToCaller
    BY <1>1 DEF CallInv
  <2>6. CallOrder'
    <3>1. /\ Chain[1] = 1
          /\ Len(Chain) >= 2 => Chain[2] = 1
          /\ \A i \in 2 .. (Len(Chain) - 1) : Chain[i] < Chain[i + 1]
      BY <1>1, <2>5 DEF CallOrder
    <3>2. /\ Chain'[1] = 1
          /\ Len(Chain') >= 2 => Chain'[2] = 1
          /\ \A i \in 2 .. (Len(Chain') - 1) : Chain'[i] < Chain'[i + 1]
      BY <2>2, <2>3, <2>4, <3>1
    <3>3. QED
      BY <3>2 DEF CallOrder
  <2>7. AnswersToCaller'
    <3>1. ASSUME NEW i \in 2 .. Len(cxt_stack')
          PROVE  contexts'[Chain'[i + 1]].retval_addr.scope \in {-1, 0, Chain'[i]}
      <4>1. i \in 2 .. Len(cxt_stack) /\ i + 1 \in 1 .. Len(cxt_stack)
        BY <2>2, <2>3
      <4>2. Chain'[i + 1] = Chain[i + 1] /\ Chain'[i] = Chain[i]
            /\ Chain[i + 1] \in DOMAIN contexts
        BY <2>2, <2>3, <2>4, <4>1
      <4>3. contexts[Chain[i + 1]].retval_addr.scope \in {-1, 0, Chain[i]}
        BY <2>5, <4>1 DEF AnswersToCaller
      <4>4. QED
        BY <1>1, <4>2, <4>3
    <3>2. 1 \in DOMAIN contexts
      BY <1>1, <2>2
    <3>3. contexts'[1].retval_addr = MainRetAddr
      BY <1>1, <2>5, <3>2 DEF AnswersToCaller
    <3>4. QED
      BY <3>1, <3>3 DEF AnswersToCaller
  <2>8. ASSUME cxt_stack' = <<>>
        PROVE  LastReturn'
    <3>1. Len(cxt_stack) = 1
      BY <2>2, <2>3, <2>8
    <3>2. cur_ctx = 1 /\ cur_ctx' = 1
      BY <1>1, <2>1, <2>3, <2>4, <2>5, <3>1 DEF CallOrder
    <3>3. Cur.retval_addr = MainRetAddr
      BY <2>5, <3>2 DEF AnswersToCaller, Cur
    <3>4. /\ contexts' = contexts /\ global_vars' = global_vars
          /\ main_func_retval' = Src(Inst.op1)
      BY <3>3, MainReturns
    <3>5. program' = program /\ cur_ctx' = cur_ctx
      BY <3>2 DEF Return
    <3>6. QED
      BY <1>1, <3>4, <3>5, SameReturn DEF LastReturn
  <2>9. QED
    BY <1>1, <2>1, <2>6, <2>7, <2>8 DEF CallInv
<1>4. QED
  BY <1>2, <1>3

LEMMA NextCalls == TypeInv /\ CallInv /\ [Next]_vars => CallInv'
<1> SUFFICES ASSUME TypeInv, CallInv, [Next]_vars PROVE CallInv'
  OBVIOUS
<1>1. CASE Run
  BY <1>1, RunCalls
<1>2. CASE RunFails \/ Stop
  BY <1>2, StopCalls
<1>3. CASE Ended \/ UNCHANGED vars
  BY <1>3, SameCalls DEF Ended
<1>4. CASE Return
  BY <1>4, ReturnCalls
<1>5. CASE Call
  BY <1>5, CallCalls
<1>6. CASE Inner
  BY <1>6, InnerCalls
<1>7. QED
  BY <1>1, <1>2, <1>3, <1>4, <1>5, <1>6 DEF Next, ExecIR, Inner

LEMMA CallInvariant == Spec => [](TypeInv /\ CallInv)
<1>1. Init => CallInv
  BY CallInvInit
<1>2. TypeInv /\ CallInv /\ [Next]_vars => CallInv'
  BY NextCalls
<1>3. QED
  BY <1>1, <1>2, TypeInvariant, PTL DEF Spec

-----------------------------------------------------------------------------
\* In every execution of every program main lies at the bottom of the stack,
\* below itself, and above it every context is newer than the one that waits for
\* it (ir_executor.cpp:167, 283-286): contexts are never entered out of order.
THEOREM CallsInOrder == Spec => []CallOrder
<1>1. CallInv => CallOrder
  BY DEF CallInv
<1>2. QED
  BY <1>1, CallInvariant, PTL

\* main's return is executed twice (ir_executor.cpp:204-211); in every execution
\* of every program the second time ends the run and changes nothing else.
THEOREM MainAnswersOnce == Spec => SecondReturnIsSilent
<1> DEFINE Silent == status = "running" /\ cxt_stack = <<>> =>
                       /\ status' = "finished"
                       /\ UNCHANGED <<main_func_retval, global_vars, heap, input, output>>
<1>1. TypeInv /\ CallInv /\ [Next]_vars => [Silent]_vars
  <2> SUFFICES ASSUME TypeInv, CallInv, Next, status = "running", cxt_stack = <<>>
               PROVE  Silent
    OBVIOUS
  <2>1. LastReturn /\ CallOrder /\ AnswersToCaller
    BY DEF CallInv
  <2>2. PcInRange /\ Inst.op = "return" /\ Faults = {}
    BY <2>1 DEF LastReturn
  <2>3. ~Run /\ ~RunFails /\ ~Ended
    BY DEF Run, RunFails, Ended
  <2>4. ~Stop /\ ~Call /\ ~Inner
    BY <2>2, InnerFrame DEF Stop, Call, Executing
  <2>5. Return
    BY <2>3, <2>4 DEF Next, ExecIR, Inner
  <2>6. Chain[1] = cur_ctx
    BY DEF Chain
  <2>7. Cur.retval_addr = MainRetAddr
    BY <2>1, <2>6 DEF CallOrder, AnswersToCaller, Cur
  <2>8. global_vars' = global_vars /\ main_func_retval' = Src(Inst.op1)
    BY <2>5, <2>7, MainReturns
  <2>9. main_func_retval' = main_func_retval
    BY <2>1, <2>8 DEF LastReturn
  <2>10. QED
    BY <2>5, <2>8, <2>9 DEF Return
<1>2. QED
  BY <1>1, CallInvariant, PTL DEF Spec, SecondReturnIsSilent

\* Whatever a program does, a step leaves all frames but the current one alone,
\* except that a return fills the one cell its caller named for the result
\* (ir_executor.cpp:198-203, 243-252).
THEOREM FramesIsolated == Spec => FrameIsolation
<1> DEFINE Isolated ==
      \A c \in DOMAIN contexts \ {cur_ctx} :
        /\ contexts'[c].pc = contexts[c].pc
        /\ contexts'[c] # contexts[c] =>
             /\ cxt_stack # <<>> /\ c = cxt_stack[Len(cxt_stack)] /\ cur_ctx' = c
             /\ \A x \in DOMAIN contexts[c].mem :
                  x # Cur.retval_addr.name => contexts'[c].mem[x] = contexts[c].mem[x]
<1>1. TypeInv /\ CallInv /\ [Next]_vars => [Isolated]_vars
  <2> SUFFICES ASSUME TypeInv, CallInv, Next,
                      NEW c \in DOMAIN contexts \ {cur_ctx}
               PROVE  /\ contexts'[c].pc = contexts[c].pc
                      /\ contexts'[c] # contexts[c] =>
                           /\ cxt_stack # <<>> /\ c = cxt_stack[Len(cxt_stack)]
                           /\ cur_ctx' = c
                           /\ \A x \in DOMAIN contexts[c].mem :
                                x # Cur.retval_addr.name =>
                                  contexts'[c].mem[x] = contexts[c].mem[x]
    OBVIOUS
  <2>1. CASE contexts'[c] = contexts[c]
    BY <2>1
  <2>2. CASE contexts'[c] # contexts[c]
    <3>1. ~Run
      BY DEF CallInv, Run
    <3>2. ~RunFails /\ ~Stop /\ ~Ended
      BY <2>2 DEF RunFails, Stop, Ended, vars
    <3>3. ~Inner /\ ~Call
      BY <2>2, InnerFrame, CallFrame DEF InFrame
    <3>4. Return
      BY <3>1, <3>2, <3>3 DEF Next, ExecIR, Inner
    <3>5. /\ status = "running" /\ cur_ctx \in DOMAIN contexts
          /\ contexts'[c].pc = contexts[c].pc /\ c = Cur.retval_addr.scope
          /\ \A x \in DOMAIN contexts[c].mem :
               x # Cur.retval_addr.name => contexts'[c].mem[x] = contexts[c].mem[x]
      BY <2>2, <3>4, ReturnFrame
    <3>6. /\ cxt_stack \in Seq(1 .. Len(contexts)) /\ c \in Nat \ {0}
          /\ Len(cxt_stack) \in Nat
      BY DEF TypeInv
    <3>7. /\ Len(Chain) = Len(cxt_stack) + 1 /\ Chain[Len(cxt_stack) + 1] = cur_ctx
          /\ \A i \in 1 .. Len(cxt_stack) : Chain[i] = cxt_stack[i]
      BY <3>6 DEF Chain
    <3>8. AnswersToCaller /\ CallOrder
      BY <3>5 DEF CallInv
    <3>9. cur_ctx # 1
      <4>1. MainRetAddr.scope = -2
        BY DEF MainRetAddr
      <4>2. QED
        BY <3>5, <3>6, <3>8, <4>1 DEF AnswersToCaller, Cur
    <3>10. Len(cxt_stack) >= 2
      BY <3>5, <3>6, <3>7, <3>8, <3>9 DEF CallOrder
    <3>11. c = cxt_stack[Len(cxt_stack)]
      <4>1. contexts[Chain[Len(cxt_stack) + 1]].retval_addr.scope
              \in {-1, 0, Chain[Len(cxt_stack)]}
        BY <3>6, <3>8, <3>10 DEF AnswersToCaller
      <4>2. QED
        BY <3>5, <3>6, <3>7, <3>10, <4>1 DEF Cur
    <3>12. cxt_stack # <<>>
      BY <3>10
    <3>13. cur_ctx' = c
      BY <3>4, <3>11, <3>12 DEF Return
    <3>14. QED
      BY <3>5, <3>11, <3>12, <3>13
  <2>3. QED
    BY <2>1, <2>2
<1>2. QED
  BY <1>1, CallInvariant, PTL DEF Spec, FrameIsolation

-----------------------------------------------------------------------------
(* What a suspended context waits for: the inductive invariant.             *)

\* Context a has called the function that b executes and waits behind the call,
\* for the value that b writes through retval_addr, a cell that is there.
Waits(a, b) ==
  /\ contexts[a].pc \in DOMAIN program.functions[contexts[a].pfunc].InstVec
  /\ AwaitedCall(a).op = "call"
  /\ AwaitedCall(a).op1.name = program.functions[contexts[b].pfunc].name
  /\ \/ /\ contexts[b].retval_addr = NullAddr
        /\ program.functions[contexts[b].pfunc].returnType = "null"
     \/ /\ contexts[b].retval_addr.name = AwaitedCall(a).des.name
        /\ \/ /\ contexts[b].retval_addr.scope = a
              /\ contexts[b].retval_addr.name \in DOMAIN contexts[a].mem
           \/ /\ contexts[b].retval_addr.scope = 0
              /\ contexts[b].retval_addr.name \in DOMAIN global_vars

\* CallOrder compares neighbours; that the current context is none of those
\* that wait needs the order of any two.
Ordered == \A i, j \in 2 .. Len(Chain) : i < j => Chain[i] < Chain[j]

WaitInv ==
  status = "running" =>
    /\ Ordered
    /\ \A i \in 2 .. (Len(Chain) - 1) : Waits(Chain[i], Chain[i + 1])

-----------------------------------------------------------------------------
(* What a wait depends on.                                                  *)

\* A context goes on waiting as long as it stands where it stood and no cell is
\* taken from it or from the globals.
LEMMA WaitsOn ==
  ASSUME NEW a, NEW b, Waits(a, b), program' = program,
         contexts'[a].pc = contexts[a].pc, contexts'[a].pfunc = contexts[a].pfunc,
         contexts'[b].pfunc = contexts[b].pfunc,
         contexts'[b].retval_addr = contexts[b].retval_addr,
         DOMAIN contexts[a].mem \subseteq DOMAIN contexts'[a].mem,
         DOMAIN global_vars \subseteq DOMAIN global_vars'
  PROVE  Waits(a, b)'
<1>1. AwaitedCall(a)' = AwaitedCall(a)
  BY DEF AwaitedCall
<1>2. QED
  BY <1>1 DEF Waits

LEMMA InsertGrows ==
  ASSUME NEW f, NEW x, NEW c
  PROVE  DOMAIN f \subseteq DOMAIN Insert(f, x, c)
  BY DEF Insert

\* What is the same for a step within a frame, a call and a return: contexts
\* keep their function and where they answer, and no cell disappears.
Growing ==
  /\ DOMAIN global_vars \subseteq DOMAIN global_vars'
  /\ \A i \in DOMAIN contexts :
       /\ contexts'[i].pfunc = contexts[i].pfunc
       /\ contexts'[i].retval_addr = contexts[i].retval_addr
       /\ i # cur_ctx =>
            /\ contexts'[i].pc = contexts[i].pc
            /\ DOMAIN contexts[i].mem \subseteq DOMAIN contexts'[i].mem

\* Such a step keeps the wait of every context but the current one.
LEMMA WaitsKept ==
  ASSUME Growing, program' = program,
         NEW a \in DOMAIN contexts, a # cur_ctx, NEW b \in DOMAIN contexts, Waits(a, b)
  PROVE  Waits(a, b)'
BY WaitsOn DEF Growing

\* The contexts of the chain, of which only the last is current.
LEMMA Waiting ==
  ASSUME TypeInv, status = "running", Ordered
  PROVE  /\ Len(Chain) \in Nat \ {0} /\ Len(Chain) = Len(cxt_stack) + 1
         /\ cur_ctx \in DOMAIN contexts
         /\ Chain[Len(Chain)] = cur_ctx
         /\ Chain \in Seq(DOMAIN contexts)
         /\ \A i \in 1 .. Len(Chain) : Chain[i] \in DOMAIN contexts
         /\ \A i \in 2 .. (Len(Chain) - 1) : Chain[i] # cur_ctx
<1>1. /\ cxt_stack \in Seq(1 .. Len(contexts)) /\ cur_ctx \in 1 .. Len(contexts)
      /\ DOMAIN contexts = 1 .. Len(contexts) /\ Len(cxt_stack) \in Nat
  BY CurType DEF TypeInv
<1>2. /\ Len(Chain) = Len(cxt_stack) + 1 /\ Chain[Len(Chain)] = cur_ctx
      /\ Chain \in Seq(1 .. Len(contexts))
      /\ \A k \in 1 .. Len(Chain) : Chain[k] \in 1 .. Len(contexts)
  BY <1>1 DEF Chain
<1>3. ASSUME NEW i \in 2 .. (Len(Chain) - 1)
      PROVE  Chain[i] # cur_ctx
  <2>1. i \in 2 .. Len(Chain) /\ Len(Chain) \in 2 .. Len(Chain) /\ i < Len(Chain)
    BY <1>1, <1>2
  <2>2. Chain[i] < Chain[Len(Chain)]
    BY <2>1 DEF Ordered
  <2>3. QED
    BY <1>1, <1>2, <2>2
<1>4. QED
  BY <1>1, <1>2, <1>3

-----------------------------------------------------------------------------
(* The actions.                                                             *)

LEMMA AdvanceGrows ==
  ASSUME TypeInv, status = "running", NEW m, Advance(m)
  PROVE  \A i \in DOMAIN contexts : contexts'[i].pfunc = contexts[i].pfunc
<1> DEFINE x == [Cur EXCEPT !.pc = @ + 1, !.mem = m]
<1>1. cur_ctx \in DOMAIN contexts /\ Cur \in Context /\ contexts \in Seq(Context)
      /\ Cur = contexts[cur_ctx]
  BY CurType DEF TypeInv, Cur
<1>2. x.pfunc = Cur.pfunc
  BY <1>1 DEF Context
<1>3. contexts' = [contexts EXCEPT ![cur_ctx] = x]
  BY <1>1 DEF Advance
<1> HIDE DEF x
<1>4. QED
  BY <1>1, <1>2, <1>3

LEMMA PutGrows ==
  ASSUME TypeInv, status = "running", NEW des, NEW c, Put(des, c)
  PROVE  /\ \A i \in DOMAIN contexts : contexts'[i].pfunc = contexts[i].pfunc
         /\ DOMAIN global_vars \subseteq DOMAIN global_vars'
<1>1. \E m : Advance(m)
  BY DEF Put
<1>2. global_vars' \in {global_vars, Insert(global_vars, des.name, c)}
  BY DEF Put
<1>3. QED
  BY <1>1, <1>2, AdvanceGrows, InsertGrows

LEMMA InnerGrows ==
  ASSUME TypeInv, Inner
  PROVE  Growing
<1>1. InFrame /\ status = "running"
  BY InnerFrame
<1>2. CASE Goto
  <2> DEFINE d == IF Taken THEN Src(Inst.des).n ELSE 1
             x == [Cur EXCEPT !.pc = @ + d]
  <2>1. cur_ctx \in DOMAIN contexts /\ Cur \in Context /\ contexts \in Seq(Context)
        /\ Cur = contexts[cur_ctx]
    BY <1>1, CurType DEF TypeInv, Cur
  <2>2. contexts' = [contexts EXCEPT ![cur_ctx].pc = @ + d] /\ global_vars' = global_vars
    BY <1>2 DEF Goto
  <2> HIDE DEF d
  <2>3. x.pfunc = Cur.pfunc
    BY <2>1 DEF Context
  <2>4. contexts' = [contexts EXCEPT ![cur_ctx] = x]
    BY <2>1, <2>2
  <2> HIDE DEF x
  <2>5. QED
    BY <1>1, <2>1, <2>2, <2>3, <2>4 DEF Growing, InFrame
<1>3. CASE CallPut \/ Store \/ Unused
  <2>1. Advance(Cur.mem) /\ global_vars' = global_vars
    BY <1>3 DEF CallPut, Store, Unused
  <2>2. QED
    BY <1>1, <2>1, AdvanceGrows DEF Growing, InFrame
<1>4. CASE \/ CallGet \/ CallGetArray \/ Move \/ Alloc \/ Load \/ GetPtr
           \/ Convert \/ IntBinary \/ Immediate \/ FloatBinary
  <2>1. CASE CallGet \/ CallGetArray \/ Move
    <3>1. \E c : Put(Inst.des, c)
      BY <2>1 DEF CallGet, CallGetArray, Move
    <3>2. QED
      BY <1>1, <3>1, PutGrows DEF Growing, InFrame
  <2>2. CASE Alloc \/ Load \/ GetPtr \/ Convert \/ IntBinary \/ Immediate \/ FloatBinary
    <3>1. \E m, k, b : PutMember(m, k, b)
      <4>1. CASE Convert
        BY <4>1 DEF Convert, Executing
      <4>2. CASE Alloc \/ Load \/ GetPtr
        BY <4>2 DEF Alloc, Load, GetPtr
      <4>3. CASE IntBinary \/ Immediate \/ FloatBinary
        BY <4>3 DEF IntBinary, Immediate, FloatBinary
      <4>4. QED
        BY <2>2, <4>1, <4>2, <4>3
    <3>2. \E c : Put(Inst.des, c)
      BY <3>1 DEF PutMember
    <3>3. QED
      BY <1>1, <3>2, PutGrows DEF Growing, InFrame
  <2>3. QED
    BY <1>4, <2>1, <2>2
<1>5. QED
  BY <1>2, <1>3, <1>4 DEF Inner

\* A return adds a cell where its caller waits for one, or changes it.
LEMMA ReturnGrows ==
  ASSUME TypeInv, Return
  PROVE  Growing
<1>1. \A i \in DOMAIN contexts :
        /\ contexts'[i].retval_addr = contexts[i].retval_addr
        /\ contexts'[i].pc = contexts[i].pc
        /\ contexts'[i].pfunc = contexts[i].pfunc
  BY ReturnFrame
<1> DEFINE p == Cur.retval_addr
           c == Src(Inst.op1)
<1>2. CASE p = NullAddr
  <2>1. contexts' = contexts /\ global_vars' = global_vars
    BY <1>2 DEF Return
  <2>2. QED
    BY <2>1 DEF Growing
<1>3. CASE p # NullAddr
  <2>1. WriteThrough(p, c)
    BY <1>3 DEF Return
  <2> HIDE DEF p, c
  <2>2. DOMAIN global_vars \subseteq DOMAIN global_vars'
    BY <2>1, InsertGrows DEF WriteThrough
  <2>3. ASSUME NEW i \in DOMAIN contexts
        PROVE  DOMAIN contexts[i].mem \subseteq DOMAIN contexts'[i].mem
    <3>1. CASE p.scope \notin DOMAIN contexts \/ p.scope # i
      <4>1. contexts'[i] = contexts[i]
        BY <2>1, <3>1 DEF WriteThrough
      <4>2. QED
        BY <4>1
    <3>2. CASE p.scope \in DOMAIN contexts /\ p.scope = i
      <4>1. contexts' = [contexts EXCEPT ![i].mem = Insert(@, p.name, c)]
        BY <2>1, <3>2 DEF WriteThrough
      <4>2. contexts[i] \in Context
        BY DEF TypeInv
      <4>3. contexts'[i].mem = Insert(contexts[i].mem, p.name, c)
        <5> DEFINE y == contexts[i]
                   x == [y EXCEPT !.mem = Insert(@, p.name, c)]
        <5>1. contexts'[i] = x
          BY <4>1
        <5> HIDE DEF y
        <5>2. x.mem = Insert(y.mem, p.name, c)
          <6>1. y \in Context
            BY <4>2 DEF y
          <6>2. QED
            BY <6>1 DEF Context
        <5>3. QED
          BY <5>1, <5>2 DEF y
      <4>4. QED
        BY <4>3, InsertGrows
    <3>3. QED
      BY <3>1, <3>2
  <2>4. QED
    BY <1>1, <2>2, <2>3 DEF Growing
<1>4. QED
  BY <1>2, <1>3

\* A call takes nothing from the contexts that wait already and leaves the
\* caller right behind the call, waiting for the new context.
LEMMA CallWaits ==
  ASSUME TypeInv, Call
  PROVE  /\ Growing
         /\ program' = program
         /\ \A a, b : a = cur_ctx /\ b = Len(contexts) + 1 => Waits(a, b)'
<1>1. /\ status = "running" /\ PcInRange /\ Faults = {} /\ Inst.op = "call"
      /\ Inst.op1.name \notin LibFuncs
  BY DEF Call, Executing
<1> DEFINE new == Len(contexts) + 1
           x == [Cur EXCEPT !.pc = @ + 1, !.mem = CallerMem]
           callee == [pc |-> 0, retval_addr |-> ResultAddr, mem |-> ParamMem,
                      pfunc |-> Callee]
           suspended == [contexts EXCEPT ![cur_ctx] = x]
<1>2. cur_ctx \in DOMAIN contexts /\ Cur \in Context /\ contexts \in Seq(Context)
      /\ Cur = contexts[cur_ctx] /\ DOMAIN contexts = 1 .. Len(contexts)
  BY <1>1, CurType DEF TypeInv, Cur
<1>3. /\ x \in Context /\ x.pc = Cur.pc + 1 /\ x.mem = CallerMem /\ x.pfunc = Cur.pfunc
      /\ x.retval_addr = Cur.retval_addr
  <2>1. CallerMem \in Mem
    BY <1>1, CallerMemType
  <2>2. x \in Context /\ x.pc = Cur.pc + 1 /\ x.mem = CallerMem
    BY <1>2, <2>1, StepContext
  <2>3. x.pfunc = Cur.pfunc /\ x.retval_addr = Cur.retval_addr
    BY <1>2 DEF Context
  <2>4. QED
    BY <2>2, <2>3
<1>4. callee.pfunc = Callee /\ callee.retval_addr = ResultAddr
  OBVIOUS
<1>5. contexts' = Append(suspended, callee)
  BY <1>2 DEF Call
<1>6. program' = program /\ global_vars' = global_vars
  BY DEF Call
<1> HIDE DEF x, callee
<1>7. /\ contexts'[new] = callee /\ contexts'[cur_ctx] = x
      /\ \A i \in DOMAIN contexts : i # cur_ctx => contexts'[i] = contexts[i]
  <2>1. /\ suspended \in Seq(Context) /\ Len(suspended) = Len(contexts)
        /\ suspended[cur_ctx] = x
        /\ \A i \in DOMAIN contexts : i # cur_ctx => suspended[i] = contexts[i]
    BY <1>2, <1>3, ContextUpdate
  <2> HIDE DEF suspended
  <2>2. /\ Append(suspended, callee)[new] = callee
        /\ \A i \in 1 .. Len(contexts) : Append(suspended, callee)[i] = suspended[i]
    BY <2>1
  <2>3. QED
    BY <1>2, <1>5, <2>1, <2>2
<1> HIDE DEF suspended
<1>8. Growing
  BY <1>2, <1>3, <1>6, <1>7 DEF Growing
<1>9. ASSUME NEW a, NEW b, a = cur_ctx, b = new
      PROVE  Waits(a, b)'
  <2>1. Cur.pc + 1 \in DOMAIN Body
    BY <1>1, InstType
  <2>2. program.functions[Callee].name = Inst.op1.name
    BY <1>1, CalleeType
  <2>3. \/ ResultAddr = NullAddr /\ program.functions[Callee].returnType = "null"
        \/ /\ ResultAddr.name = Inst.des.name
           /\ \/ ResultAddr.scope = cur_ctx /\ ResultAddr.name \in DOMAIN CallerMem
              \/ ResultAddr.scope = 0 /\ ResultAddr.name \in DOMAIN global_vars
    BY <1>1, CallerMemType DEF CalleeFunc
  <2>4. contexts'[a] = x /\ contexts'[b] = callee
    BY <1>7, <1>9
  <2>5. /\ contexts'[a].pc = Cur.pc + 1 /\ contexts'[a].mem = CallerMem
        /\ program'.functions[contexts'[a].pfunc].InstVec = Body
    BY <1>3, <1>6, <2>4 DEF Body
  <2>6. /\ contexts'[b].retval_addr = ResultAddr
        /\ program'.functions[contexts'[b].pfunc] = program.functions[Callee]
    BY <1>4, <1>6, <2>4
  <2>7. AwaitedCall(a)' = Inst
    BY <2>5 DEF AwaitedCall, Inst
  <2>8. QED
    BY <1>1, <1>6, <1>9, <2>1, <2>2, <2>3, <2>5, <2>6, <2>7 DEF Waits
<1>10. QED
  BY <1>6, <1>8, <1>9

-----------------------------------------------------------------------------
(* The invariant is inductive.                                              *)

LEMMA WaitInvInit == Init => WaitInv
  BY DEF Init, Executor, WaitInv

LEMMA RunWaits == TypeInv /\ Run => WaitInv'
<1> SUFFICES ASSUME TypeInv, Run PROVE WaitInv'
  OBVIOUS
<1>1. cxt_stack' = <<1>>
  BY DEF Run
<1>2. Len(Chain') = 2
  BY <1>1 DEF Chain
<1>3. QED
  BY <1>2 DEF WaitInv, Ordered

LEMMA StopWaits == RunFails \/ Stop => WaitInv'
<1> SUFFICES ASSUME RunFails \/ Stop PROVE WaitInv'
  OBVIOUS
<1>1. status' \in FaultNames
  BY FaultsNamed DEF RunFails, Stop, FaultNames
<1>2. QED
  BY <1>1 DEF WaitInv, FaultNames

LEMMA SameWaits == WaitInv /\ UNCHANGED vars => WaitInv'
<1> SUFFICES ASSUME WaitInv, UNCHANGED vars PROVE WaitInv'
  OBVIOUS
<1>1. /\ Chain' = Chain /\ status' = status
      /\ \A a, b : Waits(a, b)' <=> Waits(a, b)
  BY DEF vars, Chain, Waits, AwaitedCall
<1>2. QED
  BY <1>1 DEF WaitInv, Ordered

LEMMA InnerWaits == TypeInv /\ WaitInv /\ Inner => WaitInv'
<1> SUFFICES ASSUME TypeInv, WaitInv, Inner PROVE WaitInv'
  OBVIOUS
<1>1. /\ status = "running" /\ program' = program /\ Chain' = Chain /\ Growing
  BY InnerFrame, InnerGrows DEF Chain
<1>2. Ordered /\ \A i \in 2 .. (Len(Chain) - 1) : Waits(Chain[i], Chain[i + 1])
  BY <1>1 DEF WaitInv
<1>3. ASSUME NEW i \in 2 .. (Len(Chain) - 1)
      PROVE  Waits(Chain[i], Chain[i + 1])'
  <2> DEFINE a == Chain[i]
             b == Chain[i + 1]
  <2>1. a \in DOMAIN contexts /\ a # cur_ctx /\ b \in DOMAIN contexts
    BY <1>1, <1>2, Waiting
  <2>2. a' = a /\ b' = b
    BY <1>1
  <2> HIDE DEF a, b
  <2>3. Waits(a, b)
    BY <1>2 DEF a, b
  <2>4. \A c, d : c = a /\ d = b => Waits(c, d)'
    BY <1>1, <2>1, <2>3, WaitsKept
  <2>5. QED
    BY <2>2, <2>4 DEF a, b
<1>4. QED
  BY <1>1, <1>2, <1>3 DEF WaitInv, Ordered

\* A return ends the wait of the context below and of no other.
LEMMA ReturnWaits == TypeInv /\ WaitInv /\ Return => WaitInv'
<1> SUFFICES ASSUME TypeInv, WaitInv, Return PROVE WaitInv'
  OBVIOUS
<1>1. status = "running" /\ program' = program /\ Growing
  BY ReturnFrame, ReturnGrows DEF Return
<1>2. Ordered /\ \A i \in 2 .. (Len(Chain) - 1) : Waits(Chain[i], Chain[i + 1])
  BY <1>1 DEF WaitInv
<1>3. CASE cxt_stack = <<>>
  <2>1. status' = "finished"
    BY <1>3 DEF Return
  <2>2. QED
    BY <2>1 DEF WaitInv
<1>4. CASE cxt_stack # <<>>
  <2>1. /\ cxt_stack \in Seq(1 .. Len(contexts)) /\ Len(cxt_stack) \in Nat \ {0}
    BY <1>4 DEF TypeInv
  <2>2. Chain' = cxt_stack
    BY <1>4, <2>1, PopChain DEF Return, Chain
  <2>3. /\ Len(Chain) = Len(cxt_stack) + 1 /\ Len(Chain') = Len(cxt_stack)
        /\ \A i \in 1 .. Len(cxt_stack) : Chain'[i] = Chain[i]
    BY <2>1, <2>2 DEF Chain
  <2>4. Ordered'
    BY <1>2, <2>1, <2>3 DEF Ordered
  <2>5. ASSUME NEW i \in 2 .. (Len(Chain') - 1)
        PROVE  Waits(Chain[i], Chain[i + 1])'
    <3> DEFINE a == Chain[i]
               b == Chain[i + 1]
    <3>1. /\ i \in 2 .. (Len(Chain) - 1) /\ i + 1 \in 1 .. Len(Chain)
          /\ i \in 1 .. Len(cxt_stack) /\ i + 1 \in 1 .. Len(cxt_stack)
      BY <2>1, <2>3
    <3>2. a \in DOMAIN contexts /\ a # cur_ctx /\ b \in DOMAIN contexts
      BY <1>1, <1>2, <3>1, Waiting
    <3>3. a' = a /\ b' = b
      BY <2>3, <3>1
    <3>4. Waits(a, b)
      BY <1>2, <3>1
    <3> HIDE DEF a, b
    <3>5. \A c, d : c = a /\ d = b => Waits(c, d)'
      BY <1>1, <3>2, <3>4, WaitsKept
    <3>6. QED
      BY <3>3, <3>5 DEF a, b
  <2>6. QED
    BY <2>4, <2>5 DEF WaitInv
<1>5. QED
  BY <1>3, <1>4

\* A call adds a context, newer than all others, and the wait for it.
LEMMA CallWaitsOn == TypeInv /\ WaitInv /\ Call => WaitInv'
<1> SUFFICES ASSUME TypeInv, WaitInv, Call PROVE WaitInv'
  OBVIOUS
<1> DEFINE new == Len(contexts) + 1
           n == Len(Chain)
<1>1. /\ status = "running" /\ program' = program /\ Growing
      /\ \A a, b : a = cur_ctx /\ b = new => Waits(a, b)'
  BY CallFrame, CallWaits
<1>2. Ordered /\ \A i \in 2 .. (n - 1) : Waits(Chain[i], Chain[i + 1])
  BY <1>1 DEF WaitInv
<1>3. /\ n \in Nat \ {0} /\ Chain[n] = cur_ctx /\ Chain \in Seq(DOMAIN contexts)
      /\ \A i \in 1 .. n : Chain[i] \in 1 .. Len(contexts)
      /\ \A i \in 2 .. (n - 1) : Chain[i] # cur_ctx
      /\ DOMAIN contexts = 1 .. Len(contexts) /\ Len(contexts) \in Nat
  BY <1>1, <1>2, Waiting DEF TypeInv
<1>4. /\ Len(Chain') = n + 1 /\ Chain'[n + 1] = new
      /\ \A i \in 1 .. n : Chain'[i] = Chain[i]
  <2>1. Chain' = Append(Chain, new)
    BY DEF Call, Chain
  <2>2. QED
    BY <1>3, <2>1, ChainAt
<1> HIDE DEF n
<1>5. Ordered'
  <2>1. ASSUME NEW i \in 2 .. n + 1, NEW j \in 2 .. n + 1, i < j
        PROVE  Chain'[i] < Chain'[j]
    <3>1. CASE j <= n
      <4>1. i \in 2 .. n /\ j \in 2 .. n
        BY <1>3, <2>1, <3>1
      <4>2. Chain[i] < Chain[j]
        BY <1>2, <2>1, <4>1 DEF Ordered, n
      <4>3. QED
        BY <1>3, <1>4, <4>1, <4>2
    <3>2. CASE j = n + 1
      <4>1. i \in 1 .. n
        BY <1>3, <2>1, <3>2
      <4>2. Chain'[i] \in 1 .. Len(contexts) /\ Chain'[j] = new
        BY <1>3, <1>4, <3>2, <4>1
      <4>3. QED
        BY <1>3, <4>2
    <3>3. QED
      BY <1>3, <3>1, <3>2
  <2>2. QED
    BY <1>4, <2>1 DEF Ordered
<1>6. ASSUME NEW i \in 2 .. n
      PROVE  Waits(Chain[i], Chain[i + 1])'
  <2>1. CASE i = n
    <3>1. Chain'[i] = cur_ctx /\ Chain'[i + 1] = new
      BY <1>3, <1>4, <2>1
    <3>2. \A c, d : c = Chain'[i] /\ d = Chain'[i + 1] => Waits(c, d)'
      BY <1>1, <3>1
    <3>3. QED
      BY <3>2
  <2>2. CASE i # n
    <3> DEFINE a == Chain[i]
               b == Chain[i + 1]
    <3>1. i \in 2 .. (n - 1) /\ i \in 1 .. n /\ i + 1 \in 1 .. n
      BY <1>3, <2>2
    <3>2. a \in DOMAIN contexts /\ a # cur_ctx /\ b \in DOMAIN contexts
      BY <1>3, <3>1
    <3>3. a' = a /\ b' = b
      BY <1>4, <3>1
    <3>4. Waits(a, b)
      BY <1>2, <3>1
    <3> HIDE DEF a, b
    <3>5. \A c, d : c = a /\ d = b => Waits(c, d)'
      BY <1>1, <3>2, <3>4, WaitsKept
    <3>6. QED
      BY <3>3, <3>5 DEF a, b
  <2>3. QED
    BY <2>1, <2>2
<1>7. \A i \in 2 .. (Len(Chain') - 1) : Waits(Chain[i], Chain[i + 1])'
  BY <1>3, <1>4, <1>6
<1>8. QED
  BY <1>5, <1>7 DEF WaitInv

LEMMA NextWaits == TypeInv /\ WaitInv /\ [Next]_vars => WaitInv'
<1> SUFFICES ASSUME TypeInv, WaitInv, [Next]_vars PROVE WaitInv'
  OBVIOUS
<1>1. CASE Run
  BY <1>1, RunWaits
<1>2. CASE RunFails \/ Stop
  BY <1>2, StopWaits
<1>3. CASE Ended \/ UNCHANGED vars
  BY <1>3, SameWaits DEF Ended
<1>4. CASE Return
  BY <1>4, ReturnWaits
<1>5. CASE Call
  BY <1>5, CallWaitsOn
<1>6. CASE Inner
  BY <1>6, InnerWaits
<1>7. QED
  BY <1>1, <1>2, <1>3, <1>4, <1>5, <1>6 DEF Next, ExecIR, Inner

-----------------------------------------------------------------------------
\* In every execution of every program a suspended context stands right behind a
\* call of the function that the context above it executes, and that context can
\* answer nowhere but into the result cell of this call, which is still there
\* (ir_executor.cpp:257-286: the cell is kept as a raw pointer meanwhile).
THEOREM SuspendedWait == Spec => []CallerWaits
<1>1. Init => WaitInv
  BY WaitInvInit
<1>2. TypeInv /\ WaitInv /\ [Next]_vars => WaitInv'
  BY NextWaits
<1>3. WaitInv => CallerWaits
  BY DEF WaitInv, CallerWaits, Waits, AwaitedCall
<1>4. QED
  BY <1>1, <1>2, <1>3, TypeInvariant, PTL DEF Spec

-----------------------------------------------------------------------------
(* Chains without the extra entry of main.                                  *)

LEMMA NotEmpty ==
  ASSUME NEW S, NEW s \in Seq(S)
  PROVE  s # <<>> <=> Len(s) \in Nat \ {0}
  OBVIOUS

LEMMA AppendType ==
  ASSUME NEW S, NEW s \in Seq(S), NEW c \in S
  PROVE  /\ Append(s, c) \in Seq(S) /\ Append(s, c) # <<>>
         /\ Len(Append(s, c)) = Len(s) + 1 /\ Append(s, c)[Len(s) + 1] = c
         /\ \A i \in 1 .. Len(s) : Append(s, c)[i] = s[i]
  OBVIOUS

LEMMA TailAppend ==
  ASSUME NEW S, NEW s \in Seq(S), s # <<>>, NEW c \in S
  PROVE  Tail(Append(s, c)) = Append(Tail(s), c)
<1> DEFINE t == Tail(s)
           u == Append(s, c)
<1>1. Len(s) \in Nat \ {0}
  BY NotEmpty
<1>2. /\ t \in Seq(S) /\ Len(t) = Len(s) - 1
      /\ \A i \in 1 .. Len(s) - 1 : t[i] = s[i + 1]
  BY HeadTailProperties, <1>1
<1>3. u \in Seq(S) /\ u # <<>> /\ Len(u) = Len(s) + 1
      /\ \A i \in 1 .. Len(s) + 1 : u[i] = IF i = Len(s) + 1 THEN c ELSE s[i]
  BY <1>1, AppendType
<1> HIDE DEF t, u
<1>4. /\ Tail(u) \in Seq(S) /\ Len(Tail(u)) = Len(s)
      /\ \A i \in 1 .. Len(s) : Tail(u)[i] = u[i + 1]
  BY <1>1, <1>3, HeadTailProperties
<1>5. /\ Append(t, c) \in Seq(S) /\ Len(Append(t, c)) = Len(s)
      /\ \A i \in 1 .. Len(s) : Append(t, c)[i] = u[i + 1]
  <2>1. Append(t, c) \in Seq(S) /\ Len(Append(t, c)) = Len(s)
    BY <1>1, <1>2, AppendType
  <2>2. ASSUME NEW i \in 1 .. Len(s)
        PROVE  Append(t, c)[i] = u[i + 1]
    BY <1>1, <1>2, <1>3, AppendType
  <2>3. QED
    BY <2>1, <2>2
<1>6. Tail(u) = Append(t, c)
  <2> DEFINE v == Tail(u)
             w == Append(t, c)
  <2>1. v \in Seq(S) /\ w \in Seq(S) /\ Len(v) = Len(w)
        /\ \A i \in 1 .. Len(v) : v[i] = w[i]
    BY <1>4, <1>5
  <2> HIDE DEF v, w
  <2>2. v = w
    BY <2>1, SeqEqual
  <2>3. QED
    BY <2>2 DEF v, w
<1>7. QED
  BY <1>6 DEF t, u

\* Dropping the last of a chain drops the last of its tail.
LEMMA TailFront ==
  ASSUME NEW S, NEW s \in Seq(S), NEW c \in S, Len(s) >= 2
  PROVE  Tail(s) = SubSeq(Tail(Append(s, c)), 1, Len(Tail(Append(s, c))) - 1)
<1> DEFINE t == Tail(s)
           u == Append(t, c)
           r == SubSeq(u, 1, Len(t))
<1>1. Len(s) \in Nat \ {0} /\ s # <<>>
  BY NotEmpty
<1>2. t \in Seq(S) /\ Len(t) \in Nat
  BY <1>1, HeadTailProperties
<1>3. Tail(Append(s, c)) = u
  BY <1>1, TailAppend
<1> HIDE DEF t
<1>4. Len(u) = Len(t) + 1 /\ \A i \in 1 .. Len(t) : u[i] = t[i] /\ t[i] \in S
  BY <1>2, AppendType
<1> HIDE DEF u
<1>5. r \in Seq(S) /\ Len(r) = Len(t) /\ \A i \in 1 .. Len(t) : r[i] = t[i]
  BY <1>2, <1>4, SubSeqProperties
<1> HIDE DEF r
<1>6. r = t
  BY <1>2, <1>5, SeqEqual
<1>7. Len(u) - 1 = Len(t)
  BY <1>2, <1>4
<1>8. SubSeq(u, 1, Len(u) - 1) = r
  BY <1>7 DEF r
<1>9. QED
  BY <1>3, <1>6, <1>8 DEF t

LEMMA TailOfTwo ==
  ASSUME NEW S, NEW s \in Seq(S), Len(s) = 1, NEW c \in S
  PROVE  Tail(Append(s, c)) = <<c>>
<1>1. s # <<>>
  BY NotEmpty
<1>2. Tail(s) \in Seq(S) /\ Len(Tail(s)) = 0
  BY <1>1, HeadTailProperties
<1>3. Tail(s) = <<>>
  BY <1>2, NotEmpty
<1>4. Append(<<>>, c) = <<c>>
  OBVIOUS
<1>5. QED
  BY <1>1, <1>3, <1>4, TailAppend

\* The chain of a running executor.
LEMMA ChainShape ==
  ASSUME TypeInv, status = "running"
  PROVE  /\ cxt_stack \in Seq(Nat) /\ Len(cxt_stack) \in Nat
         /\ cur_ctx \in Nat \ {0}
         /\ Chain \in Seq(Nat) /\ Chain # <<>> /\ Len(Chain) = Len(cxt_stack) + 1
         /\ Chain[Len(cxt_stack) + 1] = cur_ctx
         /\ \A i \in 1 .. Len(cxt_stack) : Chain[i] = cxt_stack[i]
         /\ Activations = IF cxt_stack = <<>> THEN <<cur_ctx>> ELSE Tail(Chain)
<1>1. cxt_stack \in Seq(Nat) /\ Len(cxt_stack) \in Nat /\ cur_ctx \in Nat \ {0}
  BY DEF TypeInv
<1>2. /\ Chain \in Seq(Nat) /\ Chain # <<>> /\ Len(Chain) = Len(cxt_stack) + 1
      /\ Chain[Len(cxt_stack) + 1] = cur_ctx
      /\ \A i \in 1 .. Len(cxt_stack) : Chain[i] = cxt_stack[i]
  BY <1>1, AppendType DEF Chain
<1>3. QED
  BY <1>1, <1>2 DEF Activations

-----------------------------------------------------------------------------
(* The mapping.                                                             *)

LEMMA MappedInit == Init => Protocol!PInit
<1> SUFFICES ASSUME Init PROVE Protocol!PInit
  OBVIOUS
<1>1. status = "constructed" /\ contexts = <<>>
  BY DEF Init, Executor
<1>2. Activations = <<>>
  BY <1>1 DEF Activations
<1>3. QED
  BY <1>1, <1>2 DEF Protocol!PInit

\* A step that leaves the stack and the stage alone does not show.
LEMMA MappedStutter ==
  ASSUME Len(contexts') = Len(contexts), UNCHANGED <<status, cur_ctx, cxt_stack>>
  PROVE  UNCHANGED Protocol!pvars
<1>1. Chain' = Chain
  BY DEF Chain
<1>2. Activations' = Activations
  BY <1>1 DEF Activations
<1>3. QED
  BY <1>2 DEF Protocol!pvars

LEMMA MappedRun == TypeInv /\ CallInv /\ Run => Protocol!Start
<1> SUFFICES ASSUME TypeInv, CallInv, Run PROVE Protocol!Start
  OBVIOUS
<1>1. /\ status = "constructed" /\ status' = "running" /\ cur_ctx' = 1
      /\ cxt_stack' = <<1>> /\ Len(contexts') = 1
  BY DEF Run
<1>2. Activations' = <<1>>
  <2>1. Len(<<1>>) = 1 /\ <<1>> \in Seq({1}) /\ <<1>> # <<>>
    OBVIOUS
  <2>2. Tail(Append(<<1>>, 1)) = Append(Tail(<<1>>), 1)
    BY <2>1, TailAppend
  <2>3. Tail(<<1>>) = <<>> /\ Append(<<>>, 1) = <<1>>
    OBVIOUS
  <2>4. Tail(Append(<<1>>, 1)) = <<1>>
    BY <2>2, <2>3, Zenon
  <2>5. Chain' = Append(<<1>>, 1)
    BY <1>1 DEF Chain
  <2>6. Tail(Chain') = <<1>>
    BY <2>4, <2>5, Zenon
  <2>7. cxt_stack' # <<>> /\ cur_ctx' # 0 /\ status' # "constructed"
    BY <1>1
  <2>8. QED
    BY <2>6, <2>7 DEF Activations
<1>3. QED
  BY <1>1, <1>2 DEF Protocol!Start

LEMMA MappedStop == TypeInv /\ CallInv /\ (RunFails \/ Stop) => Protocol!Break
<1> SUFFICES ASSUME TypeInv, CallInv, RunFails \/ Stop PROVE Protocol!Break
  OBVIOUS
<1>1. status' \in FaultNames /\ status \in {"constructed", "running"}
  BY FaultsNamed DEF RunFails, Stop, FaultNames
<1>2. /\ contexts' = contexts /\ cur_ctx' = cur_ctx /\ cxt_stack' = cxt_stack
      /\ status = "constructed" => cur_ctx = 0
  BY DEF RunFails, Stop, CallInv, TypeInv
<1>3. status' \notin {"constructed", "running", "finished"}
  BY <1>1 DEF FaultNames
<1>4. Chain' = Chain
  BY <1>2 DEF Chain
<1>5. Activations' = Activations
  BY <1>1, <1>2, <1>3, <1>4 DEF Activations
<1>6. QED
  BY <1>1, <1>2, <1>3, <1>5 DEF Protocol!Break

LEMMA MappedCall == TypeInv /\ CallInv /\ Call => Protocol!Invoke
<1> SUFFICES ASSUME TypeInv, CallInv, Call PROVE Protocol!Invoke
  OBVIOUS
<1>1. /\ status = "running" /\ Inst.op = "call" /\ cur_ctx \in DOMAIN contexts
      /\ Len(contexts') = Len(contexts) + 1
  BY CallFrame
<1>2. /\ status' = status /\ cxt_stack' = Chain /\ cur_ctx' = Len(contexts) + 1
  BY DEF Call, Chain
<1>3. cxt_stack # <<>>
  BY <1>1 DEF CallInv, LastReturn
<1>4. /\ Chain \in Seq(Nat) /\ Chain # <<>>
      /\ Len(contexts) + 1 \in Nat \ {0} /\ cur_ctx # 0
  <2>1. cxt_stack \in Seq(Nat) /\ cur_ctx \in Nat \ {0} /\ Len(contexts) \in Nat
    BY <1>1 DEF TypeInv
  <2>2. QED
    BY <2>1, AppendType DEF Chain
<1>5. Chain' = Append(Chain, Len(contexts) + 1)
  BY <1>2 DEF Chain
<1>6. Tail(Chain') = Append(Tail(Chain), Len(contexts) + 1)
  BY <1>4, <1>5, TailAppend
<1>7. Activations = Tail(Chain) /\ Activations' = Tail(Chain')
  BY <1>1, <1>2, <1>3, <1>4 DEF Activations
<1>8. QED
  BY <1>1, <1>2, <1>6, <1>7 DEF Protocol!Invoke

\* The first of main's two returns is a stutter; the others complete the newest
\* activation.
LEMMA MappedReturn ==
  ASSUME TypeInv, CallInv, Return
  PROVE  Protocol!Answer \/ Protocol!Finish \/ UNCHANGED Protocol!pvars
<1>1. status = "running" /\ Len(contexts') = Len(contexts)
  BY ReturnFrame
<1>2. /\ cxt_stack \in Seq(Nat) /\ Len(cxt_stack) \in Nat /\ cur_ctx \in Nat \ {0}
      /\ Len(Chain) = Len(cxt_stack) + 1 /\ Chain[Len(cxt_stack) + 1] = cur_ctx
      /\ \A i \in 1 .. Len(cxt_stack) : Chain[i] = cxt_stack[i]
      /\ Activations = IF cxt_stack = <<>> THEN <<cur_ctx>> ELSE Tail(Chain)
  BY <1>1, ChainShape
<1>3. CASE cxt_stack = <<>>
  <2>1. status' = "finished" /\ cur_ctx' = 0
    BY <1>3 DEF Return
  <2>2. Activations = <<cur_ctx>> /\ Activations' = <<>>
    BY <1>2, <1>3, <2>1 DEF Activations
  <2>3. Protocol!Finish
    BY <1>1, <2>1, <2>2 DEF Protocol!Finish
  <2>4. QED
    BY <2>3
<1>4. CASE cxt_stack # <<>>
  <2>1. /\ status' = status /\ cur_ctx' = cxt_stack[Len(cxt_stack)]
        /\ cxt_stack' = SubSeq(cxt_stack, 1, Len(cxt_stack) - 1)
    BY <1>4 DEF Return
  <2>2. Chain' = cxt_stack /\ Len(cxt_stack') = Len(cxt_stack) - 1
    BY <1>2, <1>4, <2>1, PopChain DEF Chain
  <2>3. Len(cxt_stack) \in Nat \ {0}
    BY <1>2, <1>4, NotEmpty
  <2>4. TypeInv'
    BY NextTypes DEF Next, ExecIR
  <2>5. cur_ctx' # 0
    BY <1>1, <2>1, <2>4 DEF TypeInv
  <2>6. Activations' = IF cxt_stack' = <<>> THEN <<cur_ctx'>> ELSE Tail(Chain')
    BY <1>1, <2>1, <2>5 DEF Activations
  <2>7. CASE Len(cxt_stack) = 1
    <3>1. Chain[1] = cxt_stack[1] /\ Chain[2] = cur_ctx /\ Len(Chain) = 2
      BY <1>2, <2>7
    <3>2. cxt_stack[1] = 1 /\ cur_ctx = 1
      BY <1>1, <3>1 DEF CallInv, CallOrder
    <3>3. cur_ctx' = cur_ctx
      BY <2>1, <2>7, <3>2
    <3>4. Activations = <<cur_ctx>>
      BY <1>2, <1>4, <2>7, TailOfTwo DEF Chain
    <3>5. cxt_stack' = <<>>
      BY <2>1, <2>7, SubSeqEmpty
    <3>6. Activations' = Activations
      BY <2>6, <3>3, <3>4, <3>5
    <3>7. UNCHANGED Protocol!pvars
      BY <1>1, <2>1, <3>6 DEF Protocol!pvars
    <3>8. QED
      BY <3>7
  <2>8. CASE Len(cxt_stack) >= 2
    <3>1. cxt_stack' # <<>>
      <4>1. cxt_stack' \in Seq(1 .. Len(contexts'))
        BY <2>4 DEF TypeInv
      <4>2. Len(cxt_stack') \in Nat \ {0}
        BY <2>2, <2>3, <2>8
      <4>3. QED
        BY <4>1, <4>2, NotEmpty
    <3>2. Activations' = Tail(cxt_stack)
      BY <2>2, <2>6, <3>1
    <3>3. Tail(cxt_stack) = SubSeq(Tail(Chain), 1, Len(Tail(Chain)) - 1)
      BY <1>2, <2>8, TailFront DEF Chain
    <3>4. Activations = Tail(Chain) /\ Len(Tail(Chain)) = Len(cxt_stack)
      <4>1. Chain \in Seq(Nat) /\ Chain # <<>>
        BY <1>1, ChainShape
      <4>2. Len(Tail(Chain)) = Len(Chain) - 1
        BY <4>1, HeadTailProperties
      <4>3. QED
        BY <1>2, <1>4, <4>2
    <3>5. Activations' = SubSeq(Activations, 1, Len(Activations) - 1)
      BY <3>2, <3>3, <3>4
    <3>6. Len(Activations) > 1
      BY <2>3, <2>8, <3>4
    <3>7. Protocol!Answer
      BY <1>1, <2>1, <3>5, <3>6 DEF Protocol!Answer
    <3>8. QED
      BY <3>7
  <2>9. QED
    BY <2>3, <2>7, <2>8
<1>5. QED
  BY <1>3, <1>4

LEMMA MappedNext == TypeInv /\ CallInv /\ [Next]_vars => [Protocol!PNext]_Protocol!pvars
<1> SUFFICES ASSUME TypeInv, CallInv, [Next]_vars
             PROVE  Protocol!PNext \/ UNCHANGED Protocol!pvars
  OBVIOUS
<1>1. CASE Run
  BY <1>1, MappedRun DEF Protocol!PNext
<1>2. CASE RunFails \/ Stop
  BY <1>2, MappedStop DEF Protocol!PNext
<1>3. CASE Ended \/ UNCHANGED vars
  BY <1>3, MappedStutter DEF Ended, vars
<1>4. CASE Return
  BY <1>4, MappedReturn DEF Protocol!PNext
<1>5. CASE Call
  BY <1>5, MappedCall DEF Protocol!PNext
<1>6. CASE Inner
  BY <1>6, InnerFrame, MappedStutter DEF InFrame
<1>7. QED
  BY <1>1, <1>2, <1>3, <1>4, <1>5, <1>6 DEF Next, ExecIR, Inner

\* Every execution of every program is a behaviour of CallProtocol: the executor
\* starts, answers and finishes activations in the order of a stack, and the
\* doubled execution of main's return (ir_executor.cpp:204-211) does not show.
THEOREM Nested == Spec => CallsAreNested
<1>1. Init => Protocol!PInit
  BY MappedInit
<1>2. TypeInv /\ CallInv /\ [Next]_vars => [Protocol!PNext]_Protocol!pvars
  BY MappedNext
<1>3. QED
  BY <1>1, <1>2, CallInvariant, PTL DEF Spec, CallsAreNested, Protocol!PSpec
=============================================================================
