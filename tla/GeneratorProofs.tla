--------------------------- MODULE GeneratorProofs ---------------------------
(***************************************************************************)
(* Whatever program is translated, the names and arrays of a function       *)
(* share no word of its frame (Generator's SlotsApart); they all lie in it  *)
(* when the function needs no more words than a frame has room for          *)
(* (SlotsInFrame); and a program whose jumps stay in their functions is     *)
(* translated to jumps to labels that are there (JumpsLand).                *)
(*                                                                         *)
(* SlotsApart is not inductive: a new slot lies apart from the old ones     *)
(* because offset is below all of them (Below), and stays so because the    *)
(* length of an array is no negative number, which is known only of an      *)
(* instruction of the program (Control).                                    *)
(***************************************************************************)
EXTENDS Generator, TLAPS

Disjoint(s, t) == s + 4 <= t \/ t + 4 <= s

\* Where the translation is.
Control ==
  /\ program \in Programs
  /\ func \in Nat \ {0} /\ instr \in Nat \ {0}
  /\ stage \in {"params", "body", "args"} => func <= Len(program.functions)

\* The slots of a stackVarMap, and that the next one is below them.
TableOK(m) ==
  /\ m = [table |-> m.table, offset |-> m.offset]
  /\ m.offset \in Int /\ m.offset <= -56
  /\ \A x \in DOMAIN m.table : m.table[x] \in Int /\ m.table[x] <= -56
  /\ \A x, y \in DOMAIN m.table : x # y => Disjoint(m.table[x], m.table[y])
ArraysOK(m, set) ==
  /\ \A a \in set : a.lo \in Int /\ a.hi \in Int /\ a.hi <= -56 /\ a.lo <= a.hi + 4
  /\ \A a \in set : \A x \in DOMAIN m.table : m.table[x] + 4 <= a.lo \/ a.hi + 4 <= m.table[x]
  /\ \A a, b \in set : a # b => a.hi < b.lo \/ b.hi < a.lo
Below(m, set) ==
  /\ \A x \in DOMAIN m.table : m.offset + 4 <= m.table[x]
  /\ \A a \in set : m.offset + 4 <= a.lo
FrameOK(m, set) == TableOK(m) /\ ArraysOK(m, set) /\ Below(m, set)

FrameInv == Control /\ FrameOK(varMap, arrays)

-----------------------------------------------------------------------------
(* What the operations do to a frame.                                       *)

\* The slot of a name that had none is apart from everything in the frame
\* (stackVarMap::add_operand).
LEMMA SlotAdded ==
  ASSUME NEW m, NEW set, FrameOK(m, set), NEW o
  PROVE  FrameOK(add_operand(m, o, 4), set)
<1>1. CASE o.name \in DOMAIN m.table
  BY <1>1 DEF add_operand
<1>2. CASE o.name \notin DOMAIN m.table
  <2> DEFINE n == add_operand(m, o, 4)
  <2>1. n.offset = m.offset - 4 /\ DOMAIN n.table = DOMAIN m.table \cup {o.name}
        /\ n = [table |-> n.table, offset |-> n.offset]
    BY <1>2 DEF add_operand
  <2>2. /\ n.table[o.name] = m.offset
        /\ \A x \in DOMAIN m.table : n.table[x] = m.table[x]
    BY <1>2 DEF add_operand
  <2> HIDE DEF n
  <2>3. TableOK(n)
    <3>1. \A x, y \in DOMAIN n.table : x # y => Disjoint(n.table[x], n.table[y])
      BY <2>1, <2>2 DEF FrameOK, TableOK, Below, Disjoint
    <3>2. \A x \in DOMAIN n.table : n.table[x] \in Int /\ n.table[x] <= -56
      BY <2>1, <2>2 DEF FrameOK, TableOK
    <3>3. n.offset \in Int /\ n.offset <= -56
      BY <2>1 DEF FrameOK, TableOK
    <3> QED BY <3>1, <3>2, <3>3, <2>1 DEF TableOK
  <2>4. ArraysOK(n, set)
    BY <2>1, <2>2 DEF FrameOK, TableOK, ArraysOK, Below
  <2>5. Below(n, set)
    <3>1. \A x \in DOMAIN n.table : n.offset + 4 <= n.table[x]
      BY <2>1, <2>2 DEF FrameOK, TableOK, Below
    <3>2. \A a \in set : n.offset + 4 <= a.lo
      BY <2>1 DEF FrameOK, TableOK, ArraysOK, Below
    <3> QED BY <3>1, <3>2 DEF Below
  <2> QED BY <2>3, <2>4, <2>5 DEF FrameOK, n
<1> QED BY <1>1, <1>2

\* The elements of an array are apart from everything above them (AllocSolve).
LEMMA ElementsAdded ==
  ASSUME NEW m, NEW set, FrameOK(m, set), NEW size \in Nat
  PROVE  FrameOK([m EXCEPT !.offset = @ - 4 * size],
                 set \cup {[lo |-> m.offset - 4 * size + 4, hi |-> m.offset]})
<1> DEFINE n == [m EXCEPT !.offset = @ - 4 * size]
           a == [lo |-> m.offset - 4 * size + 4, hi |-> m.offset]
<1>1. n.offset = m.offset - 4 * size /\ n.table = m.table
      /\ n = [table |-> n.table, offset |-> n.offset]
  BY DEF FrameOK, TableOK
<1>2. a.lo = n.offset + 4 /\ a.hi = m.offset
  BY <1>1
<1>3. n.offset \in Int /\ n.offset <= m.offset /\ m.offset \in Int /\ m.offset <= -56
  BY <1>1 DEF FrameOK, TableOK
<1> HIDE DEF n, a
<1>4. TableOK(n)
  BY <1>1, <1>3 DEF FrameOK, TableOK
<1>5. ArraysOK(n, set \cup {a})
  <2>1. \A b \in set : a.hi < b.lo
    BY <1>2, <1>3 DEF FrameOK, ArraysOK, Below
  <2>2. \A x \in DOMAIN n.table : a.hi + 4 <= n.table[x]
    BY <1>1, <1>2 DEF FrameOK, Below
  <2>3. a.lo \in Int /\ a.hi \in Int /\ a.hi <= -56 /\ a.lo <= a.hi + 4
    BY <1>2, <1>3
  <2> QED BY <1>1, <2>1, <2>2, <2>3 DEF FrameOK, ArraysOK
<1>6. Below(n, set \cup {a})
  <2>1. \A x \in DOMAIN n.table : n.offset + 4 <= n.table[x]
    BY <1>1, <1>3 DEF FrameOK, TableOK, Below
  <2>2. \A b \in set : n.offset + 4 <= b.lo
    BY <1>3 DEF FrameOK, ArraysOK, Below
  <2> QED BY <1>2, <2>1, <2>2, <1>3 DEF Below
<1> QED BY <1>4, <1>5, <1>6 DEF FrameOK, n, a

LEMMA EmptyFrame == FrameOK(stackVarMap, {})
BY DEF FrameOK, TableOK, ArraysOK, Below, stackVarMap

\* What getRd's callers do to the map keeps the frame.
LEMMA PlacedKeeps ==
  ASSUME FrameInv, NEW o
  PROVE  FrameOK(Added(o), arrays) /\ FrameOK(Placed(o), arrays)
BY SlotAdded DEF FrameInv, Added, Placed

\* The length of an array is not negative: the instruction is one of the program's.
LEMMA SizeIsNat ==
  ASSUME FrameInv, Solving({"alloc"})
  PROVE  Size \in Nat
<1>1. program.functions \in Seq(IRFunctions)
  BY ProgramsAssumption DEF FrameInv, Control
<1>2. func \in DOMAIN program.functions
  BY <1>1 DEF FrameInv, Control, Solving
<1>3. Func \in IRFunctions
  BY <1>1, <1>2 DEF Func
<1>4. Body \in Seq(Instructions) /\ instr \in DOMAIN Body
  BY <1>3 DEF Body, IRFunctions, FrameInv, Control, Solving
<1>5. Inst.op1.lit \in Int
  <2>1. Inst \in Instructions
    BY <1>4 DEF Inst
  <2>2. Inst.op1 \in Operands
    BY <2>1 DEF Instructions
  <2> QED BY <2>2 DEF Operands
<1>6. CASE Inst.op1.type = "IntLiteral"
  <2>1. IsAlloc(Inst)
    BY <1>6 DEF IsAlloc, Solving
  <2>2. Inst.op1.lit >= 0
    BY <1>2, <1>4, <2>1, ProgramsAssumption DEF Inst, Body, Func, FrameInv, Control
  <2> QED BY <1>5, <1>6, <2>2 DEF Size
<1> QED BY <1>6 DEF Size

-----------------------------------------------------------------------------
(* Every step keeps the invariant.                                          *)

\* An instruction whose code is emitted: the control goes on to the next one.
LEMMA EmitKeeps ==
  ASSUME FrameInv, NEW code, Emit(code)
  PROVE  Control'
BY DEF FrameInv, Control, Emit

LEMMA EmittedKeeps ==
  ASSUME FrameInv, NEW code, Emitted(code)
  PROVE  FrameInv'
<1>1. Control'
  BY EmitKeeps DEF Emitted
<1>2. FrameOK(varMap, arrays)'
  BY DEF FrameInv, Emitted, FrameOK, TableOK, ArraysOK, Below
<1> QED BY <1>1, <1>2 DEF FrameInv

LEMMA EmitToKeeps ==
  ASSUME FrameInv, NEW code, NEW store, NEW reg, EmitTo(code, store, reg)
  PROVE  FrameInv'
<1>1. Control'
  BY EmitKeeps DEF EmitTo
<1>2. FrameOK(varMap', arrays')
  BY PlacedKeeps DEF EmitTo
<1> QED BY <1>1, <1>2 DEF FrameInv

LEMMA InstrSolveKeeps ==
  ASSUME FrameInv, InstrSolve
  PROVE  FrameInv'
<1>1. CASE BinarySolve \/ SeqzSolve \/ MovSolve \/ DefSolve \/ FBinarySolve \/ FMovSolve
           \/ CvtI2FSolve \/ CvtF2ISolve
  BY <1>1, EmitToKeeps DEF BinarySolve, SeqzSolve, MovSolve, DefSolve, FBinarySolve, FMovSolve,
                           CvtI2FSolve, CvtF2ISolve
<1>2. CASE LogicSolve \/ StoreSolve \/ ReturnSolve \/ GotoSolve \/ FLssSolve \/ NoCode
  BY <1>2, EmittedKeeps DEF LogicSolve, StoreSolve, ReturnSolve, GotoSolve, FLssSolve, NoCode
<1>3. CASE LoadSolve \/ FDefSolve
  <2>1. Control'
    BY <1>3, EmitKeeps DEF LoadSolve, FDefSolve
  <2>2. varMap' = Added(Inst.des) /\ arrays' = arrays
    BY <1>3 DEF LoadSolve, FDefSolve
  <2> QED BY <2>1, <2>2, PlacedKeeps DEF FrameInv
<1>4. CASE GlobalDefSolve
  <2>1. Control'
    BY <1>4, EmitKeeps DEF GlobalDefSolve
  <2>2. varMap' = varMap /\ arrays' = arrays
    BY <1>4 DEF GlobalDefSolve
  <2> QED BY <2>1, <2>2 DEF FrameInv
<1>5. CASE AllocSolve
  <2>1. Control'
    BY <1>5, EmitKeeps DEF AllocSolve
  <2>2. FrameOK(Added(Inst.des), arrays)
    BY PlacedKeeps
  <2>3. Size \in Nat
    BY <1>5, SizeIsNat DEF AllocSolve
  <2>4. FrameOK(varMap', arrays')
    BY <1>5, <2>2, <2>3, ElementsAdded DEF AllocSolve
  <2> QED BY <2>1, <2>4 DEF FrameInv
<1>6. CASE CallStart \/ CallArgument
  <2>1. stage \in {"body", "args"} /\ stage' \in {"body", "args"}
    BY <1>6 DEF CallStart, CallArgument, Solving
  <2>2. program' = program /\ func' = func /\ instr' = instr
    BY <1>6 DEF CallStart, CallArgument
  <2>3. varMap' = varMap /\ arrays' = arrays
    BY <1>6 DEF CallStart, CallArgument
  <2> QED BY <2>1, <2>2, <2>3 DEF FrameInv, Control
<1>7. CASE CallEnd
  <2>1. Control'
    BY <1>7 DEF CallEnd, FrameInv, Control
  <2>2. arrays' = arrays /\ (varMap' = varMap \/ varMap' = Added(Inst.des))
    BY <1>7 DEF CallEnd
  <2> QED BY <2>1, <2>2, PlacedKeeps DEF FrameInv
<1> QED BY <1>1, <1>2, <1>3, <1>4, <1>5, <1>6, <1>7 DEF InstrSolve

LEMMA GenKeeps ==
  ASSUME FrameInv, [Gen]_translation
  PROVE  FrameInv'
<1>1. CASE DataSection \/ ParamsDone \/ GenDone
  BY <1>1 DEF DataSection, ParamsDone, GenDone, FrameInv, Control
<1>2. CASE FuncSolve
  <2>1. Control'
    BY <1>2 DEF FuncSolve, FrameInv, Control
  <2> QED BY <1>2, <2>1, EmptyFrame DEF FuncSolve, FrameInv
<1>3. CASE ParamSolve
  <2>1. Control'
    BY <1>3 DEF ParamSolve, FrameInv, Control
  <2>2. arrays' = arrays /\ (varMap' = varMap \/ varMap' = Added(Param))
    BY <1>3 DEF ParamSolve
  <2> QED BY <2>1, <2>2, PlacedKeeps DEF FrameInv
<1>4. CASE FuncEnd
  BY <1>4 DEF FuncEnd, FrameInv, Control
<1>5. CASE InstrSolve
  BY <1>5, InstrSolveKeeps
<1>6. CASE UNCHANGED translation
  BY <1>6 DEF translation, FrameInv, Control
<1> QED BY <1>1, <1>2, <1>3, <1>4, <1>5, <1>6 DEF Gen, Translate, Translated

\* No two names of a function share a word of its frame, no element of an array is a
\* name's slot or an element of another array, and none reaches the words where the
\* registers were saved (generator.cpp:35-42, 1178-1200).
THEOREM FramesApart == GenSpec => []SlotsApart
<1>1. GenInit => FrameInv
  BY EmptyFrame DEF GenInit, GeneratorOf, FrameInv, Control
<1>2. FrameInv /\ [Gen]_translation => FrameInv'
  BY GenKeeps
<1>3. FrameInv => SlotsApart
  BY DEF FrameInv, FrameOK, TableOK, ArraysOK, SlotsApart, Slots, Disjoint
<1> QED BY <1>1, <1>2, <1>3, PTL DEF GenSpec

-----------------------------------------------------------------------------
(* A function that needs no more words than there is room for.              *)

\* The words between those of the saved registers and sp.
Room == 377
\* How many words of its frame f may need: one for every parameter, one for every
\* instruction, and the elements of the arrays; need[k] when k are translated.
Elements(i) == IF IsAlloc(i) THEN i.op1.lit ELSE 0
Needs(f, need) ==
  /\ need \in [0 .. Len(f.InstVec) -> 0 .. Room]
  /\ Len(f.ParameterList) <= need[0]
  /\ \A k \in 1 .. Len(f.InstVec) : need[k - 1] + 1 + Elements(f.InstVec[k]) <= need[k]
Small(p) == \A k \in DOMAIN p.functions : \E need : Needs(p.functions[k], need)

\* What the parameters and instructions so far have taken of the frame.
RoomLeft ==
  /\ stage \notin {"params", "body", "args"} => varMap.offset >= -56 - 4 * Room
  /\ stage = "params" =>
       /\ instr = 1 /\ arg \in 1 .. (Len(Func.ParameterList) + 1)
       /\ varMap.offset >= -56 - 4 * (arg - 1)
  /\ stage \in {"body", "args"} =>
       /\ instr <= Len(Body) + 1
       /\ stage = "args" => instr <= Len(Body)
       /\ \A need : Needs(Func, need) => varMap.offset >= -56 - 4 * need[instr - 1]
RoomInv == Small(program) => RoomLeft

\* The function and its lists.
LEMMA FuncType ==
  ASSUME FrameInv, stage \in {"params", "body", "args"}
  PROVE  /\ func \in DOMAIN program.functions /\ Func \in IRFunctions
         /\ Body \in Seq(Instructions) /\ Func.ParameterList \in Seq(Operands)
<1>1. program.functions \in Seq(IRFunctions)
  BY ProgramsAssumption DEF FrameInv, Control
<1>2. func \in DOMAIN program.functions
  BY <1>1 DEF FrameInv, Control
<1>3. Func \in IRFunctions
  BY <1>1, <1>2 DEF Func
<1> QED BY <1>2, <1>3 DEF Body, IRFunctions

LEMMA ElementsType ==
  ASSUME FrameInv, stage \in {"body", "args"}, instr <= Len(Body)
  PROVE  /\ instr \in DOMAIN Body /\ Elements(Inst) \in Nat
         /\ Inst.op = "alloc" => Elements(Inst) = Size
<1>1. Body \in Seq(Instructions) /\ instr \in DOMAIN Body /\ func \in DOMAIN program.functions
  BY FuncType DEF FrameInv, Control
<1>2. Inst \in Instructions
  BY <1>1 DEF Inst
<1>3. Inst.op1 \in Operands
  BY <1>2 DEF Instructions
<1>4. Inst.op1.lit \in Int
  BY <1>3 DEF Operands
<1>5. IsAlloc(Inst) => Inst.op1.lit >= 0
  BY <1>1, ProgramsAssumption DEF Inst, Body, Func, FrameInv, Control
<1> QED BY <1>1, <1>4, <1>5 DEF Elements, IsAlloc, Size

LEMMA NeedsAt ==
  ASSUME NEW f, NEW need, Needs(f, need), NEW k \in 0 .. Len(f.InstVec)
  PROVE  need[k] \in Int /\ need[k] <= Room /\ Room = 377
<1>1. Room = 377
  BY DEF Room
<1>2. need[k] \in 0 .. Room
  BY DEF Needs
<1>3. \A v \in 0 .. Room : v \in Int /\ v <= Room
  BY <1>1
<1> QED BY <1>1, <1>2, <1>3

\* A slot takes one word at most.
LEMMA OneWord ==
  ASSUME FrameInv, NEW o
  PROVE  /\ varMap.offset \in Int
         /\ Added(o).offset \in Int /\ Added(o).offset >= varMap.offset - 4
         /\ Placed(o).offset \in Int /\ Placed(o).offset >= varMap.offset - 4
BY DEF FrameInv, FrameOK, TableOK, Added, Placed, add_operand

\* An instruction takes a word for its destination and those of the elements.
LEMMA InstructionTakes ==
  ASSUME FrameInv, Small(program), RoomLeft, NEW n, n = Elements(Inst),
         stage \in {"body", "args"}, instr \in DOMAIN Body, n \in Nat,
         program' = program, func' = func, instr' = instr + 1, stage' = "body",
         varMap'.offset \in Int, varMap'.offset >= varMap.offset - 4 - 4 * n
  PROVE  RoomLeft'
<1>1. Func' = Func /\ Body' = Body
  BY DEF Func, Body
<1>2. Body \in Seq(Instructions) /\ instr \in 1 .. Len(Body)
  BY FuncType
<1>3. ASSUME NEW need, Needs(Func, need)
      PROVE  varMap'.offset >= -56 - 4 * need[instr' - 1]
  <2>1. varMap.offset >= -56 - 4 * need[instr - 1] /\ varMap.offset \in Int
    BY <1>3, OneWord DEF RoomLeft
  <2>2. need[instr - 1] + 1 + n <= need[instr]
    BY <1>2, <1>3 DEF Needs, Inst, Body
  <2>3. need[instr - 1] \in Int /\ need[instr] \in Int
    BY <1>2, <1>3, NeedsAt DEF Body
  <2>4. instr' - 1 = instr
    BY <1>2
  <2> QED BY <2>1, <2>2, <2>3, <2>4
<1>4. instr' <= Len(Body') + 1
  BY <1>1, <1>2
<1> QED BY <1>1, <1>3, <1>4 DEF RoomLeft

LEMMA EmitTakes ==
  ASSUME FrameInv, Small(program), RoomLeft, stage = "body", instr <= Len(Body),
         NEW code, Emit(code),
         \/ varMap' = varMap \/ varMap' = Added(Inst.des) \/ varMap' = Placed(Inst.des)
         \/ /\ Inst.op = "alloc"
            /\ varMap' = [Added(Inst.des) EXCEPT !.offset = @ - 4 * Size]
  PROVE  RoomLeft'
<1>1. instr \in DOMAIN Body /\ Elements(Inst) \in Nat
      /\ (Inst.op = "alloc" => Elements(Inst) = Size)
  BY ElementsType
<1>2. /\ varMap.offset \in Int
      /\ Added(Inst.des).offset \in Int /\ Added(Inst.des).offset >= varMap.offset - 4
      /\ Placed(Inst.des).offset \in Int /\ Placed(Inst.des).offset >= varMap.offset - 4
  BY OneWord
<1>3. varMap'.offset \in Int /\ varMap'.offset >= varMap.offset - 4 - 4 * Elements(Inst)
  <2>1. CASE varMap' \in {varMap, Added(Inst.des), Placed(Inst.des)}
    BY <1>1, <1>2, <2>1
  <2>2. CASE Inst.op = "alloc" /\ varMap' = [Added(Inst.des) EXCEPT !.offset = @ - 4 * Size]
    <3>1. FrameOK(Added(Inst.des), arrays)
      BY PlacedKeeps
    <3>2. varMap'.offset = Added(Inst.des).offset - 4 * Size
      BY <2>2, <3>1 DEF FrameOK, TableOK
    <3> QED BY <1>1, <1>2, <2>2, <3>2
  <2> QED BY <2>1, <2>2
<1>4. program' = program /\ func' = func /\ instr' = instr + 1 /\ stage' = "body"
  BY DEF Emit
<1> QED BY <1>1, <1>3, <1>4, InstructionTakes

LEMMA InstrSolveTakes ==
  ASSUME FrameInv, Small(program), RoomLeft, InstrSolve
  PROVE  RoomLeft'
<1>1. CASE \/ BinarySolve \/ SeqzSolve \/ MovSolve \/ DefSolve \/ FBinarySolve \/ FMovSolve
           \/ CvtI2FSolve \/ CvtF2ISolve
  <2>1. stage = "body" /\ instr <= Len(Body)
    BY <1>1 DEF BinarySolve, SeqzSolve, MovSolve, DefSolve, FBinarySolve, FMovSolve,
                CvtI2FSolve, CvtF2ISolve, Solving
  <2>2. \E code, store, reg : EmitTo(code, store, reg)
    BY <1>1 DEF BinarySolve, SeqzSolve, MovSolve, DefSolve, FBinarySolve, FMovSolve,
                CvtI2FSolve, CvtF2ISolve
  <2> QED BY <2>1, <2>2, EmitTakes DEF EmitTo
<1>2. CASE LogicSolve \/ StoreSolve \/ ReturnSolve \/ GotoSolve \/ FLssSolve \/ NoCode
  <2>1. stage = "body" /\ instr <= Len(Body)
    BY <1>2 DEF LogicSolve, StoreSolve, ReturnSolve, GotoSolve, FLssSolve, NoCode, Solving
  <2>2. \E code : Emitted(code)
    BY <1>2 DEF LogicSolve, StoreSolve, ReturnSolve, GotoSolve, FLssSolve, NoCode
  <2> QED BY <2>1, <2>2, EmitTakes DEF Emitted
<1>3. CASE LoadSolve \/ FDefSolve \/ GlobalDefSolve
  <2>1. stage = "body" /\ instr <= Len(Body)
    BY <1>3 DEF LoadSolve, FDefSolve, GlobalDefSolve, Solving
  <2>2. /\ \E code : Emit(code)
        /\ varMap' = varMap \/ varMap' = Added(Inst.des)
    BY <1>3 DEF LoadSolve, FDefSolve, GlobalDefSolve
  <2> QED BY <2>1, <2>2, EmitTakes
<1>4. CASE AllocSolve
  <2>1. stage = "body" /\ instr <= Len(Body) /\ Inst.op = "alloc"
    BY <1>4 DEF AllocSolve, Solving
  <2>2. /\ \E code : Emit(code)
        /\ varMap' = [Added(Inst.des) EXCEPT !.offset = @ - 4 * Size]
    BY <1>4 DEF AllocSolve
  <2> QED BY <2>1, <2>2, EmitTakes
<1>5. CASE CallStart \/ CallArgument
  <2>1. /\ stage \in {"body", "args"} /\ stage' = "args"
        /\ UNCHANGED <<program, func, instr, varMap>>
        /\ instr <= Len(Body)
    BY <1>5 DEF CallStart, CallArgument, Solving, RoomLeft
  <2> QED BY <2>1 DEF RoomLeft, Func, Body
<1>6. CASE CallEnd
  <2>1. /\ stage = "args" /\ instr <= Len(Body) /\ stage' = "body"
        /\ program' = program /\ func' = func /\ instr' = instr + 1
    BY <1>6 DEF CallEnd, RoomLeft
  <2>2. varMap'.offset \in Int /\ varMap'.offset >= varMap.offset - 4
    BY <1>6, OneWord DEF CallEnd
  <2>3. instr \in DOMAIN Body
    BY <2>1, FuncType DEF FrameInv, Control
  <2>4. varMap.offset \in Int
    BY OneWord
  <2>5. Elements(Inst) \in Nat
    BY <2>1, ElementsType
  <2> QED BY <2>1, <2>2, <2>3, <2>4, <2>5, InstructionTakes
<1> QED BY <1>1, <1>2, <1>3, <1>4, <1>5, <1>6 DEF InstrSolve

LEMMA GenTakes ==
  ASSUME FrameInv, RoomInv, [Gen]_translation
  PROVE  RoomInv'
<1> SUFFICES ASSUME Small(program)' PROVE RoomLeft'
  BY DEF RoomInv
<1>1. program' = program
  BY DEF Gen, Translate, Translated, translation, DataSection, FuncSolve, ParamSolve,
     ParamsDone, FuncEnd, GenDone, InstrSolve, BinarySolve, LogicSolve, SeqzSolve, MovSolve,
     DefSolve, GlobalDefSolve, AllocSolve, LoadSolve, StoreSolve, ReturnSolve, GotoSolve,
     CallStart, CallArgument, CallEnd, FBinarySolve, FMovSolve, FDefSolve, CvtI2FSolve,
     CvtF2ISolve, FLssSolve, NoCode, Emit, Emitted, EmitTo
<1>2. Small(program) /\ RoomLeft
  BY <1>1 DEF RoomInv
<1>3. CASE DataSection \/ GenDone
  BY <1>2, <1>3 DEF DataSection, GenDone, RoomLeft
<1>4. CASE FuncSolve
  <2>1. /\ program.functions \in Seq(IRFunctions) /\ func \in DOMAIN program.functions
        /\ Func' = Func
    BY <1>4, ProgramsAssumption DEF FuncSolve, FrameInv, Control, Func
  <2>2. Len(Func.ParameterList) \in Nat
    BY <2>1 DEF Func, IRFunctions
  <2> QED BY <1>4, <2>1, <2>2 DEF FuncSolve, RoomLeft, stackVarMap
<1>5. CASE ParamSolve
  <2>1. /\ stage = "params" /\ stage' = "params" /\ instr' = instr /\ arg' = arg + 1
        /\ arg <= Len(Func.ParameterList) /\ Func' = Func
        /\ varMap' = varMap \/ varMap' = Added(Param)
    BY <1>5 DEF ParamSolve, Func
  <2>2. varMap.offset \in Int /\ varMap'.offset \in Int /\ varMap'.offset >= varMap.offset - 4
    BY <2>1, OneWord
  <2>3. Len(Func.ParameterList) \in Nat
    BY <2>1, FuncType
  <2>4. /\ varMap.offset >= -56 - 4 * (arg - 1)
        /\ arg \in 1 .. (Len(Func.ParameterList) + 1)
    BY <1>2, <2>1 DEF RoomLeft
  <2>5. varMap'.offset >= -56 - 4 * (arg' - 1) /\ arg' \in 1 .. (Len(Func.ParameterList) + 1)
    BY <2>1, <2>2, <2>3, <2>4
  <2> QED BY <1>2, <2>1, <2>5 DEF RoomLeft
<1>6. CASE ParamsDone
  <2>1. /\ stage = "params" /\ stage' = "body" /\ UNCHANGED <<instr, varMap>>
        /\ arg > Len(Func.ParameterList) /\ Func' = Func /\ Body' = Body
    BY <1>6 DEF ParamsDone, Func, Body
  <2>2. Body \in Seq(Instructions) /\ Len(Func.ParameterList) \in Nat
    BY <2>1, FuncType
  <2>3. ASSUME NEW need, Needs(Func, need) PROVE varMap.offset >= -56 - 4 * need[0]
    <3>1. Len(Func.ParameterList) <= need[0] /\ need[0] \in Int
      BY <2>2, <2>3, NeedsAt DEF Needs, Body
    <3>2. varMap.offset >= -56 - 4 * (arg - 1) /\ arg = Len(Func.ParameterList) + 1
      BY <1>2, <2>1, <2>2 DEF RoomLeft
    <3>3. varMap.offset \in Int
      BY OneWord
    <3> QED BY <2>2, <3>1, <3>2, <3>3
  <2>4. instr = 1
    BY <1>2, <2>1 DEF RoomLeft
  <2> QED BY <2>1, <2>2, <2>3, <2>4 DEF RoomLeft
<1>7. CASE FuncEnd
  <2>1. stage = "body" /\ stage' = "function" /\ varMap' = varMap
    BY <1>7 DEF FuncEnd
  <2>2. func \in DOMAIN program.functions /\ Body \in Seq(Instructions)
    BY <2>1, FuncType
  <2>3. PICK need : Needs(Func, need)
    BY <1>2, <2>2 DEF Small, Func
  <2>4. varMap.offset >= -56 - 4 * need[instr - 1] /\ instr - 1 \in 0 .. Len(Body)
    BY <1>2, <2>1, <2>2, <2>3 DEF RoomLeft, FrameInv, Control
  <2>5. need[instr - 1] \in Int /\ need[instr - 1] <= Room /\ Room = 377
    BY <2>3, <2>4, NeedsAt DEF Body
  <2>6. varMap.offset \in Int
    BY OneWord
  <2>7. varMap.offset >= -56 - 4 * Room
    BY <2>4, <2>5, <2>6
  <2> QED BY <2>1, <2>7 DEF RoomLeft
<1>8. CASE InstrSolve
  BY <1>2, <1>8, InstrSolveTakes
<1>9. CASE UNCHANGED translation
  BY <1>2, <1>9 DEF translation, RoomLeft, Func, Body
<1> QED BY <1>3, <1>4, <1>5, <1>6, <1>7, <1>8, <1>9 DEF Gen, Translate, Translated

LEMMA RoomKept ==
  ASSUME FrameInv, Small(program), RoomLeft
  PROVE  varMap.offset >= -56 - 4 * Room
<1>1. CASE stage \notin {"params", "body", "args"}
  BY <1>1 DEF RoomLeft
<1>2. CASE stage \in {"params", "body", "args"}
  <2>1. func \in DOMAIN program.functions /\ Body \in Seq(Instructions)
        /\ Func.ParameterList \in Seq(Operands)
    BY <1>2, FuncType
  <2>2. PICK need : Needs(Func, need)
    BY <2>1 DEF Small, Func
  <2>3. varMap.offset \in Int
    BY OneWord
  <2>4. CASE stage = "params"
    <3>1. /\ varMap.offset >= -56 - 4 * (arg - 1)
          /\ arg \in 1 .. (Len(Func.ParameterList) + 1)
      BY <2>4 DEF RoomLeft
    <3>2. Len(Func.ParameterList) <= need[0]
      BY <2>2 DEF Needs
    <3>3. need[0] \in Int /\ need[0] <= Room /\ Room = 377
      BY <2>1, <2>2, NeedsAt DEF Body
    <3>4. Len(Func.ParameterList) \in Nat
      BY <2>1
    <3>5. arg \in Int /\ arg - 1 <= Room
      BY <3>1, <3>2, <3>3, <3>4
    <3> QED BY <2>3, <3>1, <3>3, <3>5
  <2>5. CASE stage \in {"body", "args"}
    <3>1. varMap.offset >= -56 - 4 * need[instr - 1] /\ instr - 1 \in 0 .. Len(Body)
      BY <2>1, <2>2, <2>5 DEF RoomLeft, FrameInv, Control
    <3>2. need[instr - 1] \in Int /\ need[instr - 1] <= Room /\ Room = 377
      BY <2>2, <3>1, NeedsAt DEF Body
    <3> QED BY <2>3, <3>1, <3>2
  <2> QED BY <1>2, <2>4, <2>5
<1> QED BY <1>1, <1>2

\* Everything a function keeps lies above its sp (generator.cpp:7), if its
\* parameters, its instructions and the elements of its arrays are no more than
\* the 377 words between the saved registers and sp.
THEOREM FramesHold == GenSpec => [](Small(program) => SlotsInFrame)
<1>1. GenInit => FrameInv /\ RoomInv
  <2> SUFFICES ASSUME GenInit PROVE FrameInv /\ RoomInv
    OBVIOUS
  <2>1. FrameInv
    BY EmptyFrame DEF GenInit, GeneratorOf, FrameInv, Control
  <2>2. RoomInv
    BY DEF GenInit, GeneratorOf, RoomInv, RoomLeft, stackVarMap, Room
  <2> QED BY <2>1, <2>2
<1>2. FrameInv /\ RoomInv /\ [Gen]_translation => FrameInv' /\ RoomInv'
  BY GenKeeps, GenTakes
<1>3. FrameInv /\ RoomInv => (Small(program) => SlotsInFrame)
  <2> SUFFICES ASSUME FrameInv, RoomInv, Small(program) PROVE SlotsInFrame
    OBVIOUS
  <2>1. varMap.offset >= -56 - 4 * Room /\ varMap.offset \in Int
    BY RoomKept, OneWord DEF RoomInv
  <2>2. varMap.offset + 4 >= -frame_size
    BY <2>1 DEF Room, frame_size
  <2>3. \A s \in Slots : s \in Int /\ varMap.offset + 4 <= s
    BY DEF FrameInv, FrameOK, TableOK, Below, Slots
  <2>4. \A a \in arrays : a.lo \in Int /\ varMap.offset + 4 <= a.lo
    BY DEF FrameInv, FrameOK, ArraysOK, Below
  <2>5. frame_size \in Int
    BY DEF frame_size
  <2> QED BY <2>1, <2>2, <2>3, <2>4, <2>5 DEF SlotsInFrame
<1> QED BY <1>1, <1>2, <1>3, PTL DEF GenSpec

-----------------------------------------------------------------------------
(* Code: sequences of lines, the labels in it and those it jumps to.        *)

IsCode(s)   == s \in Seq({s[k] : k \in DOMAIN s})
JumpOps     == {"j", "bnez"}
JumpsOf(s)  == {s[k].sym : k \in {n \in DOMAIN s : s[n].op \in JumpOps}}
LabelsOf(s) == {s[k].sym : k \in {n \in DOMAIN s : s[n].op = "label"}}
\* Code that does not jump.
Plain(s) == IsCode(s) /\ \A k \in DOMAIN s : s[k].op \notin JumpOps

LEMMA Joined ==
  ASSUME NEW s, NEW t, IsCode(s), IsCode(t)
  PROVE  /\ IsCode(s \o t)
         /\ JumpsOf(s \o t) = JumpsOf(s) \cup JumpsOf(t)
         /\ LabelsOf(s \o t) = LabelsOf(s) \cup LabelsOf(t)
<1> DEFINE S == {s[k] : k \in DOMAIN s}  T == {t[k] : k \in DOMAIN t}  U == S \cup T
           r == s \o t
<1>1. s \in Seq(U) /\ t \in Seq(U)
  BY DEF IsCode
<1> HIDE DEF S, T, U
<1>2. /\ r \in Seq(U) /\ DOMAIN r = 1 .. (Len(s) + Len(t))
      /\ Len(s) \in Nat /\ Len(t) \in Nat /\ DOMAIN s = 1 .. Len(s) /\ DOMAIN t = 1 .. Len(t)
      /\ \A k \in DOMAIN s : k \in DOMAIN r /\ r[k] = s[k]
      /\ \A k \in DOMAIN t : Len(s) + k \in DOMAIN r /\ r[Len(s) + k] = t[k]
  BY <1>1
<1>3. \A k \in DOMAIN r : \/ k \in DOMAIN s /\ r[k] = s[k]
                          \/ \E j \in DOMAIN t : k = Len(s) + j /\ r[k] = t[j]
  <2> SUFFICES ASSUME NEW k \in DOMAIN r, k \notin DOMAIN s
               PROVE  \E j \in DOMAIN t : k = Len(s) + j /\ r[k] = t[j]
    BY <1>2
  <2>1. k - Len(s) \in DOMAIN t /\ k = Len(s) + (k - Len(s))
    BY <1>2
  <2> QED BY <1>2, <2>1
<1> HIDE DEF r
<1>4. IsCode(r)
  <2> DEFINE R == {r[k] : k \in DOMAIN r}
  <2>1. PICK n \in Nat : DOMAIN r = 1 .. n
    BY <1>2
  <2>2. r = [k \in 1 .. n |-> r[k]]
    BY <1>2, <2>1
  <2>3. \A k \in 1 .. n : r[k] \in R
    BY <2>1
  <2> HIDE DEF R
  <2>4. [k \in 1 .. n |-> r[k]] \in Seq(R)
    BY <2>3
  <2>5. r \in Seq(R)
    BY <2>2, <2>4
  <2> QED BY <2>5 DEF IsCode, R
<1>5. JumpsOf(r) = JumpsOf(s) \cup JumpsOf(t) /\ LabelsOf(r) = LabelsOf(s) \cup LabelsOf(t)
  BY <1>2, <1>3 DEF JumpsOf, LabelsOf
<1> QED BY <1>4, <1>5 DEF r

LEMMA JoinedTwice ==
  ASSUME NEW r, NEW s, NEW t, IsCode(r), IsCode(s), IsCode(t)
  PROVE  (r \o s) \o t = r \o (s \o t)
<1> DEFINE U == {r[k] : k \in DOMAIN r} \cup {s[k] : k \in DOMAIN s} \cup {t[k] : k \in DOMAIN t}
<1>1. r \in Seq(U) /\ s \in Seq(U) /\ t \in Seq(U)
  BY DEF IsCode
<1> HIDE DEF U
<1> QED BY <1>1

LEMMA PlainJumps == \A s : Plain(s) <=> IsCode(s) /\ JumpsOf(s) = {}
BY DEF Plain, JumpsOf

LEMMA PlainJoined ==
  ASSUME NEW s, NEW t, Plain(s), Plain(t)
  PROVE  Plain(s \o t)
BY Joined, PlainJumps

LEMMA FewLines ==
  /\ Plain(<<>>)
  /\ \A a : a.op \notin JumpOps => Plain(<<a>>)
  /\ \A a, b : {a.op, b.op} \cap JumpOps = {} => Plain(<<a, b>>)
  /\ \A a, b, c : {a.op, b.op, c.op} \cap JumpOps = {} => Plain(<<a, b, c>>)
  /\ \A a, b, c, d : {a.op, b.op, c.op, d.op} \cap JumpOps = {} => Plain(<<a, b, c, d>>)
<1>1. Plain(<<>>)
  BY DEF Plain, IsCode
<1>2. \A a : a.op \notin JumpOps => Plain(<<a>>)
  BY DEF Plain, IsCode
<1>3. \A a, b : {a.op, b.op} \cap JumpOps = {} => Plain(<<a, b>>)
  BY DEF Plain, IsCode
<1>4. \A a, b, c : {a.op, b.op, c.op} \cap JumpOps = {} => Plain(<<a, b, c>>)
  BY DEF Plain, IsCode
<1>5. \A a, b, c, d : {a.op, b.op, c.op, d.op} \cap JumpOps = {} => Plain(<<a, b, c, d>>)
  BY DEF Plain, IsCode
<1> QED BY <1>1, <1>2, <1>3, <1>4, <1>5

\* The lines of the generator and their operations.
LEMMA LineOps ==
  /\ \A op, rd, a, b, k, sym : Line(op, rd, a, b, k, sym).op = op
                               /\ Line(op, rd, a, b, k, sym).sym = sym
  /\ \A op, rd, a, b : Three(op, rd, a, b).op = op
  /\ \A op, rd, a : Two(op, rd, a).op = op
  /\ \A op, rd, a, k : Imm(op, rd, a, k).op = op
  /\ \A rd, k : Li(rd, k).op = "li"
  /\ \A op, r, sym : Of(op, r, sym).op = op /\ Of(op, r, sym).sym = sym
  /\ \A sym : Mark(sym).op = "label" /\ Mark(sym).sym = sym
  /\ \A op, r, k, base : Mem(op, r, k, base).op = op
BY DEF Line, Three, Two, Imm, Li, Of, Mark, Mem

-----------------------------------------------------------------------------
(* Only goto and return write a jump.                                       *)

\* A value into a register.
LEMMA Loaded ==
  ASSUME NEW m, NEW o, NEW reg
  PROVE  /\ Plain(Word(m, o, reg)) /\ Plain(FWord(m, o, reg))
         /\ Plain(getRs1(m, o)) /\ Plain(getRs2(m, o)) /\ Plain(getRd(m, o))
         /\ Plain(fgetRs1(m, o)) /\ Plain(fgetRs2(m, o)) /\ Plain(fgetRd(m, o))
<1>1. \A r : Plain(Word(m, o, r))
  BY FewLines, LineOps DEF Word, JumpOps
<1>2. \A r : Plain(FromFloatNum(o, r))
  BY FewLines, LineOps DEF FromFloatNum, JumpOps
<1>3. \A r : Plain(FWord(m, o, r))
  BY <1>2, FewLines, LineOps DEF FWord, JumpOps
<1>4. Plain(getRs1(m, o))
  BY <1>1, FewLines, LineOps DEF getRs1, JumpOps
<1>5. Plain(fgetRd(m, o))
  BY <1>2, FewLines, LineOps DEF fgetRd, JumpOps
<1> QED BY <1>1, <1>3, <1>4, <1>5 DEF getRs2, getRd, fgetRs1, fgetRs2

LEMMA Kept ==
  ASSUME NEW m, NEW o, NEW store, NEW reg, store \notin JumpOps
  PROVE  Plain(Keep(m, o, store, reg))
BY FewLines, LineOps DEF Keep, JumpOps

LEMMA Compared == \A op : Plain(Compare(op))
BY FewLines, LineOps DEF Compare, JumpOps

LEMMA Addressed ==
  ASSUME NEW m, NEW o
  PROVE  Plain(InFrame(m, o)) /\ Plain(ElementOf(m, o))
<1>1. Plain(InFrame(m, o))
  BY FewLines, LineOps DEF InFrame, JumpOps
<1> QED BY <1>1, FewLines, LineOps DEF ElementOf, JumpOps

LEMMA Rounded ==
  ASSUME NEW code, Plain(code)
  PROVE  Plain(Rounding(code))
<1>1. Plain(<<Of("frcsr", "t5", NoSymbol), Imm("fsrmi", "", "", 2)>>)
  <2>1. Of("frcsr", "t5", NoSymbol).op = "frcsr" /\ Imm("fsrmi", "", "", 2).op = "fsrmi"
    BY DEF Of, Imm, Line
  <2> QED BY <2>1, FewLines DEF JumpOps
<1>2. Plain(<<Of("fscsr", "t5", NoSymbol)>>)
  BY FewLines, LineOps DEF JumpOps
<1>3. Plain(<<Of("frcsr", "t5", NoSymbol), Imm("fsrmi", "", "", 2)>> \o code)
  BY <1>1, PlainJoined
<1> QED BY <1>2, <1>3, PlainJoined DEF Rounding

LEMMA ArgumentPlain ==
  ASSUME NEW i, NEW o, NEW reg, NEW freg
  PROVE  Plain(Passed(o, reg, freg)) /\ Plain(OnStack(i, o))
<1>1. Plain(Passed(o, reg, freg))
  BY Loaded, FewLines, LineOps DEF Passed, JumpOps
<1>2. Plain(<<Mem("sw", "t0", 4 * (i - 1) - 32, "sp")>>)
  BY FewLines, LineOps DEF JumpOps
<1> QED BY <1>1, <1>2, Loaded, PlainJoined DEF OnStack

LEMMA ParameterPlain == Plain(Arrived)
BY FewLines, LineOps DEF Arrived, JumpOps

LEMMA Saves ==
  ASSUME NEW op, op \notin JumpOps
  PROVE  Plain([k \in DOMAIN Saved |-> Mem(op, Saved[k], frame_size - 4 * k, "sp")])
<1> DEFINE s == [k \in DOMAIN Saved |-> Mem(op, Saved[k], frame_size - 4 * k, "sp")]
<1>1. DOMAIN Saved = 1 .. 5
  BY DEF Saved
<1>2. s = [k \in 1 .. 5 |-> s[k]] /\ DOMAIN s = 1 .. 5
  BY <1>1
<1>3. \A k \in DOMAIN s : s[k].op = op
  BY LineOps
<1> HIDE DEF s
<1>4. IsCode(s)
  BY <1>2 DEF IsCode
<1>5. Plain(s)
  BY <1>3, <1>4 DEF Plain
<1> QED BY <1>5 DEF s

LEMMA ProloguePlain == Plain(Prologue)
<1>1. /\ Plain(<<Mark(Entry(Func.name)), Imm("addi", "sp", "sp", -frame_size)>>)
      /\ Plain(<<Two("fmv.w.x", "ft0", "zero"), Imm("addi", "s0", "sp", frame_size)>>)
  BY FewLines, LineOps DEF JumpOps
<1>2. Plain([k \in DOMAIN Saved |-> Mem("sw", Saved[k], frame_size - 4 * k, "sp")])
  BY Saves DEF JumpOps
<1> QED BY <1>1, <1>2, PlainJoined DEF Prologue

\* The end of a function marks its exit, and one label more than instructions.
LEMMA EpiloguePlain ==
  /\ Plain(Epilogue)
  /\ {At(Func.name, Instr_ID), Exit(Func.name)} \subseteq LabelsOf(Epilogue)
<1> DEFINE a == <<Mark(At(Func.name, Instr_ID)), Mark(Exit(Func.name))>>
           b == [k \in DOMAIN Saved |-> Mem("lw", Saved[k], frame_size - 4 * k, "sp")]
           c == <<Imm("addi", "sp", "sp", frame_size), Of("jr", "ra", NoSymbol)>>
<1>1. Plain(a) /\ Plain(c)
  BY FewLines, LineOps DEF JumpOps
<1>2. Plain(b)
  BY Saves DEF JumpOps
<1>3. DOMAIN a = {1, 2} /\ a[1] = Mark(At(Func.name, Instr_ID))
      /\ a[2] = Mark(Exit(Func.name))
  OBVIOUS
<1> HIDE DEF a, b, c
<1>4. {At(Func.name, Instr_ID), Exit(Func.name)} \subseteq LabelsOf(a)
  BY <1>3, LineOps DEF LabelsOf
<1>5. Plain(a \o b)
  BY <1>1, <1>2, PlainJoined
<1>6. LabelsOf(a) \subseteq LabelsOf(a \o b \o c)
  BY <1>1, <1>2, <1>5, Joined DEF Plain
<1>7. Plain(a \o b \o c)
  BY <1>1, <1>5, PlainJoined
<1> QED BY <1>4, <1>6, <1>7 DEF Epilogue, a, b, c

-----------------------------------------------------------------------------
(* The labels so far, and those a function is yet to write.                 *)

\* Every goto of p leads to an instruction of its function or to its end.
Inside(p) ==
  \A f \in DOMAIN p.functions : \A k \in DOMAIN p.functions[f].InstVec :
    p.functions[f].InstVec[k].op = "goto" =>
      k + p.functions[f].InstVec[k].des.lit \in 1 .. (Len(p.functions[f].InstVec) + 1)

InFunction == {"params", "body", "args"}
\* The number of the label of the function's first instruction.
Base == IF stage = "args" THEN Instr_ID - instr ELSE Instr_ID - instr + 1
\* The function's labels: one for every instruction and its end, and its exit.
Own == {At(Func.name, n) : n \in Base .. (Base + Len(Body))} \cup {Exit(Func.name)}

Landing ==
  /\ IsCode(fout) /\ Instr_ID \in Nat
  /\ stage = "params" => instr = 1
  /\ stage \in {"body", "args"} => instr <= Len(Body) + 1
  /\ stage = "args" => instr <= Len(Body)
  /\ stage \in InFunction =>
       /\ \A n \in Base .. (Instr_ID - 1) : At(Func.name, n) \in LabelsOf(fout)
       /\ JumpsOf(fout) \subseteq LabelsOf(fout) \cup Own
  /\ stage \notin InFunction => JumpsOf(fout) \subseteq LabelsOf(fout)
JumpInv == Inside(program) => Landing

\* The translation goes on in a function: code is added, the first label's number
\* stays, and if a number is used up its label is in the code.
LEMMA Continued ==
  ASSUME FrameInv, Landing, stage \in InFunction, stage' \in InFunction,
         NEW code, fout' = fout \o code, IsCode(code), JumpsOf(code) \subseteq Own,
         program' = program, func' = func, Base' = Base,
         instr' \in Nat, Instr_ID' \in {Instr_ID, Instr_ID + 1},
         Instr_ID' # Instr_ID => At(Func.name, Instr_ID) \in LabelsOf(code),
         stage' = "params" => instr' = 1,
         stage' = "body" => instr' <= Len(Body) + 1, stage' = "args" => instr' <= Len(Body)
  PROVE  Landing'
<1>1. Func' = Func /\ Body' = Body
  BY DEF Func, Body
<1>2. Own' = Own
  BY <1>1 DEF Own
<1>3. /\ IsCode(fout')
      /\ JumpsOf(fout') = JumpsOf(fout) \cup JumpsOf(code)
      /\ LabelsOf(fout') = LabelsOf(fout) \cup LabelsOf(code)
  BY Joined DEF Landing
<1>4. Instr_ID \in Nat /\ Base \in Int /\ Body \in Seq(Instructions)
  BY FuncType DEF Landing, Base, FrameInv, Control, InFunction
<1>5. ASSUME NEW n \in Base .. (Instr_ID' - 1)
      PROVE  At(Func.name, n) \in LabelsOf(fout')
  <2>1. CASE n \in Base .. (Instr_ID - 1)
    BY <1>3, <2>1 DEF Landing
  <2>2. CASE n \notin Base .. (Instr_ID - 1)
    <3>1. Instr_ID' = Instr_ID + 1
      BY <2>2
    <3>2. n \in Base .. Instr_ID
      BY <1>4, <3>1
    <3>3. n = Instr_ID
      BY <1>4, <2>2, <3>2
    <3> QED BY <1>3, <1>4, <3>1, <3>3
  <2> QED BY <2>1, <2>2
<1>6. JumpsOf(fout') \subseteq LabelsOf(fout') \cup Own
  BY <1>3 DEF Landing
<1>7. Instr_ID' \in Nat
  BY <1>4
<1>8. stage' \in {"body", "args"} => instr' <= Len(Body) + 1
  BY <1>4
<1> QED BY <1>1, <1>2, <1>3, <1>5, <1>6, <1>7, <1>8 DEF Landing

\* The label of an instruction.
LEMMA MarkLabels ==
  /\ Plain(<<Mark(At(Func.name, Instr_ID))>>)
  /\ At(Func.name, Instr_ID) \in LabelsOf(<<Mark(At(Func.name, Instr_ID))>>)
<1> DEFINE mark == <<Mark(At(Func.name, Instr_ID))>>
<1>1. mark[1].op = "label" /\ mark[1].sym = At(Func.name, Instr_ID) /\ DOMAIN mark = {1}
  BY LineOps
<1>2. Plain(mark)
  BY FewLines, LineOps DEF JumpOps
<1> HIDE DEF mark
<1>3. At(Func.name, Instr_ID) \in LabelsOf(mark)
  BY <1>1 DEF LabelsOf
<1> QED BY <1>2, <1>3 DEF mark

\* The code of one instruction, with its label.
LEMMA EmitLands ==
  ASSUME FrameInv, Landing, stage = "body", instr <= Len(Body),
         NEW code, Emit(code), IsCode(code), JumpsOf(code) \subseteq Own
  PROVE  Landing'
<1> DEFINE mark == <<Mark(At(Func.name, Instr_ID))>>
<1>1. Plain(mark) /\ At(Func.name, Instr_ID) \in LabelsOf(mark)
  BY MarkLabels
<1>2. /\ stage' = "body" /\ program' = program /\ func' = func
      /\ instr' = instr + 1 /\ Instr_ID' = Instr_ID + 1 /\ fout' = fout \o mark \o code
  BY DEF Emit
<1> HIDE DEF mark
<1>3. IsCode(mark) /\ JumpsOf(mark) = {}
  BY <1>1, PlainJumps
<1>4. /\ IsCode(mark \o code)
      /\ JumpsOf(mark \o code) \subseteq Own
      /\ At(Func.name, Instr_ID) \in LabelsOf(mark \o code)
  BY <1>1, <1>3, Joined
<1>5. fout' = fout \o (mark \o code)
  <2>1. IsCode(fout)
    BY DEF Landing
  <2>2. (fout \o mark) \o code = fout \o (mark \o code)
    BY <1>3, <2>1, JoinedTwice
  <2> QED BY <1>2, <2>2
<1>6. instr \in Nat /\ Instr_ID \in Nat /\ Body \in Seq(Instructions)
  BY FuncType DEF FrameInv, Control, Landing
<1>7. Base' = Base
  BY <1>2, <1>6 DEF Base
<1>8. instr' <= Len(Body) + 1 /\ instr' \in Nat
  BY <1>2, <1>6
<1> QED BY <1>2, <1>4, <1>5, <1>7, <1>8, Continued DEF InFunction

LEMMA PlainLands ==
  ASSUME FrameInv, Landing, stage = "body", instr <= Len(Body),
         NEW code, Emit(code), Plain(code)
  PROVE  Landing'
BY EmitLands, PlainJumps

LEMMA EmitToLands ==
  ASSUME FrameInv, Landing, stage = "body", instr <= Len(Body),
         NEW code, NEW store, NEW reg, EmitTo(code, store, reg),
         Plain(code), store \notin JumpOps
  PROVE  Landing'
<1>1. Plain(code \o Keep(Placed(Inst.des), Inst.des, store, reg))
  BY Kept, PlainJoined
<1> QED BY <1>1, PlainLands DEF EmitTo

-----------------------------------------------------------------------------
(* The jumps of goto and return.                                            *)

LEMMA OneLine ==
  ASSUME NEW a
  PROVE  IsCode(<<a>>) /\ JumpsOf(<<a>>) \subseteq {a.sym}
<1> DEFINE s == <<a>>
<1>1. DOMAIN s = {1} /\ s[1] = a
  OBVIOUS
<1>2. IsCode(s)
  BY DEF IsCode
<1> HIDE DEF s
<1>3. JumpsOf(s) \subseteq {a.sym}
  BY <1>1 DEF JumpsOf
<1> QED BY <1>2, <1>3 DEF s

\* The label a goto of the function leads to is one of the function's.
LEMMA TargetOwn ==
  ASSUME FrameInv, Inside(program), Landing, Solving({"goto"})
  PROVE  Target(Inst.des.lit) \in Own
<1>1. /\ func \in DOMAIN program.functions /\ Body \in Seq(Instructions)
      /\ stage = "body" /\ instr \in DOMAIN Body /\ Inst.op = "goto"
  BY FuncType DEF Solving, FrameInv, Control
<1>2. Inst.des.lit \in Int
  <2>1. Inst \in Instructions
    BY <1>1 DEF Inst
  <2>2. Inst.des \in Operands
    BY <2>1 DEF Instructions
  <2> QED BY <2>2 DEF Operands
<1>3. instr + Inst.des.lit \in 1 .. (Len(Body) + 1)
  BY <1>1 DEF Inside, Inst, Body, Func
<1>4. Instr_ID \in Nat /\ Base = Instr_ID - instr + 1 /\ instr \in Nat /\ Len(Body) \in Nat
  BY <1>1 DEF Base, Landing
<1> DEFINE n == Instr_ID + 1 + Inst.des.lit - 1
<1>5. n \in Base .. (Base + Len(Body))
  BY <1>2, <1>3, <1>4
<1> QED BY <1>5 DEF Target, Own

LEMMA GotoLands ==
  ASSUME FrameInv, Inside(program), Landing, GotoSolve
  PROVE  Landing'
<1>1. stage = "body" /\ instr <= Len(Body) /\ Solving({"goto"})
  BY DEF GotoSolve, Solving
<1>2. PICK t : t = Target(Inst.des.lit)
  OBVIOUS
<1>3. t \in Own
  BY <1>1, <1>2, TargetOwn
<1>4. \A op, r : IsCode(<<Of(op, r, t)>>) /\ JumpsOf(<<Of(op, r, t)>>) \subseteq {t}
  <2> TAKE op, r
  <2>1. Of(op, r, t).sym = t
    BY LineOps
  <2> QED BY <2>1, OneLine
<1>5. Plain(getRs1(varMap, Inst.op1))
  BY Loaded
<1>6. \A c : Plain(c) => /\ IsCode(c \o <<Of("bnez", "t0", t)>>)
                         /\ JumpsOf(c \o <<Of("bnez", "t0", t)>>) \subseteq {t}
  BY <1>4, Joined, PlainJumps
<1>7. PICK code : Emit(code) /\ IsCode(code) /\ JumpsOf(code) \subseteq {t}
  <2>1. CASE Inst.op1.type \in {"null", "FloatLiteral"}
    BY <1>2, <1>4, <2>1 DEF GotoSolve, Emitted
  <2>2. CASE Inst.op1.type \notin {"null", "FloatLiteral"}
    BY <1>2, <1>5, <1>6, <2>2 DEF GotoSolve, Emitted
  <2> QED BY <2>1, <2>2
<1> QED BY <1>1, <1>3, <1>7, EmitLands

LEMMA ReturnLands ==
  ASSUME FrameInv, Landing, ReturnSolve
  PROVE  Landing'
<1>1. stage = "body" /\ instr <= Len(Body)
  BY DEF ReturnSolve, Solving
<1> DEFINE t == Exit(Func.name)
           j == <<Of("j", "", t)>>
<1>2. IsCode(j) /\ JumpsOf(j) \subseteq {t}
  <2>1. Of("j", "", t).sym = t
    BY DEF Of, Line
  <2> QED BY <2>1, OneLine
<1> HIDE DEF j
<1>3. PICK c : Plain(c) /\ Emit(c \o j)
  <2>1. CASE Inst.op1.type = "null"
    BY <2>1, FewLines DEF ReturnSolve, Emitted, j
  <2>2. CASE Inst.op1.type \in {"Int", "IntLiteral"}
    BY <2>2, Loaded DEF ReturnSolve, Emitted, j
  <2>3. CASE Inst.op1.type \notin {"null", "Int", "IntLiteral"}
    <3>1. Plain(<<Mem("flw", "fa0", Offset(Inst.op1), "s0")>>)
      BY FewLines, LineOps DEF JumpOps
    <3> QED BY <2>3, <3>1 DEF ReturnSolve, Emitted, j
  <2> QED BY <2>1, <2>2, <2>3
<1>4. IsCode(c \o j) /\ JumpsOf(c \o j) \subseteq Own
  BY <1>2, <1>3, Joined, PlainJumps DEF Own
<1> QED BY <1>1, <1>3, <1>4, EmitLands

-----------------------------------------------------------------------------
(* Every step keeps the invariant.                                          *)

LEMMA EmitToActionLands ==
  ASSUME FrameInv, Landing,
         \/ BinarySolve \/ SeqzSolve \/ MovSolve \/ DefSolve \/ FBinarySolve \/ FMovSolve
         \/ CvtI2FSolve \/ CvtF2ISolve
  PROVE  Landing'
<1>1. stage = "body" /\ instr <= Len(Body)
  BY DEF BinarySolve, SeqzSolve, MovSolve, DefSolve, FBinarySolve, FMovSolve, CvtI2FSolve,
         CvtF2ISolve, Solving
<1>2. \E code, store, reg : EmitTo(code, store, reg) /\ Plain(code) /\ store \in {"sw", "fsw"}
  <2>1. CASE BinarySolve
    <3>1. Plain(getRs1(varMap, Operand(1)) \o getRs2(varMap, Operand(2)) \o Compare(Inst.op))
      BY Loaded, Compared, PlainJoined
    <3> QED BY <2>1, <3>1 DEF BinarySolve
  <2>2. CASE SeqzSolve
    <3>1. Plain(<<Two("seqz", "t2", "t0")>>)
      BY FewLines, LineOps DEF JumpOps
    <3>2. Plain(getRs1(varMap, Inst.op1) \o <<Two("seqz", "t2", "t0")>>)
      BY <3>1, Loaded, PlainJoined
    <3> QED BY <2>2, <3>2 DEF SeqzSolve
  <2>3. CASE MovSolve
    BY <2>3, Loaded DEF MovSolve
  <2>4. CASE DefSolve
    <3>1. Plain(<<Li("t2", Inst.op1.lit)>>)
      BY FewLines, LineOps DEF JumpOps
    <3> QED BY <2>4, <3>1, Loaded DEF DefSolve
  <2>5. CASE FBinarySolve
    <3>1. FloatOp[Inst.op] \notin JumpOps
      BY <2>5 DEF FBinarySolve, Solving, FloatOp, JumpOps
    <3>2. Plain(<<Three(FloatOp[Inst.op], "ft7", "ft5", "ft6")>>)
      BY <3>1, FewLines, LineOps
    <3>3. Plain(fgetRs1(varMap, Inst.op1) \o fgetRs2(varMap, Inst.op2)
                  \o <<Three(FloatOp[Inst.op], "ft7", "ft5", "ft6")>>)
      BY <3>2, Loaded, PlainJoined
    <3> QED BY <2>5, <3>3 DEF FBinarySolve
  <2>6. CASE FMovSolve
    BY <2>6, Loaded DEF FMovSolve
  <2>7. CASE CvtI2FSolve
    <3>1. Plain(<<Two("fcvt.s.w", "ft7", "t0")>>)
      BY FewLines, LineOps DEF JumpOps
    <3>2. Plain(getRs1(varMap, Inst.op1) \o Rounding(<<Two("fcvt.s.w", "ft7", "t0")>>))
      BY <3>1, Loaded, Rounded, PlainJoined
    <3> QED BY <2>7, <3>2 DEF CvtI2FSolve
  <2>8. CASE CvtF2ISolve
    <3>1. Plain(<<Two("fcvt.w.s", "t2", "ft5")>>)
      BY FewLines, LineOps DEF JumpOps
    <3>2. Plain(fgetRs1(varMap, Inst.op1) \o Rounding(<<Two("fcvt.w.s", "t2", "ft5")>>))
      BY <3>1, Loaded, Rounded, PlainJoined
    <3> QED BY <2>8, <3>2 DEF CvtF2ISolve
  <2> QED BY <2>1, <2>2, <2>3, <2>4, <2>5, <2>6, <2>7, <2>8
<1> QED BY <1>1, <1>2, EmitToLands DEF JumpOps

LEMMA EmitActionLands ==
  ASSUME FrameInv, Landing,
         \/ LogicSolve \/ GlobalDefSolve \/ AllocSolve \/ LoadSolve \/ StoreSolve
         \/ FDefSolve \/ FLssSolve \/ NoCode
  PROVE  Landing'
<1>1. stage = "body" /\ instr <= Len(Body)
  BY DEF LogicSolve, GlobalDefSolve, AllocSolve, LoadSolve, StoreSolve, FDefSolve, FLssSolve,
         NoCode, Solving
<1>2. \E code : Emit(code) /\ Plain(code)
  <2>1. CASE LogicSolve
    <3> DEFINE c == IF Inst.op = "or" THEN <<Three("or", "t2", "t0", "t1")>>
                    ELSE <<Two("snez", "t0", "t0"), Two("snez", "t1", "t1"),
                           Three("and", "t2", "t0", "t1")>>
    <3>1. Plain(c)
      BY FewLines, LineOps DEF JumpOps
    <3>2. Plain(Keep(varMap, Inst.des, "sw", "t2"))
      BY Kept DEF JumpOps
    <3>3. Emit(getRs1(varMap, Inst.op1) \o getRs2(varMap, Inst.op2) \o c
                 \o Keep(varMap, Inst.des, "sw", "t2"))
      BY <2>1 DEF LogicSolve, Emitted
    <3> HIDE DEF c
    <3>4. Plain(getRs1(varMap, Inst.op1) \o getRs2(varMap, Inst.op2) \o c
                  \o Keep(varMap, Inst.des, "sw", "t2"))
      BY <3>1, <3>2, Loaded, PlainJoined
    <3> QED BY <3>3, <3>4
  <2>2. CASE GlobalDefSolve
    <3> DEFINE c == <<IF Inst.op1.type = "IntLiteral" THEN Li("s2", Inst.op1.lit)
                      ELSE Mem("lw", "s2", Offset(Inst.op1), "s0"),
                      Two("mv", "s1", "s2"), Of("la", "s3", Data(Inst.des.name)),
                      Mem("sw", "s1", 0, "s3")>>
    <3>1. Plain(c)
      BY FewLines, LineOps DEF JumpOps
    <3> QED BY <2>2, <3>1 DEF GlobalDefSolve
  <2>3. CASE AllocSolve
    <3> DEFINE c == <<Li("t2", Added(Inst.des).offset - 4 * Size + 4),
                      Mem("sw", "t2", find_operand(Added(Inst.des), Inst.des), "s0")>>
    <3>1. Plain(c)
      BY FewLines, LineOps DEF JumpOps
    <3> QED BY <2>3, <3>1 DEF AllocSolve
  <2>4. CASE LoadSolve
    <3> DEFINE c == <<Mem("lw", "t2", 0, "t3"),
                      Mem("sw", "t2", find_operand(Added(Inst.des), Inst.des), "s0")>>
    <3>1. Plain(c)
      BY FewLines, LineOps DEF JumpOps
    <3>2. Emit(getRs2(varMap, Inst.op2) \o ElementOf(Added(Inst.des), Inst.op1) \o c)
      BY <2>4 DEF LoadSolve
    <3> HIDE DEF c
    <3>3. Plain(getRs2(varMap, Inst.op2) \o ElementOf(Added(Inst.des), Inst.op1) \o c)
      BY <3>1, Loaded, Addressed, PlainJoined
    <3> QED BY <3>2, <3>3
  <2>5. CASE StoreSolve
    <3>1. Plain(<<Mem("sw", "t2", 0, "t3")>>) /\ Plain(<<Mem("fsw", "ft7", 0, "t3")>>)
      BY FewLines, LineOps DEF JumpOps
    <3>2. Plain(getRd(varMap, Inst.des) \o getRs2(varMap, Inst.op2)
                  \o ElementOf(varMap, Inst.op1) \o <<Mem("sw", "t2", 0, "t3")>>)
      BY <3>1, Loaded, Addressed, PlainJoined
    <3>3. Plain(fgetRd(varMap, Inst.des) \o getRs2(varMap, Inst.op2)
                  \o InFrame(varMap, Inst.op1) \o <<Mem("fsw", "ft7", 0, "t3")>>)
      BY <3>1, Loaded, Addressed, PlainJoined
    <3> QED BY <2>5, <3>2, <3>3 DEF StoreSolve, Emitted
  <2>6. CASE FDefSolve
    <3>1. Plain(<<Mem("fsw", "ft5", find_operand(Added(Inst.des), Inst.des), "s0")>>)
      BY FewLines, LineOps DEF JumpOps
    <3>2. Plain(fgetRs1(Added(Inst.des), Inst.op1)
                  \o <<Mem("fsw", "ft5", find_operand(Added(Inst.des), Inst.des), "s0")>>)
      BY <3>1, Loaded, PlainJoined
    <3> QED BY <2>6, <3>2 DEF FDefSolve
  <2>7. CASE FLssSolve
    <3> DEFINE c == <<Three("flt.s", "t2", "ft5", "ft6"),
                      Mem("sw", "t2", Offset(Inst.des), "s0")>>
    <3>1. Plain(c)
      BY FewLines, LineOps DEF JumpOps
    <3>2. Emit(fgetRs1(varMap, Inst.op1) \o fgetRs2(varMap, Inst.op2) \o c)
      BY <2>7 DEF FLssSolve, Emitted
    <3> HIDE DEF c
    <3>3. Plain(fgetRs1(varMap, Inst.op1) \o fgetRs2(varMap, Inst.op2) \o c)
      BY <3>1, Loaded, PlainJoined
    <3> QED BY <3>2, <3>3
  <2>8. CASE NoCode
    BY <2>8, FewLines DEF NoCode, Emitted
  <2> QED BY <2>1, <2>2, <2>3, <2>4, <2>5, <2>6, <2>7, <2>8
<1> QED BY <1>1, <1>2, PlainLands

LEMMA CallLands ==
  ASSUME FrameInv, Landing, CallStart \/ CallArgument \/ CallEnd
  PROVE  Landing'
<1>0. instr \in Nat /\ Instr_ID \in Nat /\ stage \in {"body", "args"} /\ Body \in Seq(Instructions)
  BY FuncType DEF FrameInv, Control, Landing, CallStart, CallArgument, CallEnd, Solving
<1>1. CASE CallStart
  <2> DEFINE mark == <<Mark(At(Func.name, Instr_ID))>>
  <2>1. Plain(mark) /\ At(Func.name, Instr_ID) \in LabelsOf(mark)
    BY MarkLabels
  <2>2. fout' = fout \o mark
    <3> DEFINE S == {fout[k] : k \in DOMAIN fout} \cup {Mark(At(Func.name, Instr_ID))}
    <3>1. fout \in Seq(S) /\ Mark(At(Func.name, Instr_ID)) \in S
      BY DEF Landing, IsCode
    <3> HIDE DEF S
    <3> QED BY <1>1, <3>1 DEF CallStart
  <2> HIDE DEF mark
  <2>3. /\ stage = "body" /\ stage' = "args" /\ instr <= Len(Body)
        /\ program' = program /\ func' = func /\ instr' = instr /\ Instr_ID' = Instr_ID + 1
    BY <1>1 DEF CallStart, Solving
  <2>4. Base' = Base
    BY <1>0, <2>3 DEF Base
  <2>5. IsCode(mark) /\ JumpsOf(mark) \subseteq Own
    BY <2>1, PlainJumps
  <2> QED BY <1>0, <2>1, <2>2, <2>3, <2>4, <2>5, Continued DEF InFunction
<1>2. CASE CallArgument
  <2>1. PICK code : Plain(code) /\ fout' = fout \o code
    BY <1>2, ArgumentPlain DEF CallArgument
  <2>2. /\ stage = "args" /\ stage' = "args"
        /\ program' = program /\ func' = func /\ instr' = instr /\ Instr_ID' = Instr_ID
    BY <1>2 DEF CallArgument
  <2>3. Base' = Base /\ instr <= Len(Body)
    BY <2>2 DEF Base, Landing
  <2>4. IsCode(code) /\ JumpsOf(code) \subseteq Own
    BY <2>1, PlainJumps
  <2> QED BY <1>0, <2>1, <2>2, <2>3, <2>4, Continued DEF InFunction
<1>3. CASE CallEnd
  <2> DEFINE c == <<Of("call", "ra", Entry(Inst.op1.name))>>
             r == CASE Inst.des.type = "null" -> <<>>
                    [] Inst.des.type = "Int" ->
                         <<Mem("sw", "a0", find_operand(Added(Inst.des), Inst.des), "s0")>>
                    [] OTHER -> <<Mem("fsw", "fa0", find_operand(Added(Inst.des), Inst.des), "s0")>>
  <2>1. Plain(c) /\ Plain(r)
    <3>1. Plain(c)
      BY FewLines, LineOps DEF JumpOps
    <3>2. Plain(r)
      BY FewLines, LineOps DEF JumpOps
    <3> QED BY <3>1, <3>2
  <2>2. fout' = fout \o c \o r
    BY <1>3 DEF CallEnd
  <2> HIDE DEF c, r
  <2>3. fout' = fout \o (c \o r)
    BY <2>1, <2>2, JoinedTwice DEF Landing, Plain
  <2>4. Plain(c \o r)
    BY <2>1, PlainJoined
  <2>5. /\ stage = "args" /\ stage' = "body"
        /\ program' = program /\ func' = func /\ instr' = instr + 1 /\ Instr_ID' = Instr_ID
    BY <1>3 DEF CallEnd
  <2>6. Base' = Base
    BY <1>0, <2>5 DEF Base
  <2>7. instr' <= Len(Body) + 1 /\ instr' \in Nat
    BY <1>0, <2>5 DEF Landing
  <2>8. IsCode(c \o r) /\ JumpsOf(c \o r) \subseteq Own
    BY <2>4, PlainJumps
  <2> QED BY <1>0, <2>3, <2>5, <2>6, <2>7, <2>8, Continued DEF InFunction
<1> QED BY <1>1, <1>2, <1>3

LEMMA ParametersLand ==
  ASSUME FrameInv, Landing, FuncSolve \/ ParamSolve \/ ParamsDone
  PROVE  Landing'
<1>1. CASE FuncSolve
  <2>1. /\ stage = "function" /\ stage' = "params" /\ instr' = 1 /\ Instr_ID' = Instr_ID
        /\ fout' = fout \o Prologue
    BY <1>1 DEF FuncSolve
  <2>2. /\ IsCode(fout')
        /\ JumpsOf(fout') = JumpsOf(fout)
        /\ LabelsOf(fout) \subseteq LabelsOf(fout')
    <3>1. IsCode(fout) /\ IsCode(Prologue) /\ JumpsOf(Prologue) = {}
      BY ProloguePlain, PlainJumps DEF Landing
    <3>2. /\ IsCode(fout \o Prologue)
         /\ JumpsOf(fout \o Prologue) = JumpsOf(fout) \cup JumpsOf(Prologue)
         /\ LabelsOf(fout \o Prologue) = LabelsOf(fout) \cup LabelsOf(Prologue)
      BY <3>1, Joined
    <3> QED BY <2>1, <3>1, <3>2
  <2>3. JumpsOf(fout) \subseteq LabelsOf(fout) /\ Instr_ID \in Nat
    BY <2>1 DEF Landing, InFunction
  <2>4. Base' = Instr_ID
    BY <2>1, <2>3 DEF Base
  <2>5. \A n \in Base' .. (Instr_ID' - 1) : FALSE
    BY <2>1, <2>3, <2>4
  <2> QED BY <2>1, <2>2, <2>3, <2>5 DEF Landing, InFunction
<1>2. CASE ParamSolve \/ ParamsDone
  <2>1. PICK code : Plain(code) /\ fout' = fout \o code
    <3>1. fout \o <<>> = fout
      <4>1. fout \in Seq({fout[k] : k \in DOMAIN fout})
        BY DEF Landing, IsCode
      <4> QED BY <4>1
    <3>2. fout' = fout \/ fout' = fout \o Arrived
      BY <1>2 DEF ParamSolve, ParamsDone
    <3> QED BY <3>1, <3>2, ParameterPlain, FewLines
  <2>2. /\ stage = "params" /\ stage' \in {"params", "body"}
        /\ program' = program /\ func' = func /\ instr' = instr /\ Instr_ID' = Instr_ID
    BY <1>2 DEF ParamSolve, ParamsDone
  <2>3. Base' = Base /\ instr = 1
    BY <2>2 DEF Base, Landing
  <2>4. Body \in Seq(Instructions)
    BY <2>2, FuncType
  <2>5. instr' \in Nat /\ instr' = 1 /\ instr' <= Len(Body) + 1
    BY <2>2, <2>3, <2>4
  <2>6. IsCode(code) /\ JumpsOf(code) \subseteq Own
    BY <2>1, PlainJumps
  <2>7. stage \in InFunction /\ stage' \in InFunction /\ stage' # "args"
    BY <2>2 DEF InFunction
  <2> QED BY <2>1, <2>2, <2>3, <2>5, <2>6, <2>7, Continued
<1> QED BY <1>1, <1>2

\* At its end a function has written the labels that were owed.
LEMMA FuncEndLands ==
  ASSUME FrameInv, Landing, FuncEnd
  PROVE  Landing'
<1>1. /\ stage = "body" /\ stage' = "function" /\ instr > Len(Body)
      /\ fout' = fout \o Epilogue /\ instr' = instr /\ Instr_ID' = Instr_ID
  BY DEF FuncEnd
<1>2. /\ IsCode(fout')
      /\ JumpsOf(fout') = JumpsOf(fout)
      /\ LabelsOf(fout') = LabelsOf(fout) \cup LabelsOf(Epilogue)
  <2>1. IsCode(fout) /\ IsCode(Epilogue) /\ JumpsOf(Epilogue) = {}
    BY EpiloguePlain, PlainJumps DEF Landing
  <2>2. /\ IsCode(fout \o Epilogue)
       /\ JumpsOf(fout \o Epilogue) = JumpsOf(fout) \cup JumpsOf(Epilogue)
       /\ LabelsOf(fout \o Epilogue) = LabelsOf(fout) \cup LabelsOf(Epilogue)
    BY <2>1, Joined
  <2> QED BY <1>1, <2>1, <2>2
<1>3. Body \in Seq(Instructions) /\ instr \in Nat /\ Instr_ID \in Nat
  BY <1>1, FuncType DEF FrameInv, Control, Landing
<1>4. instr = Len(Body) + 1
  BY <1>1, <1>3 DEF Landing
<1>5. Base \in Int /\ Base + Len(Body) = Instr_ID
  BY <1>1, <1>3, <1>4 DEF Base
<1>6. Own \subseteq LabelsOf(fout')
  <2>1. ASSUME NEW n \in Base .. (Base + Len(Body))
        PROVE  At(Func.name, n) \in LabelsOf(fout')
    <3>1. n \in Base .. (Instr_ID - 1) \/ n = Instr_ID
      BY <1>3, <1>5
    <3>2. CASE n \in Base .. (Instr_ID - 1)
      BY <1>1, <1>2, <3>2 DEF Landing, InFunction
    <3>3. CASE n = Instr_ID
      BY <1>2, <3>3, EpiloguePlain
    <3> QED BY <3>1, <3>2, <3>3
  <2>2. Exit(Func.name) \in LabelsOf(fout')
    BY <1>2, EpiloguePlain
  <2> QED BY <2>1, <2>2 DEF Own
<1>7. JumpsOf(fout') \subseteq LabelsOf(fout')
  BY <1>1, <1>2, <1>6 DEF Landing, InFunction
<1> QED BY <1>1, <1>2, <1>3, <1>7 DEF Landing, InFunction

LEMMA GenLands ==
  ASSUME FrameInv, JumpInv, [Gen]_translation
  PROVE  JumpInv'
<1> SUFFICES ASSUME Inside(program)' PROVE Landing'
  BY DEF JumpInv
<1>1. program' = program
  BY DEF Gen, Translate, Translated, translation, DataSection, FuncSolve, ParamSolve,
     ParamsDone, FuncEnd, GenDone, InstrSolve, BinarySolve, LogicSolve, SeqzSolve, MovSolve,
     DefSolve, GlobalDefSolve, AllocSolve, LoadSolve, StoreSolve, ReturnSolve, GotoSolve,
     CallStart, CallArgument, CallEnd, FBinarySolve, FMovSolve, FDefSolve, CvtI2FSolve,
     CvtF2ISolve, FLssSolve, NoCode, Emit, Emitted, EmitTo
<1>2. Inside(program) /\ Landing
  BY <1>1 DEF JumpInv
<1>3. CASE DataSection \/ GenDone
  BY <1>2, <1>3 DEF DataSection, GenDone, Landing, InFunction
<1>4. CASE FuncSolve \/ ParamSolve \/ ParamsDone
  BY <1>2, <1>4, ParametersLand
<1>5. CASE FuncEnd
  BY <1>2, <1>5, FuncEndLands
<1>6. CASE InstrSolve
  BY <1>2, <1>6, EmitToActionLands, EmitActionLands, GotoLands, ReturnLands, CallLands
     DEF InstrSolve
<1>7. CASE UNCHANGED translation
  BY <1>2, <1>7 DEF translation, Landing, Base, Own, Func, Body, InFunction
<1> QED BY <1>3, <1>4, <1>5, <1>6, <1>7 DEF Gen, Translate, Translated

\* Every label that is jumped to is there when the translation is complete, if every
\* goto of the program leads to an instruction of its function or to its end
\* (generator.cpp: the label InstrSolve writes, GotoSolve, ReturnSolve and the end of
\* funcSolve).
THEOREM JumpsArrive == GenSpec => [](Inside(program) => JumpsLand)
<1>1. GenInit => FrameInv /\ JumpInv
  <2> SUFFICES ASSUME GenInit PROVE FrameInv /\ JumpInv
    OBVIOUS
  <2>1. FrameInv
    BY EmptyFrame DEF GenInit, GeneratorOf, FrameInv, Control
  <2>2. /\ stage = "data" /\ instr = 1 /\ Instr_ID = 0 /\ fout = <<>>
    BY DEF GenInit, GeneratorOf
  <2>3. IsCode(fout) /\ JumpsOf(fout) = {}
    BY <2>2, FewLines, PlainJumps
  <2>4. JumpInv
    BY <2>2, <2>3 DEF JumpInv, Landing, InFunction
  <2> QED BY <2>1, <2>4
<1>2. FrameInv /\ JumpInv /\ [Gen]_translation => FrameInv' /\ JumpInv'
  BY GenKeeps, GenLands
<1>3. FrameInv /\ JumpInv => (Inside(program) => JumpsLand)
  <2> SUFFICES ASSUME Landing, stage = "done" PROVE \A k \in Jumps : fout[k].sym \in Labels
    BY DEF JumpInv, JumpsLand
  <2>1. JumpsOf(fout) \subseteq LabelsOf(fout)
    BY DEF Landing, InFunction
  <2> QED BY <2>1 DEF Jumps, Labels, JumpsOf, LabelsOf, JumpOps
<1> QED BY <1>1, <1>2, <1>3, PTL DEF GenSpec
=============================================================================
