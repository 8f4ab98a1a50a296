------------------------------- MODULE RiscV -------------------------------
(***************************************************************************)
(* What the generated assembly runs on: the assembler and linker, the      *)
(* RV32IF instructions the generator uses, and the library, as far as the   *)
(* generator relies on them.  None of it is code of the repository.         *)
(*                                                                         *)
(* A word holds an int, a float (counted in halves) or something unknown:   *)
(* what is below sp may be overwritten at any time, and a function of the   *)
(* library may leave anything in the registers it need not keep.  What is    *)
(* computed from such a word, or from a float taken for an int, is unknown;  *)
(* a branch on it, an address made of it or its output is an error.          *)
(***************************************************************************)
EXTENDS Generator, SequencesExt, Functions, Bitwise

CONSTANTS IntMax,    \* the largest int
          DataStart, \* the address of the data section
          StackEnd,  \* the lowest address of the stack
          StackTop   \* the sp main is called with

VARIABLES
  state,    \* "off", "running", "halted", or what is wrong
  symtab,   \* addresses: of code, the index of a line; of data, a byte
  pc,       \* the line to execute
  x, f,     \* the integer and the float registers
  frm,      \* the rounding mode: 0 to nearest, 2 downwards
  mem,      \* address of a word -> its content, where it is known
  frames,   \* history: the calls that have not returned: return address, sp, s0
  inp, out  \* what is left to read; what has been printed

machine == <<state, symtab, pc, x, f, frm, mem, frames, inp, out>>

Num(k) == [t |-> "int", n |-> k]
\* The bits of 0.0 are those of 0.
Flo(h) == IF h = 0 THEN Num(0) ELSE [t |-> "float", n |-> h]
Unknown == [t |-> "none", n |-> 0]
IsInt(w)   == w.t = "int"
IsFloat(w) == w.t = "float" \/ w = Num(0)

XRegs == {"ra", "sp", "s0", "s1", "s2", "s3", "t0", "t1", "t2", "t3", "t4", "t5"}
           \cup Range(ArgRegs)
FRegs == {"ft0", "ft5", "ft6", "ft7"} \cup Range(FArgRegs)
CallerSaved == XRegs \ {"sp", "s0", "s1", "s2", "s3"}
X(r) == IF r = "zero" THEN Num(0) ELSE x[r]

Wrapped(k) == ((k + IntMax + 1) % (2 * IntMax + 2)) - IntMax - 1
Unsigned(k) == k % (2 * IntMax + 2)
Magnitude(k) == IF k < 0 THEN -k ELSE k
Towards0(a, b) == IF (a < 0) = (b < 0) THEN Magnitude(a) \div Magnitude(b)
                  ELSE -(Magnitude(a) \div Magnitude(b))
One(p) == IF p THEN 1 ELSE 0

-----------------------------------------------------------------------------
(* The assembler and the linker.                                            *)

Library == {"getint", "getch", "getfloat", "getarray", "getfarray", "putint", "putch",
            "putfloat", "putarray", "putfarray"}

\* The next line with an instruction, from line k on.
NextFrom(k) == CHOOSE j \in k .. Len(fout) : /\ fout[j].op # "label"
                                             /\ \A i \in k .. (j - 1) : fout[i].op = "label"
LabelLine(sym) == CHOOSE k \in DOMAIN fout : fout[k].op = "label" /\ fout[k].sym = sym

DataSeq == FoldSet(LAMBDA d, seq : Append(seq, d), <<>>, data)
DataAt  == [k \in 1 .. (Len(DataSeq) + 1) |->
              DataStart + 4 * FoldLeft(LAMBDA a, d : a + d.words, 0, SubSeq(DataSeq, 1, k - 1))]
DataSyms == {d.sym : d \in data}
AddressIn(seq, at, sym) == at[CHOOSE k \in DOMAIN seq : seq[k].sym = sym]
SymbolTable(seq, at) ==
  [sym \in DataSyms \cup Labels |->
     IF sym \in DataSyms THEN AddressIn(seq, at, sym) ELSE NextFrom(LabelLine(sym))]
InitialMem(seq, at) ==
  [a \in UNION {{at[k] + 4 * j : j \in 0 .. (seq[k].words - 1)} : k \in DOMAIN seq} |->
     Flo(seq[CHOOSE k \in DOMAIN seq : at[k] <= a /\ a < at[k + 1]].init)]

\* A line the assembler takes: registers there are, an immediate of 12 bits, a
\* number of the instruction's kind, the operands the instruction has.
Immediates == {"lw", "sw", "flw", "fsw", "addi"}
Assembles(l) ==
  /\ {l.rd, l.rs1, l.rs2} \subseteq XRegs \cup FRegs \cup {"", "zero"}
  /\ l.op \in Immediates => l.imm \in -2048 .. 2047
  /\ ~(l.op = "li" /\ l.sym # NoSymbol)
  /\ ~(l.op = "flw" /\ l.sym # NoSymbol)
Links(l) ==
  \/ l.sym = NoSymbol \/ l.op = "li"
  \/ l.sym \in DataSyms \cup Labels
  \/ l.op = "call" /\ l.sym.name \in Library
Builds == \A k \in DOMAIN fout : Assembles(fout[k]) /\ Links(fout[k])

\* main is called with nothing but sp and ra known; it returns to line 0.
Load(seq, at) ==
  /\ symtab' = SymbolTable(seq, at)
  /\ mem' = InitialMem(seq, at)
  /\ pc' = NextFrom(LabelLine(Entry("main")))
  /\ x' = [r \in XRegs |-> CASE r = "sp" -> Num(StackTop) [] r = "ra" -> Num(0)
                             [] OTHER -> Unknown]
  /\ f' = [r \in FRegs |-> Unknown]
  /\ frames' = <<[ret |-> Num(0), sp |-> Num(StackTop), s0 |-> Unknown]>>
  /\ UNCHANGED <<frm, inp, out>>
Boot ==
  /\ stage = "done" /\ state = "off"
  /\ IF Builds THEN state' = "running" /\ Load(DataSeq, DataAt)
     ELSE /\ state' = "rejected"
          /\ UNCHANGED <<symtab, pc, x, f, frm, mem, frames, inp, out>>

-----------------------------------------------------------------------------
(* What is wrong with the current instruction; {} if it can be executed.    *)

L == fout[pc]
ThreeInts == {"add", "sub", "mul", "div", "rem", "slt", "sltu", "and", "or"}
TwoInts   == {"addi", "sltiu", "xori", "slli"}
Tests     == {"seqz", "snez"}
Floats    == {"fadd.s", "fsub.s", "fmul.s", "fdiv.s", "flt.s"}
Loads     == {"lw", "flw"}
Stores    == {"sw", "fsw"}

\* Not an int, or not known.
IntFault(w) == CASE w.t = "none" -> {"unknown"} [] w.t = "float" -> {"punned"} [] OTHER -> {}
FloatFault(w) == CASE w.t = "none" -> {"unknown"}
                   [] w.t = "int" /\ w.n # 0 -> {"punned"} [] OTHER -> {}

Address == IF L.sym # NoSymbol THEN symtab[L.sym] ELSE X(L.rs1).n + L.imm
IsPlace(a) == a \in StackEnd .. (StackTop - 1) \/ a \in DOMAIN mem
MemFault == IF L.sym = NoSymbol /\ IntFault(X(L.rs1)) # {} THEN IntFault(X(L.rs1))
            ELSE IF Address % 4 # 0 THEN {"misaligned"}
            ELSE IF ~IsPlace(Address) THEN {"segfault"} ELSE {}

ArrayOf(at, len) == {at + 4 * k : k \in 0 .. (len - 1)}
ArrayFault(n, a) ==
  IF IntFault(n) \cup IntFault(a) # {} THEN IntFault(n) \cup IntFault(a)
  ELSE IF \E p \in ArrayOf(a.n, n.n) : p % 4 # 0 \/ ~IsPlace(p) THEN {"segfault"} ELSE {}
Announced == Num(IF inp = <<>> THEN 0 ELSE Head(inp))
LibFault(name) ==
  CASE name \in {"putint", "putch"} -> IntFault(x.a0)
    [] name = "putfloat" -> FloatFault(f.fa0)
    [] name \in {"putarray", "putfarray"} -> ArrayFault(x.a0, x.a1)
    [] name \in {"getarray", "getfarray"} -> ArrayFault(Announced, x.a0)
    [] OTHER -> {}

Trap ==
  CASE L.op = "bnez" -> IF X(L.rd).t = "none" THEN {"unknown"} ELSE {}
    [] L.op = "jr"   -> IntFault(x.ra)
    [] L.op \in Loads \cup Stores -> MemFault
    [] L.op = "call" /\ L.sym.name \in Library /\ L.sym \notin Labels -> LibFault(L.sym.name)
    [] OTHER -> {}

Stepping(ops) == state = "running" /\ L.op \in ops /\ Trap = {}
GoOn == pc' = NextFrom(pc + 1) /\ UNCHANGED <<state, symtab>>
Into(r, w)  == x' = [x EXCEPT ![r] = w]
FInto(r, w) == f' = [f EXCEPT ![r] = w]

StopHere ==
  /\ state = "running" /\ state' \in Trap
  /\ UNCHANGED <<symtab, pc, x, f, frm, mem, frames, inp, out>>

-----------------------------------------------------------------------------
(* Instructions.                                                            *)

Computed(op, a, b) ==
  CASE op \in {"add", "addi"} -> Wrapped(a + b)
    [] op = "sub" -> Wrapped(a - b)
    [] op = "mul" -> Wrapped(a * b)
    [] op = "div" -> IF b = 0 THEN -1 ELSE Wrapped(Towards0(a, b))
    [] op = "rem" -> IF b = 0 THEN a ELSE a - b * Towards0(a, b)
    [] op = "slt" -> One(a < b)
    [] op \in {"sltu", "sltiu"} -> One(Unsigned(a) < Unsigned(b))
    [] op = "and" -> Wrapped(Unsigned(a) & Unsigned(b))
    [] op = "or"  -> Wrapped(Unsigned(a) | Unsigned(b))
    [] op = "xori" -> Wrapped(Unsigned(a) ^^ Unsigned(b))
    [] op = "slli" -> Wrapped(a * 2 ^ b)

\* Words below sp are lost.
Kept(sp) == [a \in {b \in DOMAIN mem : b >= sp \/ b < StackEnd} |-> mem[a]]
Second == IF L.op \in ThreeInts THEN X(L.rs2) ELSE Num(L.imm)
Result == IF IsInt(X(L.rs1)) /\ IsInt(Second)
          THEN Num(Computed(L.op, X(L.rs1).n, Second.n)) ELSE Unknown
Compute ==
  /\ Stepping(ThreeInts \cup TwoInts)
  /\ Into(L.rd, Result)
  /\ mem' = IF L.rd = "sp" THEN Kept(Result.n) ELSE mem
  /\ GoOn /\ UNCHANGED <<f, frm, frames, inp, out>>

Test ==
  /\ Stepping(Tests)
  /\ Into(L.rd, IF X(L.rs1).t = "none" THEN Unknown
                ELSE Num(One((X(L.rs1).n = 0) = (L.op = "seqz"))))
  /\ GoOn /\ UNCHANGED <<f, frm, mem, frames, inp, out>>

SetReg ==
  /\ Stepping({"li", "la", "mv"})
  /\ Into(L.rd, CASE L.op = "li" -> Num(Wrapped(L.imm)) [] L.op = "la" -> Num(symtab[L.sym])
                  [] OTHER -> X(L.rs1))
  /\ GoOn /\ UNCHANGED <<f, frm, mem, frames, inp, out>>

LoadWord ==
  /\ Stepping(Loads)
  /\ LET w == IF Address \in DOMAIN mem THEN mem[Address] ELSE Unknown
     IN  IF L.op = "lw" THEN Into(L.rd, w) /\ UNCHANGED f ELSE FInto(L.rd, w) /\ UNCHANGED x
  /\ GoOn /\ UNCHANGED <<frm, mem, frames, inp, out>>

StoreWord ==
  /\ Stepping(Stores)
  /\ mem' = [a \in DOMAIN mem \cup {Address} |->
               IF a = Address THEN (IF L.op = "sw" THEN X(L.rd) ELSE f[L.rd]) ELSE mem[a]]
  /\ GoOn /\ UNCHANGED <<x, f, frm, frames, inp, out>>

Jump ==
  /\ Stepping({"j", "bnez"})
  /\ pc' = IF L.op = "j" \/ X(L.rd).n # 0 THEN symtab[L.sym] ELSE NextFrom(pc + 1)
  /\ UNCHANGED <<state, symtab, x, f, frm, mem, frames, inp, out>>

CallCode ==
  /\ Stepping({"call"}) /\ L.sym \in Labels
  /\ Into("ra", Num(NextFrom(pc + 1)))
  /\ pc' = symtab[L.sym]
  /\ frames' = Append(frames, [ret |-> Num(NextFrom(pc + 1)), sp |-> x.sp, s0 |-> x.s0])
  /\ UNCHANGED <<state, symtab, f, frm, mem, inp, out>>

JumpBack ==
  /\ Stepping({"jr"})
  /\ pc' = x.ra.n
  /\ state' = IF x.ra = Num(0) THEN "halted" ELSE "running"
  /\ frames' = Front(frames)
  /\ UNCHANGED <<symtab, x, f, frm, mem, inp, out>>

RoundedInt(h) == IF frm = 2 \/ h % 2 = 0 \/ (h \div 2) % 2 = 0 THEN h \div 2 ELSE h \div 2 + 1
FloatResult(op, a, b) ==
  CASE op = "fadd.s" -> a + b [] op = "fsub.s" -> a - b
    [] op = "fmul.s" -> Towards0(a * b, 2) [] op = "fdiv.s" -> Towards0(2 * a, b)
Floating == IsFloat(f[L.rs1]) /\ IsFloat(f[L.rs2]) /\ ~(L.op = "fdiv.s" /\ f[L.rs2].n = 0)
OnFloats ==
  /\ Stepping(Floats)
  /\ IF L.op = "flt.s"
       THEN /\ Into(L.rd, IF Floating THEN Num(One(f[L.rs1].n < f[L.rs2].n)) ELSE Unknown)
            /\ UNCHANGED f
       ELSE /\ FInto(L.rd, IF Floating THEN Flo(FloatResult(L.op, f[L.rs1].n, f[L.rs2].n))
                           ELSE Unknown)
            /\ UNCHANGED x
  /\ GoOn /\ UNCHANGED <<frm, mem, frames, inp, out>>
Converts ==
  /\ Stepping({"fcvt.s.w", "fcvt.w.s", "fmv.w.x"})
  /\ CASE L.op = "fcvt.s.w" ->
             FInto(L.rd, IF IsInt(X(L.rs1)) THEN Flo(2 * X(L.rs1).n) ELSE Unknown) /\ UNCHANGED x
       [] L.op = "fcvt.w.s" ->
             Into(L.rd, IF IsFloat(f[L.rs1]) THEN Num(RoundedInt(f[L.rs1].n)) ELSE Unknown)
               /\ UNCHANGED f
       [] OTHER -> FInto(L.rd, X(L.rs1)) /\ UNCHANGED x
  /\ GoOn /\ UNCHANGED <<frm, mem, frames, inp, out>>
RoundingMode ==
  /\ Stepping({"frcsr", "fsrmi", "fscsr"})
  /\ x' = IF L.op = "frcsr" THEN [x EXCEPT !.t5 = Num(frm)] ELSE x
  /\ frm' = CASE L.op = "frcsr" -> frm [] L.op = "fsrmi" -> L.imm [] OTHER -> x.t5.n
  /\ GoOn /\ UNCHANGED <<f, mem, frames, inp, out>>

\* A function of the library: what it prints, what it reads, what it returns; the
\* registers a callee need not keep, and the stack below sp, are lost.
Printed(name) ==
  CASE name \in {"putint", "putch"} -> <<name, x.a0.n>>
    [] name = "putfloat" -> <<name, f.fa0.n>>
    [] OTHER -> <<name, x.a0.n>> \o [k \in 1 .. x.a0.n |-> mem[x.a1.n + 4 * (k - 1)].n]
Filled(a, kind) ==
  [p \in DOMAIN mem \cup ArrayOf(a, Announced.n) |->
     IF p \in ArrayOf(a, Announced.n)
     THEN [t |-> kind, n |-> inp[2 + (p - a) \div 4]] ELSE mem[p]]
Lost(result) == [r \in XRegs |-> IF r = "a0" THEN result
                                 ELSE IF r \in CallerSaved THEN Unknown ELSE x[r]]
FLost(result) == [r \in FRegs |-> IF r = "fa0" THEN result ELSE Unknown]
CallLibrary ==
  /\ Stepping({"call"}) /\ L.sym \notin Labels
  /\ LET name  == L.sym.name
         reads == name \in {"getint", "getch", "getfloat"} /\ inp # <<>>
         array == name \in {"getarray", "getfarray"}
         next  == IF inp = <<>> THEN 0 ELSE Head(inp)
     IN  /\ x' = Lost(IF name \in {"getint", "getch"} \/ array THEN Num(next) ELSE Unknown)
         /\ f' = FLost(IF name = "getfloat" THEN Flo(next) ELSE Unknown)
         /\ inp' = IF reads THEN Tail(inp)
                   ELSE IF array THEN SubSeq(inp, 2 + next, Len(inp)) ELSE inp
         /\ mem' = IF array THEN Filled(x.a0.n, IF name = "getarray" THEN "int" ELSE "float")
                   ELSE Kept(x.sp.n)
         /\ out' = IF name \in {"putint", "putch", "putfloat", "putarray", "putfarray"}
                   THEN Append(out, Printed(name)) ELSE out
  /\ GoOn /\ UNCHANGED <<frm, frames>>

Step ==
  \/ Compute \/ Test \/ SetReg \/ LoadWord \/ StoreWord \/ Jump \/ CallCode \/ JumpBack
  \/ OnFloats \/ Converts \/ RoundingMode \/ CallLibrary \/ StopHere
=============================================================================
