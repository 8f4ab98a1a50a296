---------------------------- MODULE MCIRExecutor ----------------------------
(***************************************************************************)
(* Programs for IRExecutor: every program of a small family whose functions *)
(* call each other, and written-out ones for arrays, pointers, floats,      *)
(* recursion, loops and the library, with the answers they must give.       *)
(***************************************************************************)
EXTENDS IRTyping, IRBuild

MCNames == {"null", "main", "f", "v", "u", "x", "y", "g", "p", "q", "a", "b", "c", "e", "r", "w"} \cup LibFuncs
MCIntMax == 127
MCJunk == {-3, 9}
MCInputs == {<<2, 5, 7, 4>>}

MkProg(gs, fs) == [functions |-> fs, globalVal |-> gs]
Scalar(o)    == [val |-> o, maxlen |-> 0]
Array(o, n)  == [val |-> o, maxlen |-> n]

-----------------------------------------------------------------------------
(* The family: main runs two instructions of its pool, f and v one each; u  *)
(* has its own p, and answers with the global.                              *)

x == IntVar("x")
y == IntVar("y")
g == IntVar("g")
p == IntVar("p")
a == IntPtr("a")
b == IntPtr("b")
q == IntPtr("q")

MainPool ==
  <<Ins("mov", IntLit(5), None, x), Ins("mov", x, None, g), IfGoto(x, 2), GotoIns(1),
    CallIns("f", <<x>>, x), CallIns("f", <<IntLit(3)>>, g), CallIns("f", <<g>>, y),
    CallIns("v", <<>>, None), Ins("sub", g, x, x), Ins("addi", x, IntLit(1), y)>>
FPool ==
  <<Ins("def", p, None, x), Ins("mov", p, None, g), Ins("add", p, p, p),
    IfGoto(p, 2), CallIns("v", <<>>, None), RetIns(g), Ins("mov", y, None, p),
    CallIns("u", <<>>, y)>>
VPool ==
  <<Ins("mov", IntLit(0), None, g), Ins("not", g, None, g), RetIns(None),
    CallIns("w", <<>>, None), GotoIns(3), Ins("div", g, g, g)>>

\* Digit d of k, the digits counted from 1 in the mixed radix 10, 10, 8, 6.
Pick(k) == <<k % 10, (k \div 10) % 10, (k \div 100) % 8, k \div 800>>
FamilyProgram(k) ==
  LET m1 == MainPool[Pick(k)[1] + 1]  m2 == MainPool[Pick(k)[2] + 1]
      fi == FPool[Pick(k)[3] + 1]     vi == VPool[Pick(k)[4] + 1]
  IN  MkProg(<<Scalar(g)>>,
        <<Func("f", "Int", <<p>>, <<fi, RetIns(p)>>),
          Func("v", "null", <<>>, <<vi, RetIns(None)>>),
          Func("u", "Int", <<>>, <<Ins("def", g, None, p), RetIns(p)>>),
          Func("main", "Int", <<>>,
               <<Ins("def", IntLit(1), None, x), m1, m2, RetIns(x)>>)>>)
Family == {FamilyProgram(k) : k \in 0 .. 4799}

\* A second family, of ints, floats and pointers; some of its programs are
\* ill-typed.
c == FloatVar("c")
e == FloatPtr("e")
MixedPool ==
  <<Ins("cvt_i2f", x, None, c), Ins("cvt_f2i", c, None, x), Ins("mov", c, None, x),
    Ins("store", a, IntLit(0), x), Ins("store", e, x, c), Ins("load", a, IntLit(1), x),
    Ins("load", e, x, c), Ins("getptr", e, IntLit(1), e), Ins("fadd", c, FloatLit(3), c),
    Ins("flss", c, c, x), CallIns("f", <<x, e>>, c), CallIns("f", <<IntLit(0), e>>, g),
    CallIns("f", <<x, a>>, c), CallIns("getfloat", <<>>, c), CallIns("getint", <<>>, c),
    CallIns("putarray", <<IntLit(1), a>>, None), CallIns("getfarray", <<e>>, x)>>
MixedFPool ==
  <<Ins("load", FloatPtr("r"), p, c), Ins("fmov", FloatLit(5), None, c),
    Ins("def", IntLit(2), None, x), Ins("store", FloatPtr("r"), p, g), RetIns(p),
    Ins("cvt_i2f", p, None, g), Ins("addi", p, IntLit(1), g)>>
MixedProgram(k) ==
  MkProg(<<Scalar(FloatVar("g"))>>,
    <<Func("f", "Float", <<p, FloatPtr("r")>>,
        <<Ins("fdef", FloatLit(1), None, c), MixedFPool[(k \div 289) + 1],
          RetIns(FloatVar("g"))>>),
      Func("main", "Int", <<>>,
        <<Ins("def", IntLit(1), None, x), Ins("fdef", FloatLit(3), None, c),
          Ins("alloc", IntLit(2), None, a), Ins("alloc", IntLit(2), None, e),
          MixedPool[(k % 17) + 1], MixedPool[((k \div 17) % 17) + 1], RetIns(x)>>)>>)
Mixed == {MixedProgram(k) : k \in 0 .. 2022}

-----------------------------------------------------------------------------
(* Written-out programs, and the answers they must give.                    *)

\* int f(int p) { if (p) return p * f(p - 1); return 1; }  main: f(5)
Factorial ==
  MkProg(<<>>,
    <<Func("f", "Int", <<p>>,
        <<IfGoto(p, 2), RetIns(IntLit(1)),
          Ins("subi", p, IntLit(1), x), CallIns("f", <<x>>, y),
          Ins("mul", p, y, y), RetIns(y)>>),
      Func("main", "Int", <<>>, <<CallIns("f", <<IntLit(5)>>, x), RetIns(x)>>)>>)

\* A callee fills an array of its caller through a pointer into its middle.
Pointers1 ==
  MkProg(<<Array(b, 2)>>,
    <<Func("f", "Int", <<q>>,
        <<Ins("store", q, IntLit(0), IntLit(7)), Ins("store", b, IntLit(1), IntLit(4)),
          Ins("load", q, IntLit(1), x), RetIns(x)>>),
      Func("main", "Int", <<>>,
        <<Ins("alloc", IntLit(3), None, a), Ins("store", a, IntLit(2), IntLit(9)),
          Ins("getptr", a, IntLit(1), q), CallIns("f", <<q>>, x),
          Ins("load", a, IntLit(1), y), Ins("add", x, y, x),
          CallIns("putarray", <<IntLit(2), b>>, None), RetIns(x)>>)>>)

\* while (x < 3) x = x + 1, with a local of main named like a global of f.
Loop ==
  MkProg(<<Scalar(g)>>,
    <<Func("v", "null", <<>>, <<Ins("addi", g, IntLit(2), g), RetIns(None)>>),
      Func("main", "Int", <<>>,
        <<Ins("def", IntLit(0), None, x), Ins("lss", x, IntLit(3), y), IfGoto(y, 2),
          GotoIns(4), Ins("addi", x, IntLit(1), x), CallIns("v", <<>>, None),
          GotoIns(-5), CallIns("putint", <<g>>, None), RetIns(g)>>)>>)

\* The library: reads an array of two, a character, sends them out again.
Library ==
  MkProg(<<Array(b, 3)>>,
    <<Func("main", "Int", <<>>,
        <<CallIns("getarray", <<b>>, x), CallIns("getch", <<>>, y),
          CallIns("putarray", <<IntLit(3), b>>, None), CallIns("putch", <<y>>, None),
          RetIns(x)>>)>>)

\* (int) (2.5 * (float) 3) through a float function and a float array.
Floats ==
  MkProg(<<>>,
    <<Func("f", "Float", <<FloatVar("p")>>,
        <<Ins("fmul", FloatVar("p"), FloatLit(5), FloatVar("r")), RetIns(FloatVar("r"))>>),
      Func("main", "Int", <<>>,
        <<Ins("cvt_i2f", IntLit(3), None, FloatVar("c")),
          Ins("alloc", IntLit(1), None, FloatPtr("a")),
          CallIns("f", <<FloatVar("c")>>, FloatVar("r")),
          Ins("store", FloatPtr("a"), IntLit(0), FloatVar("r")),
          Ins("load", FloatPtr("a"), IntLit(0), FloatVar("c")),
          Ins("flss", FloatLit(1), FloatVar("c"), FloatVar("b")),
          Ins("cvt_f2i", FloatVar("c"), None, x),
          CallIns("putfloat", <<FloatVar("c")>>, None), RetIns(x)>>)>>)

\* A global constant: its code gives it a value, its uses are literals.
Constant ==
  MkProg(<<Scalar([g EXCEPT !.type = "IntLiteral"])>>,
    <<Func("main", "Int", <<>>,
        <<Ins("def", IntLit(2), None, g), Ins("def", IntLit(5), None, x),
          Ins("add", x, IntLit(2), x), RetIns(x)>>)>>)

\* The operator nothing emits.
Unuse ==
  MkProg(<<>>, <<Func("main", "Int", <<>>,
                 <<Ins("__unuse__", None, None, None), RetIns(IntLit(1))>>)>>)

\* Two that run() refuses: a scalar with a length, no main.
BadGlobal ==
  MkProg(<<Array(x, 2)>>, <<Func("main", "Int", <<>>, <<RetIns(IntLit(1))>>)>>)
NoMain == MkProg(<<>>, <<Func("f", "Int", <<>>, <<RetIns(IntLit(1))>>)>>)

\* What run() returns and what has been printed by then.
Answered ==
  <<[prog |-> Factorial, result |-> 120, out |-> <<>>],
    [prog |-> Pointers1, result |-> 16,  out |-> << <<"putarray", 2, 0, 4>> >>],
    [prog |-> Loop,      result |-> 6,   out |-> << <<"putint", 6>> >>],
    [prog |-> Library,   result |-> 2,
     out |-> << <<"putarray", 3, 5, 7, 0>>, <<"putch", 4>> >>],
    [prog |-> Floats,    result |-> 7,   out |-> << <<"putfloat", 15>> >>],
    [prog |-> Constant,  result |-> 7,   out |-> <<>>],
    [prog |-> Unuse,     result |-> 1,   out |-> <<>>]>>
WrittenOut == {Answered[k].prog : k \in DOMAIN Answered} \cup {BadGlobal, NoMain}

AllPrograms == Family \cup Mixed \cup WrittenOut

\* Every program that has an answer gives it: run() returns the value and the
\* library has printed what the source of the program says.
Answers ==
  \A k \in DOMAIN Answered :
    program = Answered[k].prog =>
      /\ status \in {"constructed", "running", "finished"}
      /\ status = "finished" => /\ main_func_retval.n = Answered[k].result
                                /\ output = Answered[k].out
=============================================================================
