--------------------------- MODULE SourceFamilies ---------------------------
(***************************************************************************)
(* Families of small SysY programs, as syntax trees.                       *)
(***************************************************************************)
EXTENDS SyntaxTrees, Integers, Sequences

-----------------------------------------------------------------------------
(* Control flow.                                                            *)

\* int f(int n) { putint(n); g = g + n; return n; }
ff == FuncOf("Int", "f", <<P("Int", "n")>>,
        <<PutInt(V("n")), SetTo(V("g"), Plus(V("g"), V("n"))), RetOf(V("n"))>>)
f(e) == CallOf("f", <<e>>)
x == V("x")
y == V("y")

Conds ==
  <<Rel(x, "<", I(2)), And(f(I(1)), f(I(0))), Or(f(I(0)), x),
    Or(And(f(x), Eq(x, "==", I(1))), Un("!", y)), Or(Rel(x, ">", I(1)), And(f(I(2)), y)),
    And(Or(y, x).l, And(Eq(y, "!=", x), f(y))), Un("!", f(x))>>

Simple ==
  <<Break, Continue, SetTo(y, Plus(y, I(1))), Block(<<Let("Int", "y", x), PutInt(y)>>),
    RetOf(y),
    While(Rel(y, ">", I(0)), Block(<<SetTo(y, Add(y, <<T("-", I(1))>>)), If(f(x), Break), Empty, Continue>>))>>

\* x < 3 && c, which has no brackets in the grammar.
Below3(c) ==
  IF c.k = "or" THEN Or(And(Rel(x, "<", I(3)), c.l), And(Rel(x, "<", I(3)), c.r))
  ELSE And(Rel(x, "<", I(3)), c)
MainOf(body) == FuncOf("Int", "main", <<>>, body)
LoopUnit(c1, c2, c3, s1, s2) ==
  <<Var("Int", "g"), ff,
    MainOf(<<Let("Int", "x", I(0)), Let("Int", "y", I(2)),
             While(Below3(c1),
               Block(<<SetTo(x, Plus(x, I(1))), IfElse(c2, s1, If(c3, s2)), PutInt(x)>>)),
             PutInt(V("g")), RetOf(y)>>)>>
N == Len(Conds)
M == Len(Simple)
LoopUnitOf(k) ==
  LET j == k - 1 IN
    LoopUnit(Conds[(j % N) + 1], Conds[((j \div N) % N) + 1], Conds[((j + j \div N) % N) + 1],
             Simple[((j \div (N * N)) % M) + 1], Simple[(j \div (N * N * M)) + 1])
LoopUnits == 1 .. (N * N * M * M)
-----------------------------------------------------------------------------
(* Data: conversions, arrays, scopes, calls, recursion.                     *)

z == V("z")
arr(ix)  == At("m", ix)
mv(i)    == At("v", <<i>>)
Minus(a, b) == Add(a, <<T("-", b)>>)
Times(a, b) == Add(a, <<T("*", b)>>)
Over(a, b)  == Add(a, <<T("/", b)>>)
Modulo(a, b) == Add(a, <<T("%", b)>>)

\* int sum(int a[], int n): the sum of the first n elements, which it clears.
sum == FuncOf("Int", "sum", <<PArray("Int", "a"), P("Int", "n")>>,
  <<Let("Int", "s", I(0)), Let("Int", "i", I(0)),
    While(Rel(V("i"), "<", V("n")),
      Block(<<SetTo(V("s"), Plus(V("s"), At("a", <<V("i")>>))),
              SetTo(At("a", <<V("i")>>), I(0)), SetTo(V("i"), Plus(V("i"), I(1)))>>)),
    RetOf(V("s"))>>)
\* int fib(int n), float half(float x), void inc(): g = g + 1.
fib == FuncOf("Int", "fib", <<P("Int", "n")>>,
  <<If(Rel(V("n"), "<", I(2)), RetOf(V("n"))),
    RetOf(Plus(CallOf("fib", <<Minus(V("n"), I(1))>>), CallOf("fib", <<Minus(V("n"), I(2))>>)))>>)
half == FuncOf("Float", "half", <<P("Float", "x")>>, <<RetOf(Over(x, F(4)))>>)
inc  == FuncOf("null", "inc", <<>>, <<SetTo(V("g"), Plus(V("g"), I(1)))>>)

IntExps ==
  <<Minus(Times(x, I(3)), V("g")), Plus(x, Times(V("g"), I(2))), Un("-", Minus(I(1), x)),
    Modulo(Over(I(7), x), I(2)), arr(<<I(1), x>>), Plus(arr(<<Minus(x, I(1)), I(0)>>), arr(<<I(0), I(1)>>)),
    CallOf("sum", <<V("v"), I(3)>>), CallOf("fib", <<arr(<<I(1), I(0)>>)>>),
    mv(mv(I(0))), Plus(CallOf("getint", <<>>), x), Un("!", Un("!", x)),
    Plus(CallOf("sum", <<V("v"), x>>), CallOf("sum", <<V("v"), I(3)>>)),
    CallOf("fib", <<Plus(z, I(1))>>), CallOf("sum", <<arr(<<>>), I(6)>>)>>
FloatExps ==
  <<Plus(z, x), Minus(x, z), Over(z, F(1)), CallOf("half", <<z>>), Un("-", z), Times(x, F(3)),
    Plus(CallOf("half", <<I(3)>>), I(1)), At("q", <<x>>)>>

\* A body that shadows x (in a block, of the global g too) and changes it.
Uses ==
  <<Block(<<Let("Int", "x", I(1)), SetTo(x, Plus(x, V("g"))), PutInt(x),
            Block(<<Let("Int", "g", x), SetTo(V("g"), Plus(V("g"), I(1))), PutInt(V("g"))>>)>>),
    SetTo(At("m", <<I(1), I(1)>>), x), SetTo(x, z),
    If(Rel(z, ">", F(3)), SetTo(At("q", <<I(0)>>), F(7))), Do(CallOf("inc", <<>>)),
    SetTo(mv(x), CallOf("fib", <<I(3)>>))>>

DataUnit(e, fe, s) ==
  <<[k |-> "var", type |-> "Int", defs |-> <<Def("g", <<>>, <<I(2)>>)>>], sum, fib, half, inc,
    MainOf(<<
      [k |-> "var", type |-> "Int", defs |->
         <<Def("x", <<>>, <<Minus(I(3), I(1))>>),
           Def("m", <<I(2), I(3)>>, <<Braces(<<Braces(<<I(1), I(2), x>>), Braces(<<I(4)>>)>>)>>),
           Def("v", <<Plus(I(1), I(2))>>, <<Braces(<<I(1), x>>)>>)>>],
      [k |-> "var", type |-> "Float", defs |->
         <<Def("z", <<>>, <<F(5)>>), Def("q", <<I(3)>>, <<Braces(<<F(1), z, I(1)>>)>>)>>], s, SetTo(V("g"), e), PutInt(V("g")), Let("Float", "w", fe),
      Do(CallOf("putfloat", <<V("w")>>)), PutInt(arr(<<I(1), I(1)>>)), PutInt(mv(I(0))), RetOf(x)>>)>>
DataUnitOf(k) ==
  LET j == k - 1
      a == Len(IntExps)
      b == Len(FloatExps)
  IN  DataUnit(IntExps[(j % a) + 1], FloatExps[((j \div a) % b) + 1], Uses[j \div (a * b) + 1])
DataUnits == 1 .. (Len(IntExps) * Len(FloatExps) * Len(Uses))
-----------------------------------------------------------------------------
(* Constants: folded where they are declared, lengths of arrays, elements of *)
(* constant arrays of up to three dimensions.                                *)

Const(ty, id, e) == [k |-> "const", type |-> ty, defs |-> <<Def(id, <<>>, <<e>>)>>]
nn == V("n")
cc == V("c")
cube(ix) == At("p", ix)
\* int less(int a, int b) { return a * n - b; }
less == FuncOf("Int", "less", <<P("Int", "a"), P("Int", "b")>>,
  <<RetOf(Add(Times(V("a"), nn), <<T("-", V("b"))>>))>>)

ConstInts == <<I(3), Plus(I(1), nn), Times(nn, I(2)), Plus(nn, Times(I(2), nn)), Un("-", nn), F(3)>>
ConstFloats == <<F(3), Plus(F(1), V("h")), Times(V("h"), F(4)), I(2)>>
ConstUses ==
  <<Block(<<Const("Int", "n", I(5)), SetTo(x, Plus(x, nn)), PutInt(nn)>>),
    While(And(Rel(x, "<=", nn), Rel(nn, ">", I(1))), SetTo(x, Plus(x, I(1)))),
    If(Or(Eq(cc, "==", I(3)), cc), PutInt(cc)),
    SetTo(x, CallOf("less", <<cc, cube(<<I(1), nn, I(0)>>)>>)),
    SetTo(x, CallOf("less", <<Plus(At("w", <<I(0)>>), I(0)), At("w", <<Minus(nn, I(1))>>)>>)),
    SetTo(x, CallOf("less", <<At("w", <<I(1)>>), cube(<<I(0), I(1), I(1)>>)>>))>>
ConstUnit(c, q, s) ==
  <<Const("Int", "n", I(2)), Const("Float", "h", F(1)),
    [k |-> "const", type |-> "Int", defs |-> <<Def("w", <<nn>>, <<Braces(<<Plus(nn, I(1)), nn>>)>>)>>],
    [k |-> "var", type |-> "Int", defs |-> <<Def("g", <<Plus(nn, I(1))>>, <<>>)>>], less,
    MainOf(<<
      Const("Int", "c", c), Const("Float", "q", q),
      [k |-> "const", type |-> "Int", defs |->
         <<Def("p", <<nn, Plus(nn, I(1)), nn>>,
               <<Braces(<<Braces(<<I(1), I(2), I(3), I(4), I(5), I(6)>>),
                          Braces(<<Braces(<<I(7), nn>>), Braces(<<I(9), I(10)>>),
                                   Braces(<<I(11), I(12)>>)>>)>>)>>)>>],
      Let("Int", "x", I(1)), s, SetTo(At("g", <<nn>>), x), PutInt(Plus(cc, At("g", <<I(2)>>))),
      PutInt(cube(<<I(1), nn, Minus(nn, I(1))>>)), Do(CallOf("putfloat", <<V("q")>>)), RetOf(cc)>>)>>
ConstUnitOf(k) ==
  LET j == k - 1
      a == Len(ConstInts)
      b == Len(ConstFloats)
  IN  ConstUnit(ConstInts[(j % a) + 1], ConstFloats[((j \div a) % b) + 1],
                ConstUses[j \div (a * b) + 1])
ConstUnits == 1 .. (Len(ConstInts) * Len(ConstFloats) * Len(ConstUses))
-----------------------------------------------------------------------------
(* Frames: what the generator keeps where.  A function with more parameters *)
(* than there are argument registers, arrays of a frame handed down through *)
(* calls, recursion, globals, floats.                                       *)

Letters == <<"a", "b", "c", "d", "e", "i", "j", "k", "l", "o">>
\* int ten(int a, ..., int o) { return (a - b + c - ... ) * 2 - l + o; }
ten == FuncOf("Int", "ten", [k \in DOMAIN Letters |-> P("Int", Letters[k])],
  <<RetOf(Add(Times(Add(V("a"), [k \in 1 .. 7 |-> T(IF k % 2 = 1 THEN "-" ELSE "+", V(Letters[k + 1]))]), I(2)),
              <<T("-", V("l")), T("+", V("o"))>>))>>)
CallTen(a, i, l, o) ==
  CallOf("ten", <<a, I(2), V("x"), I(4), V("g"), i, I(1), V("x"), l, o>>)
\* int total(int a[], int n): through another function to sum.
total == FuncOf("Int", "total", <<PArray("Int", "a"), P("Int", "n")>>,
  <<SetTo(At("a", <<I(0)>>), Plus(At("a", <<I(0)>>), V("n"))),
    RetOf(CallOf("sum", <<V("a"), V("n")>>))>>)
\* float scale(float a, int n, float b) { return a * n + b; }
scale == FuncOf("Float", "scale", <<P("Float", "a"), P("Int", "n"), P("Float", "b")>>,
  <<RetOf(Plus(Times(V("a"), V("n")), V("b")))>>)

gv(ix) == At("w", <<ix>>)
\* int ends(int w[]) { return w[0] + w[2]; }: the parameter has a global's name.
ends == FuncOf("Int", "ends", <<PArray("Int", "w")>>, <<RetOf(Plus(gv(I(0)), gv(I(2))))>>)
\* An expression or a statement with the functions it calls.
Using(n, fs) == [n |-> n, fs |-> fs]
FrameInts ==
  <<Using(CallTen(x, I(3), I(5), x), <<ten>>),
    Using(CallTen(CallTen(x, x, x, x), I(3), V("g"), mv(I(1))), <<ten>>),
    Using(CallOf("total", <<V("v"), I(2)>>), <<sum, total>>),
    Using(Plus(CallOf("total", <<V("v"), I(3)>>), CallOf("sum", <<V("v"), x>>)), <<sum, total>>),
    Using(CallOf("fib", <<I(4)>>), <<fib>>),
    Using(Plus(gv(x), Times(gv(I(0)), V("g"))), <<>>), Using(mv(gv(I(0))), <<>>),
    Using(Minus(Modulo(Over(I(7), x), I(4)), Times(x, V("g"))), <<>>),
    Using(Plus(CallOf("getint", <<>>), mv(I(1))), <<>>), Using(Un("-", Minus(I(1), x)), <<>>),
    Using(Plus(z, x), <<>>), Using(arr(<<I(1), Minus(x, I(2))>>), <<>>),
    Using(CallOf("sum", <<arr(<<>>), I(4)>>), <<sum>>), Using(CallOf("ends", <<V("w")>>), <<ends>>),
    \* Elements that are not there: the first is nowhere, the second in no frame.
    Using(mv(I(9000)), <<>>), Using(mv(Minus(x, I(900))), <<>>)>>
FrameFloats ==
  <<Using(Plus(z, x), <<>>), Using(Times(z, F(3)), <<>>), Using(Over(z, F(1)), <<>>),
    Using(Minus(CallOf("scale", <<z, x, F(1)>>), z), <<scale>>), Using(At("q", <<Minus(x, V("g"))>>), <<>>)>>
FrameUses ==
  <<Using(Block(<<SetTo(gv(x), Plus(mv(I(0)), I(1))), Do(CallOf("putarray", <<x, V("w")>>))>>), <<>>),
    Using(If(Or(And(Rel(x, "<=", I(2)), Rel(x, ">=", I(3))), And(x, Eq(V("g"), "==", I(2)))),
             Do(CallOf("inc", <<>>))), <<inc>>),
    Using(IfElse(Un("!", Minus(x, V("g"))), SetTo(x, z), SetTo(V("g"), x)), <<>>),
    Using(If(Rel(z, "<", F(7)), SetTo(At("q", <<I(1)>>), F(7))), <<>>),
    Using(While(Rel(x, ">", I(1)), Block(<<Let("Int", "u", Minus(x, I(1))), SetTo(x, V("u"))>>)), <<>>)>>
FrameUnit(e, fe, s) ==
  <<[k |-> "var", type |-> "Int", defs |->
       <<Def("g", <<>>, <<I(2)>>), Def("w", <<I(3)>>, <<Braces(<<I(1), I(2), I(4)>>)>>)>>],
    Let("Float", "r", F(1))>>
  \o e.fs \o fe.fs \o s.fs \o
  <<MainOf(<<
      [k |-> "var", type |-> "Int", defs |->
         <<Def("x", <<>>, <<I(2)>>), Def("v", <<I(3)>>, <<Braces(<<I(1), V("x"), V("g")>>)>>),
           Def("m", <<I(2), I(2)>>, <<Braces(<<I(1), V("x"), I(3), I(4)>>)>>)>>],
      [k |-> "var", type |-> "Float", defs |->
         <<Def("z", <<>>, <<F(5)>>), Def("q", <<I(2)>>, <<Braces(<<F(1), F(3)>>)>>)>>],
      s.n, Let("Float", "p", fe.n), SetTo(x, e.n), PutInt(Plus(x, V("g"))),
      PutInt(Plus(mv(I(0)), gv(I(2)))), Do(CallOf("putfloat", <<V("p")>>)), RetOf(x)>>)>>
FrameUnitOf(k) ==
  LET j == k - 1
      a == Len(FrameInts)
      b == Len(FrameFloats)
  IN  FrameUnit(FrameInts[(j % a) + 1], FrameFloats[((j + j \div a) % b) + 1],
                FrameUses[(j \div a) + 1])
FrameUnits == 1 .. (Len(FrameInts) * Len(FrameUses))
-----------------------------------------------------------------------------
(* Sources that are translated wrongly.                                     *)

\* void show(int x) { if (x) putint(x); else return; }
show == FuncOf("null", "show", <<P("Int", "x")>>, <<IfElse(x, PutInt(x), RetNone)>>)
WrongUnits ==
  << <<MainOf(<<Let("Int", "total", I(1)), PutInt(Plus(V("total"), I(1))), RetOf(V("total"))>>)>>,
     <<MainOf(<<Block(<<Let("Int", "x", I(1)), PutInt(x)>>),
                Block(<<Let("Float", "x", F(3)), Do(CallOf("putfloat", <<x>>))>>), RetOf(I(0))>>)>>,
     <<show, MainOf(<<Do(CallOf("show", <<I(1)>>)), RetOf(I(0))>>)>> >>
WrongUnitOf(k) == WrongUnits[k]
NameBeginsWithT == {1}
SiblingScopes   == {2}
ElseReturns     == {3}

(* Sources whose assembly is wrong.                                         *)

\* int a = 1; int b = a;
\* int v[3] = {1, 2, 3}; putarray(3, v);
\* int v[400]; v[0] = 1; putint(v[0]);
WrongFrames ==
  << <<[k |-> "var", type |-> "Int", defs |-> <<Def("a", <<>>, <<I(1)>>), Def("b", <<>>, <<V("a")>>)>>],
       MainOf(<<RetOf(V("b"))>>)>>,
     <<MainOf(<<[k |-> "var", type |-> "Int", defs |-> <<Def("v", <<I(3)>>, <<Braces(<<I(1), I(2), I(3)>>)>>)>>],
                Do(CallOf("putarray", <<I(3), V("v")>>)), RetOf(I(0))>>)>>,
     <<MainOf(<<[k |-> "var", type |-> "Int", defs |-> <<Def("v", <<I(400)>>, <<>>)>>],
                SetTo(mv(I(0)), I(1)), PutInt(mv(I(0))), RetOf(I(0))>>)>> >>
WrongFrameOf(k)   == WrongFrames[k]
GlobalFromGlobal  == {1}
ArrayToLibrary    == {2}
LargeArray        == {3}
=============================================================================
