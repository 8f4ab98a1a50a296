-------------------------- MODULE SourceSemantics --------------------------
(***************************************************************************)
(* What a SysY program means, given directly on its syntax tree: the       *)
(* reference the compiler is checked against, written from the language    *)
(* and not from the code.  Syntax trees are those of SemanticAnalyzer;     *)
(* floats are counted in halves.                                           *)
(*                                                                         *)
(* A machine state has the scopes (the globals first, the innermost last), *)
(* the arrays, what has been printed, and in ctl how control goes on:      *)
(* "go", "break", "continue", "return", "undefined" (the language gives no *)
(* meaning) or "long" (more than Fuel turns of loops and calls).           *)
(***************************************************************************)
EXTENDS Integers, Sequences, SequencesExt

CONSTANTS MaxInt,  \* the largest int
          Fuel     \* turns of loops and calls a program may take

IntVal(k)   == [t |-> "Int", n |-> k]
FloatVal(h) == [t |-> "Float", n |-> h]
ArrVal(ty, b, dims) == [t |-> ty, n |-> b, dims |-> dims]
E(m, v) == [m |-> m, v |-> v]

AbsOf(k)  == IF k < 0 THEN -k ELSE k
QuotOf(a, b) == IF (a < 0) = (b < 0) THEN AbsOf(a) \div AbsOf(b)
                ELSE -(AbsOf(a) \div AbsOf(b))
InInt(k) == k \in (-MaxInt - 1) .. MaxInt
B(p) == IF p THEN 1 ELSE 0

\* Implicit conversion to type ty.
As(v, ty) == CASE v.t = "Int" /\ ty = "Float" -> FloatVal(2 * v.n)
               [] v.t = "Float" /\ ty = "Int" -> IntVal(QuotOf(v.n, 2))
               [] OTHER -> v

Undefined(m) == IF m.ctl = "go" THEN [m EXCEPT !.ctl = "undefined"] ELSE m

Arith(op, a, b, two) ==
  CASE op = "+" -> a + b [] op = "-" -> a - b
    [] op = "*" -> QuotOf(a * b, two)
    [] op = "/" -> QuotOf(a * two, b)
    [] op = "%" -> a - b * QuotOf(a, b)
Compare(op, a, b) ==
  CASE op = "<" -> a < b [] op = "<=" -> a <= b [] op = ">" -> a > b
    [] op = ">=" -> a >= b [] op = "==" -> a = b [] op = "!=" -> a # b

\* a op b with the usual conversions; overflow and division by 0 are undefined.
Relations == {"<", "<=", ">", ">=", "==", "!="}
Result(m, v) == E(IF v.t = "Float" \/ InInt(v.n) THEN m ELSE Undefined(m), v)
OnNumbers(m, op, p, q, ty) ==
  IF op \in Relations THEN E(m, IntVal(B(Compare(op, p, q))))
  ELSE IF (op \in {"/", "%"} /\ q = 0) \/ (op = "%" /\ ty = "Float")
  THEN E(Undefined(m), IntVal(0))
  ELSE Result(m, [t |-> ty, n |-> Arith(op, p, q, IF ty = "Float" THEN 2 ELSE 1)])
Binary(op, a, r) ==
  IF "Float" \in {a.t, r.v.t}
  THEN OnNumbers(r.m, op, As(a, "Float").n, As(r.v, "Float").n, "Float")
  ELSE OnNumbers(r.m, op, a.n, r.v.n, "Int")

-----------------------------------------------------------------------------
(* Variables: the innermost scope that has the name.                        *)

Knows(m, id) == {k \in DOMAIN m.sc : id \in DOMAIN m.sc[k]}
Inner(m, id) == CHOOSE k \in Knows(m, id) : \A j \in Knows(m, id) : j <= k
Bind(m, k, id, v) ==
  [m EXCEPT !.sc[k] = [z \in DOMAIN @ \cup {id} |-> IF z = id THEN v ELSE @[z]]]
NewVar(m, id, v) == Bind(m, Len(m.sc), id, v)

\* Row-major position of the indices ix in dimensions dims; the first
\* dimension of a parameter is not known (0).
RECURSIVE Position(_, _, _)
Position(ix, dims, at) ==
  IF ix = <<>> THEN at
  ELSE Position(Tail(ix), Tail(dims), at * Head(dims) + Head(ix))
InRange(ix, dims) ==
  \A k \in DOMAIN ix : ix[k] >= 0 /\ (ix[k] < dims[k] \/ dims[k] = 0)

-----------------------------------------------------------------------------
RECURSIVE Value(_, _), Exec(_, _), Values(_, _), Run(_, _), FuncCall(_, _, _),
  Variable(_, _), Terms(_, _), Unary(_, _), ShortCircuit(_, _), Loop(_, _),
  Assign(_, _), Define(_, _, _)

\* Values of a list of expressions, from the left.
With(vs, r) == [m |-> r.m, vs |-> Append(vs, r.v)]
Values(es, m) ==
  FoldLeft(LAMBDA acc, e : With(acc.vs, Value(e, acc.m)), [m |-> m, vs |-> <<>>], es)
Numbers(vs) == [k \in DOMAIN vs |-> vs[k].n]

Run(items, m) ==
  IF items = <<>> \/ m.ctl # "go" THEN m ELSE Run(Tail(items), Exec(Head(items), m))

LibCall(id, m, vs) ==
  CASE id \in {"putint", "putch"} ->
         E([m EXCEPT !.out = Append(@, <<id, As(vs[1], "Int").n>>)], IntVal(0))
    [] id = "putfloat" ->
         E([m EXCEPT !.out = Append(@, <<id, As(vs[1], "Float").n>>)], IntVal(0))
    [] id \in {"putarray", "putfarray"} ->
         IF vs[1].n \in 0 .. Len(m.heap[vs[2].n])
         THEN E([m EXCEPT !.out = Append(@, <<id, vs[1].n>> \o SubSeq(m.heap[vs[2].n], 1, vs[1].n))],
                IntVal(0))
         ELSE E(Undefined(m), IntVal(0))
    [] id = "getint" ->
         IF m.inp = <<>> THEN E(Undefined(m), IntVal(0))
         ELSE E([m EXCEPT !.inp = Tail(@)], IntVal(Head(m.inp)))

\* A call runs the body over the globals and the parameters alone.
Passed(p, v) ==
  IF p.array THEN [v EXCEPT !.dims = <<0>> \o [j \in DOMAIN p.dims |-> p.dims[j].n]]
  ELSE As(v, p.type)
Params(ps, vs) ==
  [id \in {ps[k].id : k \in DOMAIN ps} |->
     LET k == CHOOSE j \in DOMAIN ps : ps[j].id = id IN Passed(ps[k], vs[k])]
\* A function with a result that ends without return has no meaning; main gives 0.
Back(f, m, inside) ==
  LET out == [inside EXCEPT !.sc = <<inside.sc[1]>> \o Tail(m.sc)]
  IN  CASE out.ctl = "return" -> E([out EXCEPT !.ctl = "go"], As(out.ret, f.type))
        [] out.ctl = "go" /\ f.type # "null" /\ f.id # "main" -> E(Undefined(out), IntVal(0))
        [] OTHER -> E(out, IntVal(0))
FuncCall(f, m, vs) ==
  IF m.ctl # "go" THEN E(m, IntVal(0))
  ELSE IF m.fuel = 0 THEN E([m EXCEPT !.ctl = "long"], IntVal(0))
  ELSE Back(f, m, Run(f.body, [m EXCEPT !.sc = <<m.sc[1], Params(f.params, vs)>>,
                                        !.fuel = @ - 1]))

\* The place of the element the indices name, 0 if there is none.
PlaceIn(arr, ix, size, i) ==
  IF Len(ix) = Len(arr.dims) /\ InRange(ix, arr.dims) /\ i < size THEN i + 1 ELSE 0
Place(m, arr, ix) == PlaceIn(arr, ix, Len(m.heap[arr.n]), Position(ix, arr.dims, 0))
ElementType(arr)  == IF arr.t = "IntArr" THEN "Int" ELSE "Float"

ElementAt(m, arr, at) ==
  IF at = 0 THEN E(Undefined(m), IntVal(0))
  ELSE E(m, [t |-> ElementType(arr), n |-> m.heap[arr.n][at]])
Element(arr, r) == ElementAt(r.m, arr, Place(r.m, arr, Numbers(r.vs)))
Variable(n, m) ==
  LET var == m.sc[Inner(m, n.id)][n.id]
  IN  IF n.idx = <<>> THEN E(m, var) ELSE Element(var, Values(n.idx, m))

Terms(n, m) ==
  FoldLeft(LAMBDA acc, x : Binary(x.op, acc.v, Value(x.e, acc.m)), Value(n.e, m), n.rest)

UnaryOf(op, r) ==
  CASE op = "+" -> r
    [] op = "-" -> Result(r.m, [r.v EXCEPT !.n = -@])
    [] op = "!" -> E(r.m, IntVal(B(r.v.n = 0)))
Unary(n, m) == UnaryOf(n.op, Value(n.e, m))

\* && and || evaluate the right operand only if the left one does not decide.
AsTruth(r) == E(r.m, IntVal(B(r.v.n # 0)))
ShortCircuitOf(n, l) ==
  IF (l.v.n # 0) = (n.k = "or") THEN AsTruth(l) ELSE AsTruth(Value(n.r, l.m))
ShortCircuit(n, m) == ShortCircuitOf(n, Value(n.l, m))

Call(id, r) == IF id \in DOMAIN r.m.funcs THEN FuncCall(r.m.funcs[id], r.m, r.vs)
               ELSE LibCall(id, r.m, r.vs)

Value(n, m) ==
  CASE n.k = "int"   -> E(m, IntVal(n.n))
    [] n.k = "float" -> E(m, FloatVal(n.h))
    [] n.k = "lval"  -> Variable(n, m)
    [] n.k = "unary" -> Unary(n, m)
    [] n.k \in {"add", "rel", "eq"} -> Terms(n, m)
    [] n.k \in {"and", "or"} -> ShortCircuit(n, m)
    [] n.k = "call"  -> Call(n.id, Values(n.args, m))

-----------------------------------------------------------------------------
(* Statements and declarations; nothing happens unless control is "go".     *)

Leave(m) == [m EXCEPT !.sc = Front(@)]
Scoped(items, m) == Leave(Run(items, [m EXCEPT !.sc = Append(@, <<>>)]))

Again(n, m) ==
  CASE m.ctl = "break" -> [m EXCEPT !.ctl = "go"]
    [] m.ctl \in {"go", "continue"} -> Exec(n, [m EXCEPT !.ctl = "go"])
    [] OTHER -> m
Turn(n, c) == IF c.m.ctl # "go" \/ c.v.n = 0 THEN c.m ELSE Again(n, Exec(n.s, c.m))
Loop(n, m) ==
  IF m.fuel = 0 THEN [m EXCEPT !.ctl = "long"]
  ELSE Turn(n, Value(n.c, [m EXCEPT !.fuel = @ - 1]))

Branch(n, c) ==
  IF c.v.n # 0 THEN Exec(n.s, c.m)
  ELSE IF n.else # <<>> THEN Exec(n.else[1], c.m) ELSE c.m

Returning(r) ==
  IF r.m.ctl # "go" THEN r.m ELSE [r.m EXCEPT !.ctl = "return", !.ret = r.v]

PutAt(m, arr, at, v) ==
  IF at = 0 THEN Undefined(m) ELSE [m EXCEPT !.heap[arr.n][at] = As(v, ElementType(arr)).n]
PutElement(arr, ix, x) == PutAt(x.m, arr, Place(x.m, arr, ix), x.v)
AssignElement(n, arr, r) == PutElement(arr, Numbers(r.vs), Value(n.e, r.m))
AssignVar(id, k, ty, x) == Bind(x.m, k, id, As(x.v, ty))
Assign(n, m) ==
  LET var == m.sc[Inner(m, n.l.id)][n.l.id]
  IN  IF n.l.idx = <<>> THEN AssignVar(n.l.id, Inner(m, n.l.id), var.t, Value(n.e, m))
      ELSE AssignElement(n, var, Values(n.l.idx, m))

\* An initializer of an array with the given lengths: the values in order; braces
\* inside are for a row, and the values missing in them are 0.
RECURSIVE Flat(_, _), Size(_)
Size(lens) == IF lens = <<>> THEN 1 ELSE Head(lens) * Size(Tail(lens))
Padded(vs, size) == vs \o [k \in 1 .. (size - Len(vs)) |-> [k |-> "int", n |-> 0]]
Flat(n, lens) ==
  IF n.k # "list" THEN <<n>>
  ELSE Padded(FlattenSeq([k \in DOMAIN n.items |-> Flat(n.items[k], Tail(lens))]), Size(lens))

\* An array without an initializer is zero if it is global; if it is local
\* nobody may read it, which the sources of the runs respect.
Row(size, vs, ty) == [k \in 1 .. size |-> IF k > Len(vs) THEN 0 ELSE As(vs[k], ty).n]
DefineArray(d, ty, lens, r) ==
  NewVar([r.m EXCEPT !.heap = Append(@, Row(Size(lens), r.vs, ty))], d.id,
         ArrVal(ty \o "Arr", Len(r.m.heap) + 1, lens))
DefineVar(d, ty, r) ==
  NewVar(r.m, d.id, IF d.init = <<>> THEN [t |-> ty, n |-> 0] ELSE As(r.vs[1], ty))
DefineOf(d, ty, m, lens) ==
  IF lens = <<>> THEN DefineVar(d, ty, Values(d.init, m))
  ELSE DefineArray(d, ty, lens,
                   Values(IF d.init = <<>> THEN <<>> ELSE Flat(d.init[1], lens), m))
Define(d, ty, m) == DefineOf(d, ty, m, Numbers(Values(d.dims, m).vs))

Exec(n, m) ==
  IF m.ctl # "go" THEN m
  ELSE CASE n.k = "block" -> Scoped(n.items, m)
         [] n.k = "return" -> IF n.e = <<>> THEN [m EXCEPT !.ctl = "return"]
                              ELSE Returning(Value(n.e[1], m))
         [] n.k = "if"     -> Branch(n, Value(n.c, m))
         [] n.k = "while"  -> Loop(n, m)
         [] n.k \in {"break", "continue"} -> [m EXCEPT !.ctl = n.k]
         [] n.k = "assign" -> Assign(n, m)
         [] n.k = "exp"    -> Value(n.exp, m).m
         [] n.k = "empty"  -> m
         [] n.k \in {"const", "var"} ->
              FoldLeft(LAMBDA s, d : Define(d, n.type, s), m, n.defs)

\* The meaning of a compilation unit on an input: how it ends, what main
\* returns, what it prints.
Machine(funcs, inp) ==
  [sc |-> << <<>> >>, heap |-> <<>>, out |-> <<>>, inp |-> inp, ctl |-> "go",
   ret |-> IntVal(0), fuel |-> Fuel,
   funcs |-> [id \in {funcs[k].id : k \in DOMAIN funcs} |->
                funcs[CHOOSE k \in DOMAIN funcs : funcs[k].id = id]]]
Main(m)   == FuncCall(m.funcs["main"], m, <<>>)
Ending(r) == [end |-> r.m.ctl, result |-> r.v.n, out |-> r.m.out]
Meaning(unit, inp) ==
  Ending(Main(Run(SelectSeq(unit, LAMBDA item : item.k # "func"),
                  Machine(SelectSeq(unit, LAMBDA item : item.k = "func"), inp))))
=============================================================================
