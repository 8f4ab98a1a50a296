-------------------------- MODULE SemanticAnalyzer --------------------------
(***************************************************************************)
(* The semantic analyzer (src/src/front/semantic.cpp): one operator per    *)
(* analysis... function, from a node of the syntax tree and the state of    *)
(* the Analyzer to the state it leaves and the node's value (v, t).        *)
(*                                                                         *)
(* Syntax trees are records with a kind k; a nonterminal with one child    *)
(* and no action of its own (Exp, Cond, PrimaryExp, ...) is its child.     *)
(* Number tokens are numbers: floats are counted in halves (h), dot says   *)
(* that the text has a point, text whether it begins with a minus or has   *)
(* all the digits of a computed float: a zero is then not "0" or "0.0".    *)
(***************************************************************************)
EXTENDS IRBuild, Sequences, SequencesExt

-----------------------------------------------------------------------------
(* Attributes v and t of a node, and the state of the Analyzer.             *)

LiteralTypes == {"IntLiteral", "FloatLiteral"}
FloatTypes   == {"Float", "FloatLiteral"}
IntTypes     == {"Int", "IntLiteral"}

Name(x, ty)      == [name |-> x, type |-> ty, h |-> 0, dot |-> FALSE, text |-> "short"]
Text(h, dot, ty) == [name |-> "null", type |-> ty, h |-> h, dot |-> dot,
                     text |-> IF h < 0 THEN "minus" ELSE "short"]
Computed(h, ty)  == [Text(h, TRUE, ty) EXCEPT !.text = IF h < 0 THEN @ ELSE "digits"]
X == Name("X", "null")               \* const_n when no constant is defined

Number(v) == v.name = "null" /\ v.type \in LiteralTypes
Letter(v, c) == ~Number(v) /\ SubSeq(v.name, 1, 1) = c
\* v[0] is a digit: a name cannot, a negative number does not begin with one.
Digit(v) == Number(v) /\ v.text # "minus"
ShortZero(v) == Number(v) /\ v.h = 0 /\ v.text = "short"
Absolute(k)  == IF k < 0 THEN -k ELSE k
Truncated(h) == IF h < 0 THEN -((-h) \div 2) ELSE h \div 2
AsInt(v) == Text(2 * Truncated(v.h), FALSE, "IntLiteral")

\* The ir::Operand {v, t}.
Opd(v) == [name |-> v.name, type |-> v.type,
           lit  |-> CASE v.type = "IntLiteral" -> Truncated(v.h)
                      [] v.type = "FloatLiteral" -> v.h [] OTHER -> 0]

Signature(ty, ps) == [returnType |-> ty, ParameterList |-> ps]
LibSignatures ==
  [getint |-> Signature("Int", <<>>), getch |-> Signature("Int", <<>>),
   getfloat |-> Signature("Float", <<>>),
   getarray |-> Signature("Int", <<IntPtr("arr")>>),
   getfarray |-> Signature("Int", <<FloatPtr("arr")>>),
   putint |-> Signature("null", <<IntVar("i")>>),
   putch |-> Signature("null", <<IntVar("i")>>),
   putfloat |-> Signature("null", <<FloatVar("f")>>),
   putarray |-> Signature("null", <<IntVar("n"), IntPtr("arr")>>),
   putfarray |-> Signature("null", <<IntVar("n"), FloatPtr("arr")>>)]

Analyzer ==
  [buf |-> <<>>, tmp_cnt |-> 0, scope_stack |-> <<>>, functions |-> LibSignatures,
   namespa |-> "global", ExpT |-> "IntLiteral", const_n |-> X, SZ |-> FALSE,
   while_s |-> <<>>, while_e |-> <<>>, err |-> {}]

R(st, v) == [st |-> st, v |-> v]
Fail(st, why)  == [st EXCEPT !.err = @ \cup {why}]
Emit(st, i)    == [st EXCEPT !.buf = Append(@, i)]
Temp(st)       == "t" \o ToString(st.tmp_cnt)
Used(st, k)    == [st EXCEPT !.tmp_cnt = @ + k]
Patch(st, i, k) == [st EXCEPT !.buf[i].des = IntLit(k)]
Set(f, x, y)   == [z \in DOMAIN f \cup {x} |-> IF z = x THEN y ELSE f[z]]

-----------------------------------------------------------------------------
(* SymbolTable.                                                             *)

Scope(cnt, fn) == [cnt |-> cnt, name |-> fn \o "_S" \o ToString(cnt), table |-> <<>>]
\* Seeded bug: every scope has the suffix of the function's.
OneSuffix(st) == [st EXCEPT !.scope_stack =
  Append(@, [Scope(Len(@), st.namespa) EXCEPT !.name = st.namespa])]
add_scope(st)  == [st EXCEPT !.scope_stack = Append(@, Scope(Len(@), st.namespa))]
exit_scope(st) == [st EXCEPT !.scope_stack = Front(@)]

get_scoped_name(st, id) ==
  IF st.scope_stack = <<>> \/ Last(st.scope_stack).cnt = 0 THEN id
  ELSE id \o "_" \o Last(st.scope_stack).name

Holding(st, id) == {k \in DOMAIN st.scope_stack : id \in DOMAIN st.scope_stack[k].table}
get_ste(st, id) ==
  st.scope_stack[CHOOSE k \in Holding(st, id) : \A j \in Holding(st, id) : j <= k].table[id]

Declare(st, id, v, dims) ==
  [st EXCEPT !.scope_stack[Len(st.scope_stack)].table =
     Set(@, id, [operand |-> v, dimension |-> dims])]

PointerTo(ty) == IF ty = "Int" THEN "IntPtr" ELSE "FloatPtr"
ElementOf(ty) == IF ty = "IntPtr" THEN "Int" ELSE "Float"

-----------------------------------------------------------------------------
(* Expressions.                                                             *)

RECURSIVE analysis(_, _), analysisLVal(_, _, _), analysisUnaryOp(_, _),
  analysisCall(_, _), analysisAddExp(_, _), analysisRelExp(_, _),
  analysisEqExp(_, _), analysisLAndExp(_, _), analysisLOrExp(_, _),
  AddIndex(_, _, _, _, _), AddArgument(_, _, _), OneTerm(_, _), LengthTerm(_, _, _)

\* const_n follows the text of a constant's operands while it is analyzed.
Noted(st, v) == IF st.const_n = X THEN st ELSE [st EXCEPT !.const_n = v]

analysisNumber(n, st) ==
  LET v == IF n.k = "int" THEN Text(2 * n.n, FALSE, st.ExpT)
           ELSE Text(n.h, TRUE, "FloatLiteral")
  IN  R(Noted(st, v), v)

\* Index k of an array, x: times the later dimensions, added to the offset.
Scaled(x, dims, dim, off) ==
  LET product == FoldLeft(LAMBDA s, d : Emit(s, Ins("mul", dim, IntLit(d), dim)),
                          Used(Emit(x.st, Ins("mov", Opd(x.v), None, dim)), 1), dims)
  IN  Emit(product, Ins("add", off, dim, off))
IndexTerm(x, dims, offset) == Scaled(x, dims, IntVar(Temp(x.st)), IntVar(offset))
AddIndex(st, ste, offset, k, exp) ==
  IndexTerm(analysis(exp, st), SubSeq(ste.dimension, k + 1, Len(ste.dimension)), offset)

\* The offset of the element the indices name, in a temporary.
Offset(n, st, ste) ==
  LET first == Used(Emit(st, Ins("def", IntLit(0), None, IntVar(Temp(st)))), 1)
  IN  FoldLeft(LAMBDA s, k : AddIndex(s, ste, Temp(st), k, n.idx[k]),
               first, [k \in DOMAIN n.idx |-> k])

Elem(ste) == Name(ste.operand.name \o "_elem", ElementOf(ste.operand.type))
Scalar(st, v) ==
  R(IF v.type \in LiteralTypes /\ ~Number(v) THEN Fail(st, "not a number") ELSE st, v)
Loaded(st, ste, offset) ==
  R(Emit(st, Ins("load", Opd(ste.operand), IntVar(offset), Opd(Elem(ste)))), Elem(ste))
\* p: the element is the target of an assignment; the offset is in root->i.
LVal(n, st, ste, p) ==
  IF n.idx = <<>> THEN Scalar(st, ste.operand)
  ELSE IF p THEN R(Offset(n, st, ste), ste.operand)
  ELSE Loaded(Offset(n, st, ste), ste, Temp(st))
analysisLVal(n, st, p) ==
  IF Holding(st, n.id) = {} THEN R(Fail(st, "Symbol not found"), Name(n.id, "Int"))
  ELSE LET ste == get_ste(st, n.id)
       IN  LVal(n, Noted(st, ste.operand), ste, p)

Negated(c) == IF Digit(c) THEN [c EXCEPT !.h = -@, !.text = "minus"] ELSE Name("--", "null")

Minus(p1, next, zero, res) ==
  R([Emit(next, Ins(IF res.type = "Float" THEN "fsub" ELSE "sub", zero, Opd(p1.v), Opd(res)))
       EXCEPT !.const_n = IF @ = X THEN X ELSE Negated(@)], res)
Not(p1, next, res) ==
  R(IF p1.v.type \in IntTypes THEN Emit(next, Ins("not", Opd(p1.v), None, Opd(res)))
    ELSE Emit(Emit(next, Ins("cvt_f2i", Opd(p1.v), None, Opd(res))),
              Ins("not", Opd(res), None, Opd(res))), res)
Unary(op, p1, name) ==
  CASE op = "+" -> p1
    [] op = "-" /\ p1.v.type \in FloatTypes ->
         Minus(p1, Used(p1.st, 1), FloatLit(0), Name(name, "Float"))
    [] op = "-" /\ p1.v.type \notin FloatTypes ->
         Minus(p1, Used(p1.st, 1), IntLit(0), Name(name, "Int"))
    [] op = "!" -> Not(p1, Used(p1.st, 1), Name(name, "Int"))
UnaryOf(op, p1) == Unary(op, p1, Temp(p1.st))
analysisUnaryOp(n, st) == UnaryOf(n.op, analysis(n.e, st))

\* The arguments so far, in params; a Float for an Int is converted, an Int for
\* a Float is not.
Argument(acc, s, v, param) ==
  IF param.type = "Int" /\ v.type \in FloatTypes
  THEN [st |-> Used(Emit(s, Ins("cvt_f2i", Opd(v), None, IntVar(Temp(s)))), 1),
        params |-> Append(acc.params, IntVar(Temp(s)))]
  ELSE [st |-> s, params |-> Append(acc.params, Opd(v))]
Passed(acc, x, param) == Argument(acc, [x.st EXCEPT !.ExpT = "IntLiteral"], x.v, param)
AddArgument(acc, exp, param) ==
  Passed(acc, analysis(exp, [acc.st EXCEPT !.ExpT = IF param.type = "Float"
                                                    THEN "FloatLiteral" ELSE @]), param)

analysisFuncRParams(args, st, func) ==
  FoldLeft(LAMBDA acc, k : AddArgument(acc, args[k], func.ParameterList[k]),
           [st |-> st, params |-> <<>>], [k \in DOMAIN args |-> k])

\* The result is cleared before the arguments; parameters without an argument
\* keep the formal operand in the CallInst.
Cleared(st, root) ==
  CASE root.type = "null"  -> st
    [] root.type = "Float" -> Emit(st, Ins("fdef", FloatLit(0), None, Opd(root)))
    [] OTHER -> Emit(st, Ins("def", IntLit(0), None, Opd(root)))
Called(n, args, func, root) ==
  R(Emit(args.st,
      [CallIns(n.id, IF n.args = <<>> THEN <<>>
                     ELSE args.params \o SubSeq(func.ParameterList, Len(n.args) + 1,
                                                Len(func.ParameterList)),
               Opd(root)) EXCEPT !.op1.type = func.returnType]), root)
CallTo(n, st, func, root) ==
  IF Len(n.args) > Len(func.ParameterList) THEN R(Fail(st, "too many arguments"), root)
  ELSE Called(n, analysisFuncRParams(n.args, Cleared(Used(st, 1), root), func), func, root)
analysisCall(n, st) ==
  IF n.id \notin DOMAIN st.functions THEN R(Fail(st, "unknown function"), X)
  ELSE CallTo(n, st, st.functions[n.id], Name(Temp(st), st.functions[n.id].returnType))

\* The left operand in a temporary of its own, unless its name begins with t.
InTemp(r, op, ty, k) ==
  IF Letter(r.v, "t") THEN r
  ELSE R(Used(Emit(r.st, Ins(op, Opd(r.v), None, Opd(Name(Temp(r.st), ty)))), k),
         Name(Temp(r.st), ty))
\* Seeded bug: the temporary of a Float is an Int.
AllInts(r) == InTemp(r, "mov", "Int", 1)
ByType(r) ==
  CASE r.v.type \in IntTypes   -> InTemp(r, "mov", "Int", 1)
    [] r.v.type \in FloatTypes -> InTemp(r, "fmov", "Float", 1)
    [] OTHER -> IF Letter(r.v, "t") THEN r ELSE R(Used(r.st, 1), r.v)

IntOpOf == [o \in {"+", "-", "*", "/", "%", "<", "<=", ">", ">=", "==", "!="} |->
  CASE o = "+" -> "add" [] o = "-" -> "sub" [] o = "*" -> "mul" [] o = "/" -> "div"
    [] o = "%" -> "mod" [] o = "<" -> "lss" [] o = "<=" -> "leq" [] o = ">" -> "gtr"
    [] o = ">=" -> "geq" [] o = "==" -> "eq" [] o = "!=" -> "neq"]
FloatOpOf(o) == "f" \o IntOpOf[o]
Commutes == {"+", "*"}

\* The instruction des = des o second: + and * put the second operand first.
OnTemp(o, second, root, op) ==
  IF o \in Commutes THEN Ins(op, second, root, root) ELSE Ins(op, root, second, root)

\* root = root o p1, tmp a new temporary.  A Float met by an Int root makes the
\* rest Float; there is no instruction for % of floats.
FloatCode(st, o, i) == IF o = "%" THEN st ELSE Emit(st, i)
CombinedIn(tmp, root, o, p1, s) ==
  CASE root.type = "Int" /\ p1.v.type \in FloatTypes ->
         R(FloatCode(Emit(s, Ins("cvt_i2f", Opd(root), None, FloatVar(tmp))), o,
                     Ins(FloatOpOf(o), FloatVar(tmp), Opd(p1.v), FloatVar(tmp))),
           Name(tmp, "Float"))
    [] root.type = "Int" /\ p1.v.type \notin FloatTypes ->
         R(Emit(Emit(s, Ins("mov", Opd(p1.v), None, IntVar(tmp))),
                OnTemp(o, IntVar(tmp), Opd(root), IntOpOf[o])), root)
    [] root.type = "Float" ->
         R(FloatCode(Emit(s, Ins(IF p1.v.type \in IntTypes THEN "cvt_i2f" ELSE "fmov",
                                 Opd(p1.v), None, FloatVar(tmp))), o,
                     OnTemp(o, FloatVar(tmp), Opd(root), FloatOpOf(o))), root)
    [] OTHER -> R(s, root)
Combined(root, o, p1) == CombinedIn(Temp(p1.st), root, o, p1, Used(p1.st, 1))

\* The text of a constant: + and - add, the other operators multiply.
Folded(o, c, ans) == Computed(IF o \in {"+", "-"} THEN c.h + ans.h
                              ELSE Truncated(c.h * ans.h), "FloatLiteral")

\* r: the code of the term; p1 and c: the term and its text.
Folding(acc, o, r, c) ==
  CASE c = X -> [st |-> r.st, v |-> r.v, ans |-> acc.ans]
    [] c # X /\ Number(c) /\ Number(acc.ans) ->
         [st |-> r.st, v |-> r.v, ans |-> Folded(o, c, acc.ans)]
    [] OTHER -> [st |-> Fail(r.st, "not a number"), v |-> r.v, ans |-> acc.ans]
TermOf(acc, o, p1) == Folding(acc, o, Combined(acc.v, o, p1), p1.st.const_n)
OneTerm(acc, x) == TermOf(acc, x.op, analysis(x.e, acc.st))

\* C division of the numbers.
Quotient(a, b) == LET q == Absolute(a) \div Absolute(b)
                  IN  IF (a < 0) = (b < 0) THEN q ELSE -q

\* The length of an array: computed, no code; * / % start from the first
\* operand each time.
Length(o, left, k) ==
  CASE o = "+" -> left + k [] o = "-" -> left - k [] o = "*" -> left * k
    [] o = "/" -> Quotient(left, k) [] o = "%" -> left - k * Quotient(left, k)
LengthOf(acc, o, first, p1) ==
  IF ~Number(p1.v) \/ ~Number(first) \/ (o \in {"/", "%"} /\ Truncated(p1.v.h) = 0)
  THEN R(Fail(p1.st, "not a number"), first)
  ELSE R(p1.st, Text(2 * Length(o, Truncated(IF o \in {"+", "-"} THEN acc.v.h ELSE first.h),
                                Truncated(p1.v.h)), FALSE, "IntLiteral"))
LengthTerm(acc, x, first) == LengthOf(acc, x.op, first, analysis(x.e, acc.st))

\* AddExp and MulExp with several operands.
WithText(all) == R([all.st EXCEPT !.const_n = all.ans], all.v)
Terms(rest, root) ==
  WithText(FoldLeft(LAMBDA acc, x : OneTerm(acc, x),
                    [st |-> root.st, v |-> root.v, ans |-> root.st.const_n], rest))
SumOf(rest, p0) ==
  IF p0.st.SZ THEN FoldLeft(LAMBDA acc, x : LengthTerm(acc, x, p0.v), p0, rest)
  ELSE Terms(rest, ByType(p0))
analysisAddExp(n, st) == SumOf(n.rest, analysis(n.e, st))

FloatRel(acc, o, p1) ==
  R(Emit([p1.st EXCEPT !.ExpT = "IntLiteral"],
         Ins(FloatOpOf(o), Opd(acc.v), Opd(p1.v), Opd(acc.v))), acc.v)
IntRel(acc, o, p1) ==
  R(Emit(p1.st, Ins(IntOpOf[o], Opd(acc.v),
                    Opd(IF Digit(p1.v) THEN [p1.v EXCEPT !.type = "IntLiteral"] ELSE p1.v),
                    Opd(acc.v))), acc.v)
RelTerm(acc, x) ==
  IF acc.v.type \in IntTypes THEN IntRel(acc, x.op, analysis(x.e, acc.st))
  ELSE FloatRel(acc, x.op, analysis(x.e, [acc.st EXCEPT !.ExpT = "FloatLiteral"]))

\* The comparison of floats is copied to an int, which nobody uses.
RelValue(all) ==
  IF all.v.type \in IntTypes THEN all
  ELSE R(Used(Emit(all.st, Ins("cvt_f2i", Opd(all.v), None, IntVar(Temp(all.st)))), 1), all.v)
RelRoot(p0) == IF p0.v.type \in IntTypes THEN InTemp(p0, "mov", "Int", 1)
                                         ELSE InTemp(p0, "fmov", "Float", 1)
analysisRelExp(n, st) ==
  RelValue(FoldLeft(LAMBDA acc, x : RelTerm(acc, x), RelRoot(analysis(n.e, st)), n.rest))

\* v[1] is the point exactly if the number is below ten.
EqText(v) == IF ~Digit(v) THEN v
             ELSE [v EXCEPT !.type = IF v.dot /\ v.h < 20 THEN "FloatLiteral" ELSE "IntLiteral"]
EqOf(acc, o, p1) ==
  R(Emit(p1.st, Ins(IntOpOf[o], Opd(EqText(p1.v)), Opd(acc.v), Opd(acc.v))), acc.v)
EqTerm(acc, x) == EqOf(acc, x.op, analysis(x.e, acc.st))
analysisEqExp(n, st) ==
  FoldLeft(LAMBDA acc, x : EqTerm(acc, x), InTemp(analysis(n.e, st), "mov", "Int", 1), n.rest)

\* A float literal as a truth value.
Truth(v) == IF Digit(v) /\ v.dot
            THEN Text(IF v.h > 0 THEN 2 ELSE 0, FALSE, "IntLiteral") ELSE v

\* Seeded bug: the jump lands on the or (and) itself.
OntoOperator(root, op, right, at, p1) ==
  LET done == Emit(p1.st, Ins(op, Opd(root), Opd(right), Opd(root)))
  IN  R(Patch(done, at, Len(p1.st.buf) - at + 1), root)
\* The right operand p1, combined with the left one in root; the jump at index at
\* of the code skips both.
Joined(root, op, right, at, p1) ==
  LET done == Emit(p1.st, Ins(op, Opd(root), Opd(right), Opd(root)))
  IN  R(Patch(done, at, Len(done.buf) - at + 1), root)
OrRight(r, root) ==
  Joined(root.v, "or", Truth(r.v), Len(root.st.buf) + 1, r)
OrOf(right, root) == OrRight(analysis(right, Emit(root.st, IfGoto(Opd(root.v), 0))), root)
\* a || b: skip b and the or when a holds.
analysisLOrExp(n, st) == OrOf(n.r, InTemp(analysis(n.l, st), "mov", "Int", 2))

AndText(v) == IF Digit(v) /\ ~v.dot THEN [v EXCEPT !.type = "IntLiteral"] ELSE Truth(v)
AndRight(r, root) ==
  Joined(root.v, "and", AndText(r.v), Len(root.st.buf) + 2, r)
AndOf(right, root) ==
  AndRight(analysis(right, Emit(Emit(root.st, IfGoto(Opd(root.v), 2)), GotoIns(0))), root)
AndRoot(p0) == InTemp(p0, IF p0.v.type \in FloatTypes THEN "cvt_f2i" ELSE "mov", "Int", 2)
\* a && b: fall into b when a holds, else skip b and the and.
analysisLAndExp(n, st) == AndOf(n.r, AndRoot(analysis(n.l, st)))

\* Nothing is analyzed after a failure.
analysis(n, st) ==
  CASE st.err # {} -> R(st, X)
    [] n.k \in {"int", "float"} -> analysisNumber(n, st)
    [] n.k = "lval"  -> analysisLVal(n, st, FALSE)
    [] n.k = "call"  -> analysisCall(n, st)
    [] n.k = "unary" -> analysisUnaryOp(n, st)
    [] n.k = "add"   -> analysisAddExp(n, st)
    [] n.k = "rel"   -> analysisRelExp(n, st)
    [] n.k = "eq"    -> analysisEqExp(n, st)
    [] n.k = "and"   -> analysisLAndExp(n, st)
    [] n.k = "or"    -> analysisLOrExp(n, st)

-----------------------------------------------------------------------------
(* Statements.                                                              *)

RECURSIVE analysisStmt(_, _), analysisReturn(_, _), analysisIf(_, _),
  analysisWhile(_, _), analysisAssign(_, _), analysisBlock(_, _), Items(_, _),
  analysisConstDef(_, _, _), analysisVarDef(_, _, _), InitVec(_, _, _, _)

Returned(st, v) == Emit(st, RetIns(Opd(v)))
Convert(st, op, v, des) == Emit(st, Ins(op, Opd(v), None, des))

ReturnOf(ty, x, name) ==
  CASE ty = "Int" /\ x.v.type = "FloatLiteral" -> Returned(x.st, AsInt(x.v))
    [] ty = "Int" /\ x.v.type \in IntTypes -> Returned(x.st, x.v)
    [] ty = "Int" /\ x.v.type \notin IntTypes \cup {"FloatLiteral"} ->
         Returned(Convert(x.st, "cvt_f2i", x.v, Opd(name)), name)
    [] ty = "Float" /\ x.v.type \in FloatTypes -> Returned(x.st, x.v)
    [] OTHER -> Fail(x.st, "to be continue")
ReturnValue(ty, x) == ReturnOf(ty, x, Name("f2i_t" \o ToString(x.st.tmp_cnt), "Int"))
analysisReturn(n, st) ==
  IF n.e = <<>> THEN Emit(st, RetIns(None))
  ELSE ReturnValue(st.functions[st.namespa].returnType, analysis(n.e[1], st))

\* if (cond) goto 2; goto else; then...; goto end; else...
\* s: the code before the then part; e: before the jump past the else part.
AfterElse(st, e)    == Patch(st, e + 1, Len(st.buf) - e)
\* Seeded bug: the place of the else part, not the way to it.
AbsoluteThen(st, s, e) == Patch(Emit(st, GotoIns(0)), s + 1, e + 1)
AfterThen(st, s, e) == Patch(Emit(st, GotoIns(0)), s + 1, e + 1 - s)
IfParts(n, test) == [st |-> analysisStmt(n.s, Emit(test, GotoIns(0))), s |-> Len(test.buf)]
ElsePart(n, st, e) ==
  AfterElse(IF n.else = <<>> THEN st ELSE analysisStmt(n.else[1], st), e)
IfRest(n, parts) == ElsePart(n, AfterThen(parts.st, parts.s, Len(parts.st.buf)),
                             Len(parts.st.buf))
Tested(cond) == Emit(cond.st, IfGoto(Opd(cond.v), 2))
analysisIf(n, st) == IfRest(n, IfParts(n, Tested(analysis(n.c, st))))

\* cond...; if (cond) goto 2; goto end; body...; goto cond
\* while_s: where the condition begins; while_e: where the jump out stands.
LoopBody(n, test) ==
  analysisStmt(n.s, [Emit(test, GotoIns(0)) EXCEPT !.while_e = Append(@, Len(test.buf))])
\* Seeded bug: the jump back keeps the offset 0 it was made with.
NoOffset(body) == Emit(body, GotoIns(0))
Back(body) == Emit(body, GotoIns(Last(body.while_s) - Len(body.buf)))
LoopEnd(back, end) ==
  [Patch(back, end + 1, Len(back.buf) - end)
     EXCEPT !.while_s = Front(@), !.while_e = Front(@)]
LoopOf(back) == LoopEnd(back, Last(back.while_e))
analysisWhile(n, st) ==
  LoopOf(Back(LoopBody(n, Tested(
    analysis(n.c, [st EXCEPT !.while_s = Append(@, Len(st.buf))])))))

\* break and continue jump back: to the jump out of the loop, to its condition.
JumpBack(n, st) ==
  IF st.while_s = <<>> THEN Fail(st, "outside a loop")
  ELSE Emit(st, GotoIns((IF n.k = "break" THEN Last(st.while_e) ELSE Last(st.while_s))
                          - Len(st.buf)))

\* tx gets the type of the target: for an array's element, a pointer's.
\* Only a converted element of an array and a converted variable use tx.
ToInt(ty, v)   == ty \in {"Int", "IntPtr"} /\ v.type \in FloatTypes
ToFloat(ty, v) == ty \in {"Float", "FloatPtr"} /\ v.type \in IntTypes
Moved(st, to, offset, source) ==
  Emit(st, IF offset = None THEN Ins("mov", source, None, to)
                            ELSE Ins("store", to, offset, source))
ConvertedTo(st, to, offset, v, tx) ==
  Moved(Convert(st, IF ToInt(to.type, v) THEN "cvt_f2i" ELSE "cvt_i2f", v, tx), to, offset, tx)
Assigned(st, to, offset, v, tx) ==
  IF (ToInt(to.type, v) \/ ToFloat(to.type, v))
       /\ (offset = None) = (to.type \in {"Int", "Float"})
  THEN ConvertedTo(st, to, offset, v, tx) ELSE Moved(st, to, offset, Opd(v))
AssignValue(x, to, offset) ==
  Assigned(Used([x.st EXCEPT !.ExpT = "IntLiteral"], 1), to, offset, x.v,
           [name |-> Temp(x.st), type |-> to.type, lit |-> 0])
AssignTo(n, l, offset) ==
  AssignValue(analysis(n.e, IF l.v.type \notin FloatTypes THEN l.st
                            ELSE [l.st EXCEPT !.ExpT = "FloatLiteral"]), Opd(l.v), offset)
analysisAssign(n, st) ==
  AssignTo(n, analysisLVal(n.l, st, TRUE),
           IF n.l.idx = <<>> THEN None ELSE IntVar(Temp(st)))

analysisBlock(n, st) == exit_scope(Items(n.items, add_scope(st)))

analysisStmt(n, st) ==
  CASE st.err # {}    -> st
    [] n.k = "block"  -> analysisBlock(n, st)
    [] n.k = "return" -> analysisReturn(n, st)
    [] n.k = "if"     -> analysisIf(n, st)
    [] n.k = "while"  -> analysisWhile(n, st)
    [] n.k \in {"break", "continue"} -> JumpBack(n, st)
    [] n.k = "assign" -> analysisAssign(n, st)
    [] n.k = "exp"    -> analysis(n.exp, st).st
    [] n.k = "empty"  -> st

-----------------------------------------------------------------------------
(* Declarations.                                                            *)

DefOf(ty) == IF ty = "Float" THEN "fdef" ELSE "def"

\* The lengths between brackets, computed with SZ set.
Dimension(dim, x) ==
  [st  |-> [IF Number(x.v) THEN x.st ELSE Fail(x.st, "not a number")
              EXCEPT !.SZ = FALSE, !.ExpT = "IntLiteral"],
   dim |-> Append(dim, Truncated(x.v.h))]
AddDimension(acc, exp, ty) ==
  Dimension(acc.dim, analysis(exp, [acc.st EXCEPT !.SZ = TRUE, !.ExpT = ty]))
Dimensions(dims, st, ty) ==
  FoldLeft(LAMBDA acc, exp : AddDimension(acc, exp, ty), [st |-> st, dim |-> <<>>], dims)
Product(dim) == FoldLeft(LAMBDA a, b : a * b, 1, dim)

ForType(st, ty) == IF ty = "Float" THEN [st EXCEPT !.ExpT = "FloatLiteral"] ELSE st

\* What a declaration of type ty makes of a value: a literal is converted in
\* place; a variable keeps its name in a constant's value (kept) and gets a
\* temporary's in a variable's.
LiteralAs(v, ty) == IF ty = "Int" THEN AsInt(v)
                    ELSE Computed(2 * Truncated(v.h), "FloatLiteral")
Converted(s, v, ty, name) ==
  R(Used(Convert(s, IF ty = "Int" THEN "cvt_f2i" ELSE "cvt_i2f", v, Opd(Name(name, ty))), 1),
    Name(name, ty))
InitialIn(s, v, ty, kept, other) ==
  CASE ~kept /\ ShortZero(v) -> R(s, v)
    [] (kept \/ ~ShortZero(v)) /\ v.type = other \o "Literal" ->
         R(Used(s, IF kept THEN 1 ELSE 0), LiteralAs(v, ty))
    [] v.type = other -> Converted(s, v, ty, IF kept THEN v.name ELSE Temp(s))
    [] OTHER -> R(Used(s, IF kept THEN 1 ELSE 0), v)
Initial(x, ty, kept) ==
  InitialIn([x.st EXCEPT !.ExpT = "IntLiteral"], x.v, ty, kept,
            IF ty = "Int" THEN "Float" ELSE "Int")

\* analysisInitVal and analysisConstInitVal: the values in order, vec; the
\* latter asserts that there is one between braces.
Appended(vec, r) == [st |-> r.st, vec |-> vec \o r.vec]
Single(r)        == [st |-> r.st, vec |-> <<Opd(r.v)>>]
InitVec(n, st, ty, kept) ==
  IF n.k # "list" THEN Single(Initial(analysis(n, ForType(st, ty)), ty, kept))
  ELSE IF kept /\ n.items = <<>> THEN [st |-> Fail(st, "no value"), vec |-> <<None>>]
  ELSE FoldLeft(LAMBDA acc, item : Appended(acc.vec, InitVec(item, acc.st, ty, kept)),
                [st |-> st, vec |-> <<>>], n.items)

StoreAll(st, arr, vec, from) ==
  FoldLeft(LAMBDA s, k : Emit(s, Ins("store", arr, IntLit(from + k - 1), vec[k])),
           st, [k \in DOMAIN vec |-> k])

ZeroOf(ty) == IF ty = "Int" THEN IntLit(0) ELSE FloatLit(0)
Rest(len, given, ty) == [k \in 1 .. (len - given) |-> ZeroOf(ty)]

\* alloc of an array x; dims: the Analyzer after its lengths, and the lengths.
AllocArray(x, arr, dims) ==
  Emit(Declare(dims.st, x, arr, dims.dim),
       Ins("alloc", IntLit(Product(dims.dim)), None, Opd(arr)))

\* A constant's value is the text that was folded; its code computes another one.
Cut(c) == [AsInt(c) EXCEPT !.text = IF c.text = "minus" THEN @ ELSE "short"]
ConstText(c, ty) == [IF ty = "Int" /\ c.dot THEN Cut(c) ELSE c EXCEPT !.type = ty \o "Literal"]
ConstScalar(d, ty, val) ==
  Emit(Declare([val.st EXCEPT !.const_n = X], d.id, ConstText(val.st.const_n, ty), <<>>),
       Ins(DefOf(ty), val.vec[1], None, [name |-> d.id, type |-> ty, lit |-> 0]))
Stored(arr, vals) == StoreAll(vals.st, arr, vals.vec, 0)
ConstArray(d, ty, arr, dims) ==
  Stored(Opd(arr), InitVec(d.init[1], AllocArray(d.id, arr, dims), ty, TRUE))
analysisConstDef(d, ty, st) ==
  IF d.dims = <<>>
  THEN ConstScalar(d, ty, InitVec(d.init[1], [st EXCEPT !.const_n = Name("", "null")], ty, TRUE))
  ELSE ConstArray(d, ty, Name(get_scoped_name(st, d.id), PointerTo(ty)),
                  Dimensions(d.dims, st, IF ty = "Float" THEN "FloatLiteral" ELSE st.ExpT))

Defined(ty, var, val) == Emit(val.st, Ins(DefOf(ty), val.vec[1], None, Opd(var)))
VarScalar(d, ty, var, st) ==
  IF d.init = <<>> THEN Emit(st, Ins(DefOf(ty), ZeroOf(ty), None, Opd(var)))
  ELSE Defined(ty, var, InitVec(d.init[1], st, ty, FALSE))
\* The rest of a local array is stored zeros, of a global one it is zero anyway.
Filled(ty, arr, len, vals) ==
  IF vals.st.namespa = "global" THEN Stored(arr, vals)
  ELSE StoreAll(Stored(arr, vals), arr, Rest(len, Len(vals.vec), ty), Len(vals.vec))
VarArray(d, ty, arr, dims) ==
  IF d.init = <<>> THEN AllocArray(d.id, arr, dims)
  ELSE Filled(ty, Opd(arr), Product(dims.dim),
              InitVec(d.init[1], AllocArray(d.id, arr, dims), ty, FALSE))
VarNamed(d, ty, st, name) ==
  IF d.dims = <<>>
  THEN VarScalar(d, ty, Name(name, ty), Declare(st, d.id, Name(name, ty), <<>>))
  ELSE VarArray(d, ty, Name(name, PointerTo(ty)), Dimensions(d.dims, st, st.ExpT))
analysisVarDef(d, ty, st) == VarNamed(d, ty, st, get_scoped_name(st, d.id))

analysisDecl(n, st) ==
  FoldLeft(LAMBDA s, d : IF n.k = "const" THEN analysisConstDef(d, n.type, s)
                         ELSE analysisVarDef(d, n.type, s), st, n.defs)

analysisBlockItem(n, st) ==
  IF n.k \in {"const", "var"} THEN analysisDecl(n, st) ELSE analysisStmt(n, st)

\* The items of a block in turn.
Items(items, st) ==
  IF items = <<>> \/ st.err # {} THEN st
  ELSE Items(Tail(items), analysisBlockItem(Head(items), st))

-----------------------------------------------------------------------------
(* Functions and programs.                                                  *)

ParamType(p) == IF p.array THEN PointerTo(p.type) ELSE p.type
ParamOpd(p)  == [name |-> p.id, type |-> ParamType(p), lit |-> 0]

\* A parameter has no suffix and, being a pointer, no dimensions; the code of
\* its bounds goes to a function that is thrown away.
analysisFuncFParam(p, st) ==
  LET bounds == FoldLeft(LAMBDA s, exp : [analysis(exp, s).st EXCEPT !.buf = s.buf],
                         Declare(st, p.id, Name("null", "null"), <<>>), p.dims)
  IN  Declare(bounds, p.id, Name(p.id, ParamType(p)), <<>>)

Closed(f, st) ==
  IF Last(st.buf).op = "return" THEN st.buf
  ELSE CASE f.type = "null" -> Append(st.buf, RetIns(None))
         [] f.type # "null" /\ f.id = "main" -> Append(st.buf, RetIns(IntLit(0)))
         [] OTHER -> st.buf

\* acc.st is the Analyzer, acc.global the code of _global, acc.functions the
\* functions so far.  back() of an empty body is undefined.
FuncOut(acc, f, params, body) ==
  [st |-> [IF body.buf = <<>> THEN Fail(body, "empty function") ELSE body
             EXCEPT !.namespa = "global", !.buf = <<>>],
   global |-> acc.global,
   functions |-> Append(acc.functions,
     Func(f.id, f.type, params, IF body.buf = <<>> THEN <<>> ELSE Closed(f, body)))]
FuncBody(f, params, st) ==
  exit_scope(Items(f.body, [st EXCEPT !.functions = Set(@, f.id, Signature(f.type, params))]))
FuncIn(acc, f, params) ==
  FuncOut(acc, f, params,
    FuncBody(f, params,
      FoldLeft(LAMBDA s, p : analysisFuncFParam(p, s),
        add_scope([acc.st EXCEPT !.tmp_cnt = 0, !.namespa = f.id, !.buf = <<>>]), f.params)))
analysisFuncDef(acc, f) == FuncIn(acc, f, [k \in DOMAIN f.params |-> ParamOpd(f.params[k])])

IntoGlobal(acc, s) == [acc EXCEPT !.st = [s EXCEPT !.buf = <<>>], !.global = s.buf]
analysisCompUnit(acc, item) ==
  IF item.k = "func" THEN analysisFuncDef(acc, item)
  ELSE IntoGlobal(acc, analysisDecl(item, [acc.st EXCEPT !.buf = acc.global]))

\* main calls _global first.
CallGlobal(f) == IF f.name # "main" THEN f
                 ELSE [f EXCEPT !.InstVec = <<CallIns("_global", <<>>, None)>> \o @]

\* An array of one element is listed like a scalar.
GlobalEntry(id, ste) ==
  LET v == IF Number(ste.operand) THEN Name(id, ste.operand.type) ELSE ste.operand
  IN  [val |-> Opd(v), maxlen |-> IF Product(ste.dimension) = 1 THEN 0
                                  ELSE Product(ste.dimension)]

GlobalVal(table, ids) == [k \in DOMAIN ids |-> GlobalEntry(ids[k], table[ids[k]])]
Functions(all) ==
  <<Func("_global", "null", <<>>, Append(all.global, RetIns(None)))>>
    \o [k \in DOMAIN all.functions |-> CallGlobal(all.functions[k])]
ProgramOf(all, table) ==
  [err |-> all.st.err,
   program |-> [functions |-> Functions(all),
                globalVal |-> GlobalVal(table, SetToSeq(DOMAIN table))]]
Completed(all) == ProgramOf(all, all.st.scope_stack[1].table)
Start == add_scope([Analyzer EXCEPT
                      !.functions = Set(@, "_global", Signature("null", <<>>))])
get_ir_program(unit) ==
  Completed(FoldLeft(LAMBDA acc, item : analysisCompUnit(acc, item),
                     [st |-> Start, global |-> <<>>, functions |-> <<>>], unit))
=============================================================================
