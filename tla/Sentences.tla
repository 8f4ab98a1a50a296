------------------------------ MODULE Sentences ------------------------------
(***************************************************************************)
(* The grammar of SysY, the reference for Parser: the sentence a syntax    *)
(* tree of SyntaxTrees is written as, the syntax tree a parse tree stands   *)
(* for, and the productions of each kind of node.                          *)
(***************************************************************************)
EXTENDS SyntaxTrees, SequencesExt, Integers

Token(type, value, n) == [type |-> type, value |-> value, n |-> n]
Tk(type) == Token(type, "", 0)

OpTokens ==
  [o \in {"+", "-", "*", "/", "%", "<", "<=", ">", ">=", "==", "!=", "!"} |->
     CASE o = "+" -> "PLUS" [] o = "-" -> "MINU" [] o = "*" -> "MULT" [] o = "/" -> "DIV"
       [] o = "%" -> "MOD" [] o = "<" -> "LSS" [] o = "<=" -> "LEQ" [] o = ">" -> "GTR"
       [] o = ">=" -> "GEQ" [] o = "==" -> "EQL" [] o = "!=" -> "NEQ" [] o = "!" -> "NOT"]
OpOf(type) == CHOOSE o \in DOMAIN OpTokens : OpTokens[o] = type

-----------------------------------------------------------------------------
(* The sentence of a tree, with brackets only where it needs them.          *)

RECURSIVE Written(_), Statement(_), Initializer(_)

Ident(id) == <<Token("IDENFR", id, 0)>>
TypeToken(ty) == <<CASE ty = "Int" -> Token("INTTK", "int", 0)
                     [] ty = "Float" -> Token("FLOATTK", "float", 0)
                     [] ty = "null" -> Token("VOIDTK", "void", 0)>>
Between(open, ts, close) == <<Tk(open)>> \o ts \o <<Tk(close)>>
SepBy(phrases, sep) ==
  FlattenSeq([k \in DOMAIN phrases |-> IF k = 1 THEN phrases[k] ELSE <<Tk(sep)>> \o phrases[k]])

\* How tightly the outermost operator binds.
IsProduct(n) == n.rest[1].op \in {"*", "/", "%"}
Level(n) ==
  CASE n.k = "or" -> 0 [] n.k = "and" -> 1 [] n.k = "eq" -> 2 [] n.k = "rel" -> 3
    [] n.k = "add" /\ ~IsProduct(n) -> 4 [] n.k = "add" /\ IsProduct(n) -> 5
    [] n.k = "unary" -> 6 [] OTHER -> 7
\* Where the grammar wants something that binds as tightly as level.
Operand(n, level) == IF Level(n) >= level THEN Written(n) ELSE Between("LPARENT", Written(n), "RPARENT")
Exp(n) == Operand(n, 4)
Indexed(id, ix) ==
  Ident(id) \o FlattenSeq([k \in DOMAIN ix |-> Between("LBRACK", Exp(ix[k]), "RBRACK")])
Terms(n, level) ==
  Operand(n.e, level)
    \o FlattenSeq([k \in DOMAIN n.rest |-> <<Tk(OpTokens[n.rest[k].op])>> \o Operand(n.rest[k].e, level)])

Written(n) ==
  CASE n.k = "int"   -> <<Token("INTLTR", "", n.n)>>
    [] n.k = "float" -> <<Token("FLOATLTR", "", n.h)>>
    [] n.k = "lval"  -> Indexed(n.id, n.idx)
    [] n.k = "call"  ->
         Ident(n.id) \o Between("LPARENT", SepBy([k \in DOMAIN n.args |-> Exp(n.args[k])], "COMMA"), "RPARENT")
    [] n.k = "unary" -> <<Tk(OpTokens[n.op])>> \o Operand(n.e, 6)
    [] n.k = "add"   -> Terms(n, Level(n) + 1)
    [] n.k = "rel"   -> Terms(n, 4)
    [] n.k = "eq"    -> Terms(n, 3)
    [] n.k = "and"   -> Operand(n.l, 2) \o <<Tk("AND")>> \o Operand(n.r, 1)
    [] n.k = "or"    -> Operand(n.l, 1) \o <<Tk("OR")>> \o Operand(n.r, 0)

Initializer(n) ==
  IF n.k = "list" THEN Between("LBRACE", SepBy([k \in DOMAIN n.items |-> Initializer(n.items[k])], "COMMA"), "RBRACE")
  ELSE Exp(n)
Definition(d) ==
  Indexed(d.id, d.dims)
    \o (IF d.init = <<>> THEN <<>> ELSE <<Tk("ASSIGN")>> \o Initializer(d.init[1]))
Declaration(n) ==
  (IF n.k = "const" THEN <<Tk("CONSTTK")>> ELSE <<>>)
    \o TypeToken(n.type) \o SepBy([k \in DOMAIN n.defs |-> Definition(n.defs[k])], "COMMA")
    \o <<Tk("SEMICN")>>

Items(ns) == Between("LBRACE", FlattenSeq([k \in DOMAIN ns |-> Statement(ns[k])]), "RBRACE")
Condition(n) == Between("LPARENT", Written(n), "RPARENT")
Statement(n) ==
  CASE n.k = "block"  -> Items(n.items)
    [] n.k = "if"     -> <<Tk("IFTK")>> \o Condition(n.c) \o Statement(n.s)
                           \o (IF n.else = <<>> THEN <<>> ELSE <<Tk("ELSETK")>> \o Statement(n.else[1]))
    [] n.k = "while"  -> <<Tk("WHILETK")>> \o Condition(n.c) \o Statement(n.s)
    [] n.k = "return" -> <<Tk("RETURNTK")>> \o (IF n.e = <<>> THEN <<>> ELSE Exp(n.e[1])) \o <<Tk("SEMICN")>>
    [] n.k = "break"  -> <<Tk("BREAKTK"), Tk("SEMICN")>>
    [] n.k = "continue" -> <<Tk("CONTINUETK"), Tk("SEMICN")>>
    [] n.k = "assign" -> Written(n.l) \o <<Tk("ASSIGN")>> \o Exp(n.e) \o <<Tk("SEMICN")>>
    [] n.k = "exp"    -> Exp(n.exp) \o <<Tk("SEMICN")>>
    [] n.k = "empty"  -> <<Tk("SEMICN")>>
    [] n.k \in {"var", "const"} -> Declaration(n)

Parameter(p) ==
  TypeToken(p.type) \o Ident(p.id)
    \o (IF p.array THEN <<Tk("LBRACK"), Tk("RBRACK")>> ELSE <<>>)
    \o FlattenSeq([k \in DOMAIN p.dims |-> Between("LBRACK", Exp(p.dims[k]), "RBRACK")])
Sentence(unit) ==
  FlattenSeq([k \in DOMAIN unit |->
    IF unit[k].k # "func" THEN Declaration(unit[k])
    ELSE TypeToken(unit[k].type) \o Ident(unit[k].id)
           \o Between("LPARENT", SepBy([j \in DOMAIN unit[k].params |-> Parameter(unit[k].params[j])], "COMMA"), "RPARENT")
           \o Items(unit[k].body)])

-----------------------------------------------------------------------------
(* The tree a parse tree stands for: a chain of one child is its end.       *)

RECURSIVE Meant(_)
Nth(n, k) == Meant(n.children[k])
Size(n)   == Len(n.children)
IsTerm(n) == n.node = "Term"
OfKind(n, name) == SelectSeq(n.children, LAMBDA m : m.node = name)
MeantAll(ns) == [k \in DOMAIN ns |-> Meant(ns[k])]
Op(n, k)    == OpOf(n.children[k].token.type)
Name(n)     == OfKind(n, "Term")[1].token.value
TypeOf(n)   == CASE n.children[1].token.value = "int" -> "Int"
                 [] n.children[1].token.value = "float" -> "Float"
                 [] OTHER -> "null"
Chained(n, kind) ==
  [k |-> kind, e |-> Nth(n, 1),
   rest |-> [j \in 1 .. (Size(n) \div 2) |-> T(Op(n, 2 * j), Nth(n, 2 * j + 1))]]
First(n) == IF IsTerm(n.children[1]) THEN n.children[1].token.type ELSE n.children[1].node

MeantStmt(n) ==
  CASE First(n) = "LVal" -> SetTo(Nth(n, 1), Nth(n, 3))
    [] First(n) = "Exp"  -> Do(Nth(n, 1))
    [] First(n) = "Block" -> Nth(n, 1)
    [] First(n) = "SEMICN" -> Empty
    [] First(n) = "IFTK" /\ Size(n) = 5 -> If(Nth(n, 3), Nth(n, 5))
    [] First(n) = "IFTK" /\ Size(n) = 7 -> IfElse(Nth(n, 3), Nth(n, 5), Nth(n, 7))
    [] First(n) = "WHILETK" -> While(Nth(n, 3), Nth(n, 5))
    [] First(n) = "BREAKTK" -> Break
    [] First(n) = "CONTINUETK" -> Continue
    [] First(n) = "RETURNTK" /\ Size(n) = 2 -> RetNone
    [] First(n) = "RETURNTK" /\ Size(n) = 3 -> RetOf(Nth(n, 2))

Meant(n) ==
  CASE n.node \in {"Exp", "ConstExp", "Cond", "BlockItem", "Decl"} -> Nth(n, 1)
    [] n.node = "PrimaryExp" -> IF First(n) = "LPARENT" THEN Nth(n, 2) ELSE Nth(n, 1)
    [] n.node = "Number" -> IF First(n) = "INTLTR" THEN I(n.children[1].token.n) ELSE F(n.children[1].token.n)
    [] n.node = "LVal" -> At(Name(n), MeantAll(OfKind(n, "Exp")))
    [] n.node = "UnaryExp" ->
         (CASE First(n) = "PrimaryExp" -> Nth(n, 1)
            [] First(n) = "IDENFR" ->
                 CallOf(Name(n), IF OfKind(n, "FuncRParams") = <<>> THEN <<>>
                                 ELSE MeantAll(OfKind(OfKind(n, "FuncRParams")[1], "Exp")))
            [] First(n) = "UnaryOp" -> Un(OpOf(n.children[1].children[1].token.type), Nth(n, 2)))
    [] n.node \in {"MulExp", "AddExp"} -> IF Size(n) = 1 THEN Nth(n, 1) ELSE Chained(n, "add")
    [] n.node = "RelExp"  -> IF Size(n) = 1 THEN Nth(n, 1) ELSE Chained(n, "rel")
    [] n.node = "EqExp"   -> IF Size(n) = 1 THEN Nth(n, 1) ELSE Chained(n, "eq")
    [] n.node = "LAndExp" -> IF Size(n) = 1 THEN Nth(n, 1) ELSE And(Nth(n, 1), Nth(n, 3))
    [] n.node = "LOrExp"  -> IF Size(n) = 1 THEN Nth(n, 1) ELSE Or(Nth(n, 1), Nth(n, 3))
    [] n.node = "Stmt"    -> MeantStmt(n)
    [] n.node = "Block"   -> Block(MeantAll(OfKind(n, "BlockItem")))
    [] n.node = "VarDecl" ->
         [k |-> "var", type |-> TypeOf(n.children[1]), defs |-> MeantAll(OfKind(n, "VarDef"))]
    [] n.node = "ConstDecl" ->
         [k |-> "const", type |-> TypeOf(n.children[2]), defs |-> MeantAll(OfKind(n, "ConstDef"))]
    [] n.node \in {"VarDef", "ConstDef"} ->
         Def(Name(n), MeantAll(OfKind(n, "ConstExp")),
             MeantAll(OfKind(n, "InitVal") \o OfKind(n, "ConstInitVal")))
    [] n.node \in {"InitVal", "ConstInitVal"} ->
         IF First(n) = "LBRACE" THEN Braces(MeantAll(OfKind(n, n.node))) ELSE Nth(n, 1)
    [] n.node = "FuncFParam" ->
         [id |-> Name(n), type |-> TypeOf(n.children[1]), array |-> Size(n) > 2,
          dims |-> MeantAll(OfKind(n, "Exp"))]
    [] n.node = "FuncDef" ->
         FuncOf(TypeOf(n.children[1]), Name(n),
                IF OfKind(n, "FuncFParams") = <<>> THEN <<>>
                ELSE MeantAll(OfKind(OfKind(n, "FuncFParams")[1], "FuncFParam")),
                Meant(Last(n.children)).items)

-----------------------------------------------------------------------------
(* The productions: ks are the kinds of a node's children.                  *)

Kind(n)  == IF IsTerm(n) THEN n.token.type ELSE n.node
Kinds(n) == [k \in DOMAIN n.children |-> Kind(n.children[k])]
From(ks, k) == SubSeq(ks, k, Len(ks))

ListOf(ks, item, seps) ==
  /\ Len(ks) % 2 = 1
  /\ \A k \in DOMAIN ks : IF k % 2 = 1 THEN ks[k] = item ELSE ks[k] \in seps
Subscripts(ks, e) ==
  /\ Len(ks) % 3 = 0
  /\ \A k \in DOMAIN ks : ks[k] = <<"RBRACK", "LBRACK", e>>[(k % 3) + 1]
Of(ks, kinds) == Len(ks) = 1 /\ ks[1] \in kinds
\* What an initializer or a definition with subscripts may be.
Initial(ks, name, e) ==
  \/ Of(ks, {e}) \/ ks = <<"LBRACE", "RBRACE">>
  \/ Len(ks) > 2 /\ ks[1] = "LBRACE" /\ Last(ks) = "RBRACE" /\ ListOf(SubSeq(ks, 2, Len(ks) - 1), name, {"COMMA"})
DefinedBy(ks, value) == SubSeq(ks, Len(ks) - 1, Len(ks)) = <<"ASSIGN", value>>

Production(name, ks) ==
  CASE name \in {"Exp", "ConstExp"} -> Of(ks, {"AddExp"})
    [] name = "Cond" -> Of(ks, {"LOrExp"})
    [] name = "LOrExp"  -> Of(ks, {"LAndExp"}) \/ ks = <<"LAndExp", "OR", "LOrExp">>
    [] name = "LAndExp" -> Of(ks, {"EqExp"}) \/ ks = <<"EqExp", "AND", "LAndExp">>
    [] name = "EqExp"  -> ListOf(ks, "RelExp", {"EQL", "NEQ"})
    [] name = "RelExp" -> ListOf(ks, "AddExp", {"LSS", "GTR", "LEQ", "GEQ"})
    [] name = "AddExp" -> ListOf(ks, "MulExp", {"PLUS", "MINU"})
    [] name = "MulExp" -> ListOf(ks, "UnaryExp", {"MULT", "DIV", "MOD"})
    [] name = "UnaryExp" -> \/ Of(ks, {"PrimaryExp"}) \/ ks = <<"UnaryOp", "UnaryExp">>
                            \/ ks = <<"IDENFR", "LPARENT", "RPARENT">>
                            \/ ks = <<"IDENFR", "LPARENT", "FuncRParams", "RPARENT">>
    [] name = "FuncRParams" -> ListOf(ks, "Exp", {"COMMA"})
    [] name = "PrimaryExp" -> Of(ks, {"LVal", "Number"}) \/ ks = <<"LPARENT", "Exp", "RPARENT">>
    [] name = "Number"  -> Of(ks, {"INTLTR", "FLOATLTR"})
    [] name = "UnaryOp" -> Of(ks, {"PLUS", "MINU", "NOT"})
    [] name = "LVal" -> ks # <<>> /\ ks[1] = "IDENFR" /\ Subscripts(Tail(ks), "Exp")
    [] name = "Stmt" ->
         \/ Of(ks, {"Block", "SEMICN"}) \/ ks = <<"Exp", "SEMICN">>
         \/ ks = <<"LVal", "ASSIGN", "Exp", "SEMICN">>
         \/ ks \in {<<"IFTK", "LPARENT", "Cond", "RPARENT", "Stmt">>,
                    <<"IFTK", "LPARENT", "Cond", "RPARENT", "Stmt", "ELSETK", "Stmt">>,
                    <<"WHILETK", "LPARENT", "Cond", "RPARENT", "Stmt">>}
         \/ ks \in {<<"BREAKTK", "SEMICN">>, <<"CONTINUETK", "SEMICN">>, <<"RETURNTK", "SEMICN">>,
                    <<"RETURNTK", "Exp", "SEMICN">>}
    [] name = "Block" -> /\ Len(ks) >= 2 /\ ks[1] = "LBRACE" /\ Last(ks) = "RBRACE"
                         /\ \A k \in 2 .. (Len(ks) - 1) : ks[k] = "BlockItem"
    [] name = "BlockItem" -> Of(ks, {"Decl", "Stmt"})
    [] name = "Decl" -> Of(ks, {"VarDecl", "ConstDecl"})
    [] name = "BType" -> Of(ks, {"INTTK", "FLOATTK"})
    [] name = "VarDecl" -> /\ Len(ks) >= 3 /\ ks[1] = "BType" /\ Last(ks) = "SEMICN"
                           /\ ListOf(SubSeq(ks, 2, Len(ks) - 1), "VarDef", {"COMMA"})
    [] name = "ConstDecl" -> /\ Len(ks) >= 4 /\ SubSeq(ks, 1, 2) = <<"CONSTTK", "BType">> /\ Last(ks) = "SEMICN"
                             /\ ListOf(SubSeq(ks, 3, Len(ks) - 1), "ConstDef", {"COMMA"})
    [] name = "VarDef" ->
         /\ ks # <<>> /\ ks[1] = "IDENFR"
         /\ \/ Subscripts(Tail(ks), "ConstExp")
            \/ Len(ks) > 2 /\ DefinedBy(ks, "InitVal") /\ Subscripts(SubSeq(ks, 2, Len(ks) - 2), "ConstExp")
    [] name = "ConstDef" ->
         /\ Len(ks) > 2 /\ ks[1] = "IDENFR" /\ DefinedBy(ks, "ConstInitVal")
         /\ Subscripts(SubSeq(ks, 2, Len(ks) - 2), "ConstExp")
    [] name = "InitVal"      -> Initial(ks, "InitVal", "Exp")
    [] name = "ConstInitVal" -> Initial(ks, "ConstInitVal", "ConstExp")
    [] name = "FuncDef" -> \/ ks = <<"FuncType", "IDENFR", "LPARENT", "RPARENT", "Block">>
                           \/ ks = <<"FuncType", "IDENFR", "LPARENT", "FuncFParams", "RPARENT", "Block">>
    [] name = "FuncType"    -> Of(ks, {"INTTK", "FLOATTK", "VOIDTK"})
    [] name = "FuncFParams" -> ListOf(ks, "FuncFParam", {"COMMA"})
    [] name = "FuncFParam"  ->
         \/ ks = <<"BType", "IDENFR">>
         \/ /\ Len(ks) >= 4 /\ SubSeq(ks, 1, 4) = <<"BType", "IDENFR", "LBRACK", "RBRACK">>
            /\ Subscripts(From(ks, 5), "Exp")
=============================================================================
