------------------------------ MODULE MCParser ------------------------------
(***************************************************************************)
(* Sentences and wrong sentences for Parser.                               *)
(***************************************************************************)
EXTENDS Parser

Family == INSTANCE SourceFamilies
Tree   == INSTANCE SyntaxTrees

Written(unit) == [tokens |-> Grammar!Sentence(unit), meant |-> unit]
x == Tree!V("x")
y == Tree!V("y")

-----------------------------------------------------------------------------
(* Expressions, conditions and statements of two levels.                    *)

Ints == {x, Tree!I(7), Tree!F(3), Tree!At("v", <<x, Tree!I(1)>>), Tree!CallOf("f", <<>>),
         Tree!CallOf("f", <<x, Tree!Plus(x, y)>>)}
Binary == {"+", "-", "*", "/", "%"}
Simple == {Tree!Un(o, e) : o \in {"+", "-", "!"}, e \in Ints}
            \cup {Tree!Add(a, <<Tree!T(o, y)>>) : a \in {x, Tree!I(7)}, o \in Binary}
            \cup {Tree!Add(x, <<Tree!T(o, y), Tree!T(p, Tree!I(2))>>) : o \in {"+", "-"}, p \in {"+", "-"}}
            \cup {Tree!Add(x, <<Tree!T(o, y), Tree!T(p, Tree!I(2))>>) : o \in {"*", "%"}, p \in {"*", "/"}}
Exps == Ints \cup Simple
          \cup {Tree!Add(a, <<Tree!T(o, b)>>) : a \in Simple, o \in {"-", "*"}, b \in Simple}
          \cup {Tree!Un("-", a) : a \in Simple} \cup {Tree!At("v", <<a, x>>) : a \in Simple}
          \cup {Tree!CallOf("f", <<a, y>>) : a \in Simple}

Comparisons == {Tree!Rel(x, o, Tree!Plus(y, x)) : o \in {"<", ">", "<=", ">="}}
                 \cup {Tree!Eq(x, o, y) : o \in {"==", "!="}}
                 \cup {Tree!Eq(Tree!Rel(x, "<", y), "==", Tree!Rel(Tree!I(1), ">", x)), Tree!Un("!", x), y}
Conjunctions == {Tree!And(a, b) : a \in Comparisons, b \in {y, Tree!And(x, y)}}
Conds == Comparisons \cup Conjunctions \cup {Tree!Or(a, b) : a, b \in Conjunctions}
           \cup {Tree!Or(a, Tree!Or(y, b)) : a, b \in Comparisons}

Endings == {Tree!Break, Tree!Continue, Tree!Empty, Tree!RetNone, Tree!RetOf(x), Tree!Block(<<>>),
            Tree!SetTo(Tree!At("v", <<x>>), Tree!Plus(x, y)), Tree!Do(Tree!CallOf("f", <<x>>)),
            Tree!Do(Tree!I(7)), Tree!Block(<<Tree!Let("Int", "x", y), Tree!RetOf(x)>>)}
\* if (x) if (y) a else b: the else is the inner one's.
Stmts ==
  LET Branch == {Tree!If(x, a) : a \in Endings} \cup {Tree!IfElse(x, a, b) : a, b \in Endings}
                  \cup {Tree!While(x, a) : a \in Endings}
  IN  Endings \cup Branch \cup {Tree!If(y, a) : a \in Branch} \cup {Tree!While(y, a) : a \in Branch}
        \cup {Tree!IfElse(y, Tree!Break, a) : a \in Branch}
        \cup {Tree!IfElse(y, Tree!IfElse(x, a, b), Tree!Break) : a, b \in Endings}

Function(body) == <<Tree!FuncOf("Int", "f", <<>>, body)>>
Units ==
  {Function(<<Tree!RetOf(e)>>) : e \in Exps} \cup {Function(<<Tree!If(c, Tree!Empty)>>) : c \in Conds}
    \cup {Function(<<s>>) : s \in Stmts}

-----------------------------------------------------------------------------
(* Three short programs that between them use every rule.                   *)

List(items) == Tree!Braces(items)
One == Tree!I(1)
Short ==
  << <<[k |-> "const", type |-> "Int", defs |->
         <<Tree!Def("v", <<One, One>>, <<List(<<List(<<One>>), List(<<>>)>>)>>), Tree!Def("x", <<>>, <<One>>)>>],
       [k |-> "var", type |-> "Float", defs |->
         <<Tree!Def("y", <<>>, <<>>), Tree!Def("v", <<One>>, <<List(<<x, List(<<One>>)>>)>>)>>],
       Tree!FuncOf("null", "f", <<>>, <<>>)>>,
     <<Tree!FuncOf("Int", "f",
         <<Tree!P("Int", "x"),
           [id |-> "y", type |-> "Float", array |-> TRUE, dims |-> <<One, x>>], Tree!PArray("Int", "v")>>,
         <<Tree!SetTo(Tree!At("v", <<x>>), Tree!Plus(Tree!Add(x, <<Tree!T("*", Tree!Un("-", Tree!Plus(x, y)))>>), One)),
           Tree!Do(Tree!CallOf("f", <<x, y>>))>>)>>,
     <<Tree!FuncOf("null", "f", <<>>,
         <<Tree!While(Tree!Or(Tree!And(x, Tree!Rel(x, "<", y)), Tree!Eq(x, "==", y)),
             Tree!Block(<<Tree!IfElse(x, Tree!Break, Tree!Continue), Tree!Var("Int", "x"), Tree!RetOf(y)>>)),
           Tree!RetNone>>)>> >>

\* Every token left out, doubled or mistaken for another one, every beginning.
Tokens == {Grammar!Tk(t) : t \in {"LPARENT", "RPARENT", "LBRACK", "RBRACK", "LBRACE", "RBRACE", "COMMA",
                                  "SEMICN", "ASSIGN", "PLUS", "NOT", "LSS", "CONSTTK", "ELSETK",
                                  "RETURNTK", "IFTK"}}
            \cup {Grammar!Token("IDENFR", "z", 0), Grammar!Token("INTLTR", "", 9), Grammar!Token("INTTK", "int", 0)}
Mistakes(ts) ==
  UNION {{RemoveAt(ts, k), InsertAt(ts, k, ts[k]), SubSeq(ts, 1, k)}
           \cup {ReplaceAt(ts, k, t) : t \in Tokens} : k \in DOMAIN ts}
Mistaken == {[tokens |-> ts, meant |-> <<>>] :
               ts \in UNION {Mistakes(Grammar!Sentence(Short[k])) : k \in DOMAIN Short}}

MCStreams ==
  {Written(unit) : unit \in Units \cup {Short[k] : k \in DOMAIN Short}}
    \cup {Written(Family!LoopUnitOf(k)) : k \in {43 * j : j \in 1 .. 40}}
    \cup {Written(Family!DataUnitOf(k)) : k \in {19 * j : j \in 1 .. 35}}
    \cup {Written(Family!ConstUnitOf(k)) : k \in {7 * j : j \in 1 .. 20}}
    \cup {Written(Family!FrameUnitOf(k)) : k \in Family!FrameUnits}
    \cup Mistaken

\* Two functions with an expression for a statement: x; and x + 1;.
ExpressionStreams ==
  {Written(Function(<<Tree!Do(x), Tree!RetOf(x)>>)
             \o Function(<<Tree!Do(Tree!Plus(x, One)), Tree!RetOf(x)>>))}
=============================================================================
