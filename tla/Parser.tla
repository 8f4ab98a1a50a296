------------------------------- MODULE Parser -------------------------------
(***************************************************************************)
(* The parser (src/src/front/syntax.cpp): recursive descent over the       *)
(* tokens, one operator per parse... function, one step per function or     *)
(* declaration of the file.                                                *)
(*                                                                         *)
(* Data.  A rule in progress is a record: the token it is at, the children *)
(* it has given its node, whether it goes on, and why the program stopped:  *)
(* an assertion, or token_stream read past its end, which C++ leaves        *)
(* undefined; the model ends there.                                        *)
(***************************************************************************)
EXTENDS Sequences, SequencesExt, Integers

CONSTANT Streams  \* [tokens, meant]: tokens, the syntax tree they were written for

VARIABLES
  token_stream,  \* Parser::token_stream
  meant,         \* that tree, <<>> if the tokens are no program
  index,         \* Parser::index, from 1
  units,         \* the first children of the CompUnits so far
  result         \* "parsing", "tree", "nullptr", or what stopped the program

parser == <<token_stream, meant, index, units, result>>

-----------------------------------------------------------------------------
(* A rule in progress.                                                      *)

Node(name, children) == [node |-> name, children |-> children]
Leaf(token) == [node |-> "Term", token |-> token]

Rule(i)  == [from |-> i, index |-> i, children |-> <<>>, ok |-> TRUE, stop |-> ""]
Going(r) == r.ok /\ r.stop = ""
\* Seeded bug: the index stays where the rule gave up.
GivenUp(r) == [r EXCEPT !.ok = FALSE]
\* WRONG_SOLVE: return false, with the index the rule began with.
Wrong(r) == [r EXCEPT !.ok = FALSE, !.index = r.from]
\* return false
No(r)    == [r EXCEPT !.ok = FALSE]
Back(r)  == [r EXCEPT !.index = r.from]
Stopped(r, what) == [r EXCEPT !.stop = what]

\* Token j is read.
Looked(r, j) == IF Going(r) /\ j > Len(token_stream) THEN Stopped(r, "past the end") ELSE r
Type(r)    == token_stream[r.index].type
Is(r, types) == Going(r) /\ Type(r) \in types

Taken(s) == IF Going(s) THEN [s EXCEPT !.index = @ + 1,
                                       !.children = Append(@, Leaf(token_stream[s.index]))]
            ELSE s
parseTerm(r) == Taken(Looked(r, r.index))

\* if (CUR_TOKEN_IS(..)) then(); else otherwise();
Either(s, types, then(_), otherwise(_)) ==
  CASE ~Going(s) -> s
    [] Is(s, types) -> then(s)
    [] Going(s) /\ ~Is(s, types) -> otherwise(s)
Same(s) == s
Test(r, types, then(_), otherwise(_)) == Either(Looked(r, r.index), types, then, otherwise)
When(r, types, then(_))   == Test(r, types, then, Same)
Unless(r, types, then(_)) == Test(r, types, Same, then)
\* Seeded bug: the token is not looked at.
WantAnything(r, type) == parseTerm(r)
\* if (!CUR_TOKEN_IS(..)) WRONG_SOLVE, and the token's leaf.
Want(r, type)  == parseTerm(Unless(r, {type}, Wrong))
Must(r, type, what) == parseTerm(Unless(r, {type}, LAMBDA s : Stopped(s, what)))

\* while (CUR_TOKEN_IS(..)) body();
While(r, types, body(_)) ==
  LET RECURSIVE Again(_)
      Again(q) == Test(q, types, LAMBDA s : Again(body(s)), Same)
  IN  Again(r)
WhileNot(r, types, body(_)) ==
  LET RECURSIVE Again(_)
      Again(q) == Test(q, types, Same, LAMBDA s : Again(body(s)))
  IN  Again(r)
\* The same where the end of the tokens is looked for first.
WhileInside(r, types, body(_)) ==
  LET RECURSIVE Again(_)
      Again(q) == IF Going(q) /\ q.index <= Len(token_stream) /\ Is(q, types)
                  THEN Again(body(q)) ELSE q
  IN  Again(r)

\* if (!parse<name>(node)) else; root->children.push_back(node): s is what the rule
\* leaves behind.
Joined(r, name, s, else(_)) ==
  CASE s.stop # "" -> Stopped(r, s.stop)
    [] s.stop = "" /\ s.ok -> [r EXCEPT !.index = s.index, !.children = Append(@, Node(name, s.children))]
    [] OTHER -> else([r EXCEPT !.index = s.index])
RECURSIVE parse(_, _)
Child(r, name, else(_)) ==
  IF Going(r) THEN Joined(r, name, parse(name, r.index), else) ELSE r

\* One operand, then operators and operands.
Chain(i, name, ops, next) ==
  While(Child(Rule(i), name, Wrong), ops, LAMBDA r : Child(parseTerm(r), next, Wrong))
ChainInside(i, name, ops) ==
  WhileInside(Child(Rule(i), name, No), ops, LAMBDA r : Child(parseTerm(r), name, No))
\* [ name ] again and again.
Indices(r, name, else(_)) ==
  While(r, {"LBRACK"}, LAMBDA s : parseTerm(Child(parseTerm(s), name, else)))

-----------------------------------------------------------------------------
(* Expressions.                                                             *)

OneOf(i, types) == parseTerm(Unless(Rule(i), types, No))
parseNumber(i)  == OneOf(i, {"INTLTR", "FLOATLTR"})
parseUnaryOp(i) == OneOf(i, {"PLUS", "MINU", "NOT"})
parseBType(i)   == OneOf(i, {"FLOATTK", "INTTK"})

parseLVal(i) == Indices(parseTerm(Rule(i)), "Exp", No)

\* Any token is taken for the closing bracket.
Parenthesized(r) ==
  parseTerm(Child(parseTerm(r), "Exp",
                  LAMBDA s : Stopped(s, "invalid Ident '(' [FuncRParams]")))
parsePrimaryExp(i) ==
  Test(Rule(i), {"LPARENT"}, Parenthesized,
       LAMBDA r : Either(r, {"IDENFR"},
                         LAMBDA s : Child(s, "LVal", LAMBDA q : Stopped(q, "invalid lval")),
                         LAMBDA s : Child(s, "Number", No)))

parseFuncRParams(i) == Chain(i, "Exp", {"COMMA"}, "Exp")

\* A name and a bracket: the token after the name is looked at, too.
LookedAhead(r) == When(r, {"IDENFR"}, LAMBDA s : Looked(s, s.index + 1))
BeginsCall(r) == Is(r, {"IDENFR"}) /\ token_stream[r.index + 1].type = "LPARENT"

Call(r) ==
  parseTerm(Unless(parseTerm(parseTerm(r)), {"RPARENT"},
                   LAMBDA s : Child(s, "FuncRParams",
                                    LAMBDA q : Stopped(q, "invalid [FuncRParams]"))))
Signed(r) ==
  Child(Child(Back(r), "UnaryOp", LAMBDA s : Stopped(s, "invalid UnaryOp")),
        "UnaryExp", LAMBDA s : Stopped(s, "invalid UnaryExp,UnaryExp"))
CallOrPrimary(r) == IF BeginsCall(r) THEN Call(r) ELSE Child(r, "PrimaryExp", Signed)
parseUnaryExp(i) == CallOrPrimary(LookedAhead(Rule(i)))

MulOps == {"MULT", "DIV", "MOD"}
AddOps == {"PLUS", "MINU"}
parseMulExp(i) == ChainInside(i, "UnaryExp", MulOps)
parseAddExp(i) == ChainInside(i, "MulExp", AddOps)
\* What parseAddExp answers does not count; it never answers no.
parseExp(i)      == Child(Rule(i), "AddExp", LAMBDA s : s)
parseConstExp(i) == Child(Rule(i), "AddExp", LAMBDA s : Stopped(s, "invalid ConstExp"))

RelOps == {"LEQ", "GEQ", "LSS", "GTR"}
EqOps  == {"NEQ", "EQL"}
parseRelExp(i)  == Chain(i, "AddExp", RelOps, "AddExp")
parseEqExp(i)   == Chain(i, "RelExp", EqOps, "RelExp")
parseLAndExp(i) == Chain(i, "EqExp", {"AND"}, "LAndExp")
parseLOrExp(i)  == Chain(i, "LAndExp", {"OR"}, "LOrExp")
parseCond(i)    == Child(Rule(i), "LOrExp", Wrong)

-----------------------------------------------------------------------------
(* Declarations.                                                            *)

\* do { if (CUR_TOKEN_IS(COMMA)) parseTerm(root); ... } while (CUR_TOKEN_IS(COMMA)):
\* a comma is taken in front of the first one, too.
Listed(r, name, what) ==
  LET One(s) == Child(When(s, {"COMMA"}, parseTerm), name, LAMBDA q : Stopped(q, what))
  IN  While(One(r), {"COMMA"}, One)

\* { item, item }; any token is taken for the closing brace.
Braced(r, name, else(_)) ==
  LET One(s) == Child(s, name, else)
  IN  parseTerm(Unless(parseTerm(r), {"RBRACE"},
                       LAMBDA s : While(One(s), {"COMMA"}, LAMBDA q : One(parseTerm(q)))))

parseInitVal(i) ==
  Test(Rule(i), {"LBRACE"},
       LAMBDA r : Braced(r, "InitVal", LAMBDA s : Stopped(s, "invalid InitVal InitVal")),
       LAMBDA r : Child(r, "Exp", LAMBDA s : Stopped(s, "invalid InitVal")))
parseConstInitVal(i) ==
  Test(Rule(i), {"LBRACE"}, LAMBDA r : Braced(r, "ConstInitVal", No),
       LAMBDA r : Child(r, "ConstExp", LAMBDA s : Stopped(s, "invalid ConstInitVal exp")))

Length(r) ==
  Must(Child(parseTerm(r), "ConstExp", LAMBDA s : Stopped(s, "invalid VarDef const_exp")),
       "RBRACK", "invalid VarDef RBRACK")
parseVarDef(i) ==
  When(While(Must(Rule(i), "IDENFR", "invalid VarDef IDENFR"), {"LBRACK"}, Length), {"ASSIGN"},
       LAMBDA r : Child(parseTerm(r), "InitVal",
                        LAMBDA s : Stopped(s, "invalid VarDef ASSIGN")))
parseConstDef(i) ==
  LET r == Indices(Must(Rule(i), "IDENFR", "invalid ConstDef IDENFR"), "ConstExp",
                   LAMBDA s : Stopped(s, "invalid ConstDef ConstExp"))
  IN  Child(Must(r, "ASSIGN", "invalid ConstDef ASSIGN"), "ConstInitVal",
            LAMBDA s : Stopped(s, "invalid ConstDef const_init_val"))

\* Any token is taken for the semicolon.
parseVarDecl(i) ==
  parseTerm(Listed(Child(Rule(i), "BType", No), "VarDef", "invalid VarDef"))
parseConstDecl(i) ==
  parseTerm(Listed(Child(parseTerm(Rule(i)), "BType",
                         LAMBDA s : Stopped(s, "invalid CONSTTK Decl")),
                   "ConstDef", "invalid CONSTTK condef"))
parseDecl(i) ==
  Test(Rule(i), {"CONSTTK"},
       LAMBDA r : Child(r, "ConstDecl", LAMBDA s : Stopped(s, "invalid Decl parseDecl")),
       LAMBDA r : Child(r, "VarDecl", No))

-----------------------------------------------------------------------------
(* Statements and functions.                                                *)

parseBlockItem(i) ==
  Child(Rule(i), "Decl",
        LAMBDA r : Child(Back(r), "Stmt", LAMBDA s : Stopped(s, "invalid BlockItem")))
parseBlock(i) ==
  Want(WhileNot(Want(Rule(i), "LBRACE"), {"RBRACE"},
                LAMBDA r : Child(r, "BlockItem", Wrong)),
       "RBRACE")

Body(r) == Child(r, "Stmt", Wrong)
\* if or while, the condition, the statement.
Guarded(r) == Body(Want(Child(Want(parseTerm(r), "LPARENT"), "Cond", Wrong), "RPARENT"))
\* Seeded bug: an else belongs to the statement that is complete.
NoElse(r) == r
Else(r) == When(r, {"ELSETK"}, LAMBDA s : Body(parseTerm(s)))
Expression(r) == Child(r, "Exp", Wrong)
Assigned(r) == When(r, {"ASSIGN"}, LAMBDA s : Expression(parseTerm(s)))

StmtAt(r) ==
  CASE Is(r, {"LBRACE"})  -> Child(r, "Block", Wrong)
    [] Is(r, {"IFTK"})    -> Else(Guarded(r))
    [] Is(r, {"WHILETK"}) -> Guarded(r)
    [] Is(r, {"BREAKTK", "CONTINUETK"}) -> Want(parseTerm(r), "SEMICN")
    [] Is(r, {"RETURNTK"}) -> Want(Unless(parseTerm(r), {"SEMICN"}, Expression), "SEMICN")
    [] Is(r, {"IDENFR"}) /\ ~BeginsCall(r) -> Want(Assigned(Child(r, "LVal", Wrong)), "SEMICN")
    [] OTHER -> Want(Unless(r, {"SEMICN"}, Expression), "SEMICN")
parseStmt(i) == StmtAt(LookedAhead(Rule(i)))

FuncTypeAt(r) ==
  IF Going(r) /\ token_stream[r.index].value \in {"int", "void", "float"} THEN parseTerm(r) ELSE No(r)
parseFuncType(i) == FuncTypeAt(Looked(Rule(i), i))

\* The two tokens after the first bracket are taken for ] and, further on, each
\* token after an expression.
parseFuncFParam(i) ==
  When(parseTerm(Child(Rule(i), "BType", No)), {"LBRACK"},
       LAMBDA r : Indices(parseTerm(parseTerm(r)), "Exp", No))
parseFuncFParams(i) == Listed(Rule(i), "FuncFParam", "invalid parseFuncFParams")

parseFuncDef(i) ==
  LET name   == Want(Want(Child(Rule(i), "FuncType", Wrong), "IDENFR"), "LPARENT")
      params == Unless(name, {"RPARENT"},
                       LAMBDA r : Child(r, "FuncFParams", Wrong))
  IN  Child(Want(params, "RPARENT"), "Block", Wrong)

\* A rule by the name of the node it makes.
parse(name, i) ==
  CASE name = "Exp" -> parseExp(i) [] name = "ConstExp" -> parseConstExp(i)
    [] name = "Cond" -> parseCond(i) [] name = "LOrExp" -> parseLOrExp(i)
    [] name = "LAndExp" -> parseLAndExp(i) [] name = "EqExp" -> parseEqExp(i)
    [] name = "RelExp" -> parseRelExp(i) [] name = "AddExp" -> parseAddExp(i)
    [] name = "MulExp" -> parseMulExp(i) [] name = "UnaryExp" -> parseUnaryExp(i)
    [] name = "UnaryOp" -> parseUnaryOp(i) [] name = "PrimaryExp" -> parsePrimaryExp(i)
    [] name = "Number" -> parseNumber(i) [] name = "FuncRParams" -> parseFuncRParams(i)
    [] name = "LVal" -> parseLVal(i) [] name = "InitVal" -> parseInitVal(i)
    [] name = "ConstInitVal" -> parseConstInitVal(i) [] name = "VarDef" -> parseVarDef(i)
    [] name = "ConstDef" -> parseConstDef(i) [] name = "BType" -> parseBType(i)
    [] name = "VarDecl" -> parseVarDecl(i) [] name = "ConstDecl" -> parseConstDecl(i)
    [] name = "Decl" -> parseDecl(i) [] name = "BlockItem" -> parseBlockItem(i)
    [] name = "Block" -> parseBlock(i) [] name = "Stmt" -> parseStmt(i)
    [] name = "FuncType" -> parseFuncType(i) [] name = "FuncFParam" -> parseFuncFParam(i)
    [] name = "FuncFParams" -> parseFuncFParams(i) [] name = "FuncDef" -> parseFuncDef(i)

-----------------------------------------------------------------------------
(* get_abstract_syntax_tree: one CompUnit after the other.                  *)

\* A function, or else a declaration.
parseCompUnit(i) ==
  Child(Rule(i), "FuncDef", LAMBDA r : Child(r, "Decl", No))

Parsed(r) ==
  /\ index' = r.index
  /\ units' = units \o r.children
  /\ result' = CASE r.stop # "" -> r.stop
                 [] r.stop = "" /\ ~r.ok -> "nullptr"
                 [] Going(r) /\ r.index <= Len(token_stream) -> "parsing"
                 [] OTHER -> "tree"
Unit == /\ result = "parsing"
        /\ Parsed(parseCompUnit(index))
        /\ UNCHANGED <<token_stream, meant>>

ParseDone == result # "parsing" /\ UNCHANGED parser

ParserInit ==
  /\ \E s \in Streams : token_stream = s.tokens /\ meant = s.meant
  /\ index = 1 /\ units = <<>> /\ result = "parsing"
ParserSpec == ParserInit /\ [][Unit \/ ParseDone]_parser

-----------------------------------------------------------------------------
(* Properties.                                                              *)

Grammar == INSTANCE Sentences

RECURSIVE Leaves(_), NodesOf(_)
Leaves(n) == IF n.node = "Term" THEN <<n.token>>
             ELSE FlattenSeq([k \in DOMAIN n.children |-> Leaves(n.children[k])])
NodesOf(n) == IF n.node = "Term" THEN {}
              ELSE {n} \cup UNION {NodesOf(n.children[k]) : k \in DOMAIN n.children}

\* Whatever the tokens: the tree has each token that was read exactly once and in
\* its order, whatever rules were tried and given up on the way; where the parser
\* answers that there is no tree, everything before the token it stands at is in the
\* functions and declarations it has parsed (syntax.cpp:16-20, 37-67).
TreeHoldsTheTokens ==
  result \in {"parsing", "tree", "nullptr"} =>
    FlattenSeq([k \in DOMAIN units |-> Leaves(units[k])]) = SubSeq(token_stream, 1, index - 1)

\* A program is parsed into the tree it was written for: brackets, precedence, the
\* side from which operators are grouped, the if an else belongs to, calls and
\* variables, declarations and functions (the whole of syntax.cpp).
SentencesParsed ==
  /\ meant # <<>> => result \in {"parsing", "tree"}
  /\ meant # <<>> /\ result = "tree" => Grammar!MeantAll(units) = meant

\* A token that is not looked at is taken for what belongs there: brackets that
\* close, the semicolon of a declaration, the name of a parameter, and a comma in
\* front of a list for nothing.
Subscript(k) == k > 1 /\ k % 3 = 1
TakenFor(name, ks, k) ==
  CASE name \in {"VarDecl", "ConstDecl"} /\ k = Len(ks) -> "SEMICN"
    [] name = "UnaryExp" /\ ks[1] = "IDENFR" /\ k = Len(ks) -> "RPARENT"
    [] name = "PrimaryExp" /\ k = 3 -> "RPARENT"
    [] name \in {"InitVal", "ConstInitVal"} /\ ks[1] = "LBRACE" /\ k = Len(ks) -> "RBRACE"
    [] name = "FuncFParam" /\ k = 2 -> "IDENFR"
    [] name \in {"LVal", "FuncFParam"} /\ Subscript(k) -> "RBRACK"
    [] name = "ConstDef" /\ Subscript(k) /\ k < Len(ks) - 1 -> "RBRACK"
    [] OTHER -> ks[k]
WithoutComma(name, ks) ==
  LET head == CASE name = "FuncFParams" -> 1 [] name = "VarDecl" -> 2 [] name = "ConstDecl" -> 3
                [] OTHER -> 0
  IN  IF head \in DOMAIN ks /\ ks[head] = "COMMA" THEN RemoveAt(ks, head) ELSE ks
AsTaken(n) ==
  LET ks == WithoutComma(n.node, Grammar!Kinds(n))
  IN  [k \in DOMAIN ks |-> TakenFor(n.node, ks, k)]

\* A variable for a statement, which no production of parseStmt is.
VariableAlone(n) == n.node = "Stmt" /\ Grammar!Kinds(n) = <<"LVal", "SEMICN">>

\* Whatever the tokens: a tree that is built has only nodes the grammar has, but for
\* those tokens and for a variable alone (ExpressionsAreStatements); no other mistake in a
\* program gets through to the analyzer, which finds children by their number
\* (syntax.cpp:307, 434-445, 467, 526, 561, 584, 600).
OnlyClosingsUnchecked ==
  result \in {"parsing", "tree"} =>
    \A k \in DOMAIN units : \A n \in NodesOf(units[k]) :
      VariableAlone(n) \/ Grammar!Production(n.node, AsTaken(n))

\* "[Exp] ';'" (syntax.cpp:322): a statement may be any expression, and only "LVal '='
\* Exp ';'" (syntax.cpp:299) begins with an LVal, so that the analyzer finds the
\* expression in the third child (semantic.cpp:367).
ExpressionsAreStatements ==
  result # "parsing" /\ meant # <<>> =>
    /\ result = "tree"
    /\ \A k \in DOMAIN units : \A n \in NodesOf(units[k]) : ~VariableAlone(n)
=============================================================================
