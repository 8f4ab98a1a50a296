---------------------------- MODULE SyntaxTrees ----------------------------
(***************************************************************************)
(* Constructors of the syntax trees that SemanticAnalyzer works on and     *)
(* SourceSemantics gives a meaning to: the nodes of                        *)
(* include/front/abstract_syntax_tree.h, chains of one child contracted.   *)
(***************************************************************************)
I(k)        == [k |-> "int", n |-> k]
F(h)        == [k |-> "float", h |-> h]
At(id, ix)  == [k |-> "lval", id |-> id, idx |-> ix]
V(id)       == At(id, <<>>)
CallOf(id, args) == [k |-> "call", id |-> id, args |-> args]
Un(op, e)   == [k |-> "unary", op |-> op, e |-> e]
T(op, e)    == [op |-> op, e |-> e]
Add(e, ts)  == [k |-> "add", e |-> e, rest |-> ts]
Plus(a, b)  == Add(a, <<T("+", b)>>)
Rel(a, op, b) == [k |-> "rel", e |-> a, rest |-> <<T(op, b)>>]
Eq(a, op, b)  == [k |-> "eq", e |-> a, rest |-> <<T(op, b)>>]
And(a, b)   == [k |-> "and", l |-> a, r |-> b]
Or(a, b)    == [k |-> "or", l |-> a, r |-> b]
SetTo(lv, e)  == [k |-> "assign", l |-> lv, e |-> e]
Do(e)       == [k |-> "exp", exp |-> e]
If(c, s)    == [k |-> "if", c |-> c, s |-> s, else |-> <<>>]
IfElse(c, s, t) == [k |-> "if", c |-> c, s |-> s, else |-> <<t>>]
While(c, s) == [k |-> "while", c |-> c, s |-> s]
Break       == [k |-> "break"]
Empty       == [k |-> "empty"]
Continue    == [k |-> "continue"]
Block(items) == [k |-> "block", items |-> items]
RetOf(e)    == [k |-> "return", e |-> <<e>>]
RetNone     == [k |-> "return", e |-> <<>>]
Def(id, dims, init) == [id |-> id, dims |-> dims, init |-> init]
Let(ty, id, e)   == [k |-> "var", type |-> ty, defs |-> <<Def(id, <<>>, <<e>>)>>]
Var(ty, id)      == [k |-> "var", type |-> ty, defs |-> <<Def(id, <<>>, <<>>)>>]
Braces(items)    == [k |-> "list", items |-> items]
FuncOf(ty, id, ps, body) ==
  [k |-> "func", type |-> ty, id |-> id, params |-> ps, body |-> body]
P(ty, id)   == [id |-> id, type |-> ty, array |-> FALSE, dims |-> <<>>]
PArray(ty, id) == [id |-> id, type |-> ty, array |-> TRUE, dims |-> <<>>]
PutInt(e)   == Do(CallOf("putint", <<e>>))
=============================================================================
