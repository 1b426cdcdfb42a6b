----------------------------- MODULE AstGrammar -----------------------------
(***************************************************************************)
(* The trees the grammar actions of ast-parser.y build: one operator per   *)
(* rule, from the rule's parts to the tree of AST nodes it leaves.         *)
(*                                                                         *)
(* A tree is the sequence of its nodes, each before its children and the   *)
(* children in the order in which register_this visits them; a node has    *)
(* the class it is an instance of, the name that its text spells, if the   *)
(* class has one, the value of an IntValue or FloatValue or the operator,  *)
(* and its depth.  Parts that a rule may leave out are sequences of at     *)
(* most one tree.  Ranges of source text and the types int, float and void *)
(* are left out.                                                           *)
(***************************************************************************)
EXTENDS Integers, SequencesExt

NoName == "-"

Deeper(tree) == [k \in DOMAIN tree |-> [tree[k] EXCEPT !.depth = @ + 1]]

Labelled(class, name, value, kids) ==
  <<[is |-> class, name |-> name, value |-> value, depth |-> 0]>>
    \o Deeper(FlattenSeq(kids))
Named(class, name, kids) == Labelled(class, name, 0, kids)
Tree(class, kids) == Named(class, NoName, kids)

(* ConstExps, ArraySubscripts: nothing without a subscript. *)
ConstExps(exps) == IF exps = << >> THEN << >> ELSE <<Tree("ArrayInfo", exps)>>

(* Expressions: PrimaryExp and LVal, UnaryExp with the calls, and the      *)
(* layers of binary expressions, which differ by precedence only.          *)
IntConst(value) == Labelled("IntValue", NoName, value, << >>)
FloatConst(value) == Labelled("FloatValue", NoName, value, << >>)
Ident(name) == Named("Identifier", name, << >>)
LVal(name, subscripts) ==
  IF subscripts = << >> THEN Ident(name)
  ELSE Tree("IndexExpr", <<Ident(name)>> \o subscripts)
Call(name, params) == Tree("CallExpr", <<Ident(name), Tree("CallParam", params)>>)
UnaryExp(op, exp) == Labelled("UnaryExpr", NoName, op, <<exp>>)
BinaryExp(op, lhs, rhs) == Labelled("BinaryExpr", NoName, op, <<lhs, rhs>>)

(* ConstDef and VarDef; an initial value is an expression or a list. *)
InitVal(items) == Tree("InitList", items)
ConstDef(name, dims, init) == Named("Constant", name, ConstExps(dims) \o <<init>>)
VarDef(name, dims, init) == Named("Variable", name, ConstExps(dims) \o init)
ConstDecl(defs) == Tree("ConstDecl", defs)
VarDecl(defs) == Tree("VarDecl", defs)

(* Statements.  The source of an assignment is registered before its       *)
(* destination.                                                            *)
Assign(lval, exp) == Tree("ExprStmt", <<Tree("AssignExpr", <<exp, lval>>)>>)
ExpStmt(exp) == Tree("ExprStmt", <<exp>>)
Empty == Tree("EmptyStmt", << >>)
While(condition, body) == Tree("WhileStmt", <<condition, body>>)
If(condition, then) == Tree("IfStmt", <<condition, then>>)
IfElse(condition, then, else) == Tree("IfStmt", <<condition, then, else>>)
Break == Tree("BreakStmt", << >>)
Continue == Tree("ContinueStmt", << >>)

(* The constructor follows the pointer of the expression: there is no tree *)
(* with a ReturnStmt without one.                                          *)
Return(exp) == Tree("ReturnStmt", <<exp>>)
Block(items) == Tree("Block", items)

(* FuncParam makes a constant without an initial value. *)
FuncParam(name, dims) == Named("Constant", name, ConstExps(dims))
FuncDef(name, params, body) ==
  Named("Function", name, <<Tree("FuncParam", params), body>>)

(***************************************************************************)
(* The whole program: every node with the one it belongs to, 0 for the     *)
(* CompUnit, and its children instead of its depth.                        *)
(***************************************************************************)
MYGLProgram(items) ==
  LET tree == Tree("CompUnit", items)
      up == [n \in DOMAIN tree |-> Max({0} \cup {k \in 1 .. n - 1 : tree[k].depth < tree[n].depth})]
  IN  [n \in DOMAIN tree |->
        [is |-> tree[n].is, name |-> tree[n].name, value |-> tree[n].value, up |-> up[n],
         kids |-> SelectSeq([k \in DOMAIN tree |-> k], LAMBDA k : up[k] = n)]]
=============================================================================
