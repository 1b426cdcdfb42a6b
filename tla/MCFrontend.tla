----------------------------- MODULE MCFrontend -----------------------------
(***************************************************************************)
(* TLC instance of the front end: small programs over the names a, b and   *)
(* f, put together by the rules of the grammar.                            *)
(***************************************************************************)
EXTENDS ExprCheck

G == INSTANCE AstGrammar

Opt(S) == {<< >>} \cup {<<t>> : t \in S}

a == G!Ident("a")
b == G!Ident("b")
one == G!IntConst(1)

Exps ==
  {a, b, one, G!BinaryExp("+", a, b), G!UnaryExp("-", a), G!FloatConst(2), G!LVal("a", <<b>>),
   G!Call("f", << >>), G!Call("g", <<b>>)}

Var(name, init) == G!VarDecl(<<G!VarDef(name, << >>, init)>>)
Const(name, init) == G!ConstDecl(<<G!ConstDef(name, << >>, init)>>)

Decls ==
  {Var("a", i) : i \in Opt({a, b, one})} \cup {Const("a", a), Const("a", one)}
    \cup {G!VarDecl(<<G!VarDef("b", << >>, << >>), G!VarDef("a", <<b>>, <<G!InitVal(<<b>>)>>)>>),
          G!VarDecl(<<G!VarDef("a", <<b>>, <<G!InitVal(<<one>>)>>)>>)}

Simple ==
  {G!Empty, G!Assign(a, b), G!ExpStmt(a), G!Return(a), G!Break, G!Continue}

Nested ==
  {G!Block(<<s>>) : s \in Simple \cup Decls}
    \cup {G!Block(<<d, G!ExpStmt(a)>>) : d \in Decls}

Compound ==
  {G!While(a, s) : s \in Simple \cup Nested}
    \cup {G!While(one, G!If(a, s)) : s \in {G!Break, G!Continue}}
    \cup {G!If(one, s) : s \in {G!Break, G!Block(<<G!Break>>)}}
    \cup {G!IfElse(a, G!Empty, s) : s \in {G!Break, G!Block(<<G!Break>>), G!ExpStmt(b)}}

Globals == {<< >>, <<Var("a", << >>)>>, <<Var("b", <<a>>)>>, <<Const("b", one), Var("a", <<b>>)>>}
Params == {<< >>, <<G!FuncParam("a", << >>)>>, <<G!FuncParam("b", <<one>>), G!FuncParam("b", << >>)>>}
Fun(name, params, body) == G!FuncDef(name, params, G!Block(body))

(* A declaration and a statement; everything around a statement; two       *)
(* functions, in either order, that may have one name.                     *)
MCPrograms ==
  {G!MYGLProgram(<<Fun("f", << >>, <<d, s>>)>>) : d \in Decls, s \in Simple \cup Decls \cup Nested \cup Compound}
    \cup {G!MYGLProgram(g \o <<Fun("f", p, <<s, G!ExpStmt(e)>>)>>) :
            g \in Globals, p \in Params, s \in {Var("a", <<b>>), G!Block(<<Const("b", a)>>)}, e \in Exps}
    \cup {G!MYGLProgram(<<Fun("f", << >>, <<G!Return(G!Call(n, <<a>>))>>)>> \o g
                        \o <<Fun(m, p, <<G!ExpStmt(G!Call("f", << >>))>>)>>) :
            n \in {"f", "g"}, m \in {"f", "g"}, g \in Globals, p \in Params}

(* Expressions over a constant and a variable; elements of constant arrays *)
(* of one and two dimensions, given flat, nested and in part.              *)
Ops == {"+", "-", "*", "/", "%", "&&", "||", "<"}
Values == {a, G!IntConst(3), G!FloatConst(2), G!UnaryExp("-", a), G!UnaryExp("!", b), G!UnaryExp("+", b)}
I(v) == G!IntConst(v)
Lists1 == {G!InitVal(<< >>), G!InitVal(<<I(4)>>), G!InitVal(<<I(4), a, I(5)>>)}
Lists2 ==
  {G!InitVal(<<I(4), I(5), I(6), a>>), G!InitVal(<<G!InitVal(<<I(4), I(5)>>), G!InitVal(<<I(6), a>>)>>),
   G!InitVal(<<G!InitVal(<<I(4)>>), I(5), I(6)>>), G!InitVal(<<I(4), I(5), G!InitVal(<<I(6)>>)>>),
   G!InitVal(<<I(4), G!InitVal(<<I(5)>>)>>)}
Around(g, stmts) == G!MYGLProgram(g \o <<Fun("f", <<G!FuncParam("b", << >>)>>, stmts)>>)

MCExpressions ==
  {Around(<<Const("a", I(-7))>>, <<Const("c", G!BinaryExp(op, l, r)), G!Return(G!Ident("c"))>>) :
     op \in Ops, l \in Values, r \in Values}
MCIndices ==
  {Around(<<Const("a", one), G!ConstDecl(<<G!ConstDef("c", <<I(3)>>, l)>>)>>,
          <<G!Return(G!LVal("c", <<i>>))>>) : l \in Lists1, i \in {I(0), I(2), a, b}}
    \cup {Around(<<Const("a", one), G!ConstDecl(<<G!ConstDef("c", <<I(2), I(2)>>, l)>>)>>,
          <<G!Return(G!LVal("c", <<I(i), I(j)>>))>>) : l \in Lists2, i \in {0, 1}, j \in {0, 1}}

MCAll == MCPrograms \cup MCExpressions \cup MCIndices

(* An element of a parameter. *)
MCParameters ==
  {G!MYGLProgram(<<Fun("f", <<G!FuncParam("a", <<I(2)>>)>>, <<G!Return(e)>>)>>) :
     e \in {G!LVal("a", <<one>>), G!BinaryExp("+", G!LVal("a", <<one>>), one)}}
=============================================================================
