-------------------------------- MODULE Ast --------------------------------
(***************************************************************************)
(* The abstract syntax tree of the front end, from the parser's last       *)
(* reductions to the first visitor: functions and declarations are put     *)
(* into the CompUnit, register_this walks down the tree to give every node *)
(* its scope and every identifier its definition, and a visitor (the AST   *)
(* printer) is accepted by the nodes it reaches.                           *)
(*                                                                         *)
(* The walks are recursions in the code; here a stack holds the calls that *)
(* are left, and a step makes the call on top of it.  A call that fails    *)
(* ends its callers, up to one that ignores the result: an "ignored" entry *)
(* below the call says whose result that is.                               *)
(*                                                                         *)
(* A node is its position in the tree, a scope the position of the node    *)
(* that contains it: CompUnit, Function or Block.                          *)
(***************************************************************************)
EXTENDS Integers, SequencesExt

CONSTANT Programs     \* trees of AstGrammar!MYGLProgram

Nil == 0              \* the null pointer
Predefined == -1      \* the scope of CompUnit::Predefined, which is empty
Unset == -2           \* a pointer that no constructor sets
Unit == 1             \* the CompUnit

(* The classes of nodes. *)
Statements == {"Block", "EmptyStmt", "IfStmt", "WhileStmt", "ReturnStmt", "BreakStmt",
               "ContinueStmt", "ExprStmt", "VarDecl", "ConstDecl"}
Declarations == {"VarDecl", "ConstDecl"}
Definitions == {"Variable", "Constant"}
Expressions == {"Identifier", "IntValue", "FloatValue", "UnaryExpr", "BinaryExpr", "CallExpr",
                "IndexExpr", "AssignExpr", "InitList"}

(***************************************************************************)
(* What the grammar makes sure of.  Every node but the CompUnit is a child *)
(* of one before it, of a class that has such children, and comes before   *)
(* the later children of that; a function has parameters and a body, a     *)
(* call its name and parameters, a definition dimensions and an initial    *)
(* value, if any.                                                          *)
(***************************************************************************)
Under(class, parent) ==
  \/ class = "Function" /\ parent = "CompUnit"
  \/ class = "FuncParam" /\ parent = "Function"
  \/ class \in Declarations /\ parent \in {"CompUnit", "Block"}
  \/ class = "Variable" /\ parent = "VarDecl"
  \/ class = "Constant" /\ parent \in {"ConstDecl", "FuncParam"}
  \/ class \in Statements \ Declarations /\ parent \in {"Function", "Block", "IfStmt", "WhileStmt"}
  \/ class = "ArrayInfo" /\ parent \in Definitions
  \/ class = "CallParam" /\ parent = "CallExpr"
  \/ class \in Expressions /\
       parent \in {"IfStmt", "WhileStmt", "ReturnStmt", "ExprStmt", "ArrayInfo", "CallParam"}
                   \cup Definitions \cup (Expressions \ {"Identifier", "IntValue", "FloatValue"})

Shaped(p, n) ==
  LET kids == p[n].kids
      class == [k \in DOMAIN kids |-> p[kids[k]].is]
  IN  /\ p[n].is = "Function" => class = <<"FuncParam", "Block">>
      /\ p[n].is = "CallExpr" => class = <<"Identifier", "CallParam">>
      /\ p[n].is \in Definitions =>
           /\ Len(kids) <= 2
           /\ Len(kids) = 2 => class[1] = "ArrayInfo" /\ class[2] # "ArrayInfo"

ProgramTree(p) ==
  /\ Len(p) \in Nat /\ DOMAIN p = 1 .. Len(p)
  /\ 1 <= Len(p) /\ p[1].up = 0 /\ p[1].is = "CompUnit"
  /\ \A n \in 2 .. Len(p) : p[n].up \in 1 .. n - 1 /\ Under(p[n].is, p[p[n].up].is)
  /\ \A n, k \in DOMAIN p : p[n].up < k /\ k < n => p[n].up <= p[k].up
  /\ \A n \in DOMAIN p :
       /\ p[n].kids \in Seq(DOMAIN p)
       /\ Range(p[n].kids) = {k \in DOMAIN p : p[k].up = n}
       /\ \A i, j \in DOMAIN p[n].kids : i < j => p[n].kids[i] < p[n].kids[j]
       /\ Shaped(p, n)

ASSUME ProgramsAssumption == \A p \in Programs : ProgramTree(p)

VARIABLES
  src,                \* the tree
  left,               \* the items of the program that are not in the CompUnit
  decls, funcdefs,    \* the children of the CompUnit
  node,               \* the fields of the nodes
  table,              \* the entries of the scopes
  stack,              \* the calls to make
  answer,             \* the results that a caller ignored
  phase               \* "parse", "register", "visit", or how the visit ended

vars == <<src, left, decls, funcdefs, node, table, stack, answer, phase>>
parsed == <<src, left, decls, funcdefs>>

Nodes == DOMAIN src
Is(n, class) == src[n].is = class
Kids(n) == src[n].kids

(* Of a Variable or Constant: its dimensions and its initial value, if any. *)
array_info(n) == IF Kids(n) # << >> /\ Is(Head(Kids(n)), "ArrayInfo") THEN Head(Kids(n)) ELSE Nil
init_expr(n) == IF Kids(n) # << >> /\ ~Is(Last(Kids(n)), "ArrayInfo") THEN Last(Kids(n)) ELSE Nil

(***************************************************************************)
(* The parent that the constructors and the append and prepend functions   *)
(* leave: IfStmt asks the parameter it has moved from whether there is an  *)
(* else branch, IndexExpr does not adopt its name, AssignExpr neither      *)
(* operand.                                                                *)
(***************************************************************************)
else_branch(n) == Is(n, "IfStmt") /\ Len(Kids(n)) = 3
Adopted(n) ==
  CASE else_branch(n)       -> {Kids(n)[1], Kids(n)[2]}
    [] Is(n, "IndexExpr")   -> Range(Tail(Kids(n)))
    [] Is(n, "AssignExpr")  -> {}
    [] OTHER                -> Range(Kids(n))
Parent(n) == IF n # Unit /\ n \in Adopted(src[n].up) THEN src[n].up ELSE Nil

(* What a node's fields are before it is put into the CompUnit. *)
Fresh(n) ==
  [scope |-> Nil,
   outer |-> IF n = Unit THEN Nil ELSE Unset,  \* the parent of scope_self
   definition |-> Unset,
   is_lvalue |-> Is(n, "Identifier"),
   control_node |-> Nil,
   base_type |-> IF Is(n, "Variable") \/ (Is(n, "Constant") /\ ~Is(src[n].up, "FuncParam"))
                 THEN "void" ELSE "declared"]

Init ==
  /\ src \in Programs
  /\ left = Kids(Unit)
  /\ decls = << >> /\ funcdefs = << >>
  /\ node = [n \in Nodes |-> Fresh(n)]
  /\ table = {}
  /\ stack = << >>
  /\ answer = [n \in Nodes |-> "none"]
  /\ phase = "parse"
-----------------------------------------------------------------------------
(***************************************************************************)
(* Scope.  An entry belongs to one of the three maps of a scope.           *)
(***************************************************************************)
Entry(s, map, d) == [scope |-> s, map |-> map, def |-> d]
Here(s, map, name) ==
  LET found == {e \in table : e.scope = s /\ e.map = map /\ src[e.def].name = name}
  IN  IF found = {} THEN Nil ELSE (CHOOSE e \in found : TRUE).def

(* The scopes that are there. *)
Scopes == {s \in Nodes : node[s].outer # Unset}

get_function(s0, name) ==
  LET get[s \in Scopes] ==
        IF Here(s, "functions", name) # Nil \/ node[s].outer = Nil
        THEN Here(s, "functions", name)
        ELSE get[node[s].outer]
  IN  get[s0]

(* Functions hide constants, and constants variables, of the same scope. *)
Definition(s, name) ==
  CASE Here(s, "functions", name) # Nil -> Here(s, "functions", name)
    [] Here(s, "functions", name) = Nil /\ Here(s, "constants", name) # Nil ->
         Here(s, "constants", name)
    [] OTHER -> Here(s, "variables", name)
get_definition(s0, name) ==
  LET get[s \in Scopes] ==
        IF Definition(s, name) # Nil \/ node[s].outer = Nil
        THEN Definition(s, name)
        ELSE get[node[s].outer]
  IN  get[s0]

(* add(Variable) looks for variables only, and the map keeps the first of  *)
(* two constants: both adds succeed.                                       *)
Addable(s, d) == Here(s, "variables", src[d].name) = Nil
Added(s, d) ==
  LET map == IF Is(d, "Constant") THEN "constants" ELSE "variables" IN
  IF Here(s, map, src[d].name) = Nil THEN table \cup {Entry(s, map, d)} ELSE table
-----------------------------------------------------------------------------
(***************************************************************************)
(* The parser.  The rule CompUnit is right-recursive: the last item makes  *)
(* the CompUnit, the others are prepended from the last but one to the     *)
(* first.  A function whose name is taken is refused, and nobody looks at  *)
(* the answer.                                                             *)
(***************************************************************************)
PutDeclaration ==
  /\ phase = "parse" /\ left # << >> /\ src[Last(left)].is \in Declarations
  /\ decls' = <<Last(left)>> \o decls
  /\ node' = [node EXCEPT ![Last(left)].scope = Unit]
  /\ left' = Front(left)
  /\ UNCHANGED <<src, funcdefs, table, stack, answer, phase>>

PutFunction ==
  /\ phase = "parse" /\ left # << >> /\ Is(Last(left), "Function")
  /\ IF Here(Unit, "functions", src[Last(left)].name) = Nil
     THEN /\ funcdefs' = <<Last(left)>> \o funcdefs
          /\ table' = table \cup {Entry(Unit, "functions", Last(left))}
          /\ node' = [node EXCEPT ![Last(left)].scope = Unit]
     ELSE UNCHANGED <<funcdefs, table, node>>
  /\ left' = Front(left)
  /\ UNCHANGED <<src, decls, stack, answer, phase>>

(* The whole program is reduced and registered. *)
Task(call, n, s) == [call |-> call, node |-> n, scope |-> s]
Reduced ==
  /\ phase = "parse" /\ left = << >>
  /\ stack' = <<Task("register", Unit, Predefined)>>
  /\ phase' = "register"
  /\ UNCHANGED <<parsed, node, table, answer>>
-----------------------------------------------------------------------------
(***************************************************************************)
(* register_this.                                                          *)
(***************************************************************************)
Calls(call, class) == stack # << >> /\ stack[1].call = call /\ Is(stack[1].node, class)
this == stack[1].node
owner == stack[1].scope

Register(kids, s) == [i \in DOMAIN kids |-> Task("register", kids[i], s)]
Ignoring(n, s) == <<Task("register", n, s), Task("ignored", n, s)>>
Then(tasks) == stack' = tasks \o Tail(stack) /\ UNCHANGED answer

(* A call that returns false. *)
Fail ==
  LET k == Min({i \in DOMAIN stack : stack[i].call = "ignored"}) IN
  /\ stack' = SubSeq(stack, k + 1, Len(stack))
  /\ answer' = [answer EXCEPT ![stack[k].node] = "false"]

Ignored ==
  /\ stack # << >> /\ stack[1].call = "ignored"
  /\ answer' = [answer EXCEPT ![this] = "true"]
  /\ stack' = Tail(stack)
  /\ UNCHANGED <<parsed, node, table, phase>>

Frame == UNCHANGED <<parsed, phase>>

(* set_scope and the children, one after the other until one fails. *)
RegisterWithChildren(class) ==
  /\ Calls("register", class)
  /\ node' = [node EXCEPT ![this].scope = owner]
  /\ Then(Register(Kids(this), owner))
  /\ UNCHANGED table /\ Frame

(* Declarations before functions, whatever their order in the source. *)
RegisterCompUnit ==
  /\ Calls("register", "CompUnit")
  /\ node' = [node EXCEPT ![this].scope = owner]
  /\ LET items == decls \o funcdefs
         call(i) == Ignoring(items[(i + 1) \div 2], Unit)
     IN  Then([i \in 1 .. 2 * Len(items) |-> call(i)[2 - (i % 2)]])
  /\ UNCHANGED table /\ Frame

RegisterFunction ==
  /\ Calls("register", "Function")
  /\ node' = [node EXCEPT ![this].scope = owner, ![this].outer = owner]
  /\ Then(Register(Kids(this), this))
  /\ UNCHANGED table /\ Frame

RegisterFuncParam == RegisterWithChildren("FuncParam")
RegisterArrayInfo == RegisterWithChildren("ArrayInfo")

(* The declaration has given the variable its type before the call.        *)
RegisterVariable ==
  /\ Calls("register", "Variable") \/ Calls("register", "Constant")
  /\ node' = [node EXCEPT ![this].scope = owner, ![this].base_type = "declared"]
  /\ Then((IF array_info(this) = Nil THEN << >> ELSE Register(<<array_info(this)>>, owner))
             \o <<Task("init", this, owner)>>)
  /\ UNCHANGED table /\ Frame

InitialValue == IF init_expr(this) = Nil THEN << >> ELSE Ignoring(init_expr(this), owner)

(* Mutant: the variable is in its scope before its initial value is. *)
InitVariableEarly ==
  /\ stack # << >> /\ stack[1].call = "init"
  /\ Then(<<Task("add", this, owner)>> \o InitialValue)
  /\ UNCHANGED <<node, table>> /\ Frame

(* The variable is added to the scope after its initial value is           *)
(* registered, whatever became of that.                                    *)
InitVariable ==
  /\ stack # << >> /\ stack[1].call = "init"
  /\ Then(InitialValue \o <<Task("add", this, owner)>>)
  /\ UNCHANGED <<node, table>> /\ Frame

AddVariable ==
  /\ stack # << >> /\ stack[1].call = "add"
  /\ IF Addable(owner, this)
     THEN Then(<< >>) /\ table' = Added(owner, this)
     ELSE Fail /\ UNCHANGED table
  /\ UNCHANGED node /\ Frame

RegisterBlock ==
  /\ Calls("register", "Block")
  /\ node' = [node EXCEPT ![this].scope = owner, ![this].outer = owner]
  /\ Then(Register(Kids(this), this))
  /\ UNCHANGED table /\ Frame

RegisterEmptyStmt ==
  /\ Calls("register", "EmptyStmt")
  /\ Then(<< >>)
  /\ UNCHANGED <<node, table>> /\ Frame

(* Mutant: the else branch is forgotten. *)
RegisterIfStmtThen ==
  /\ Calls("register", "IfStmt")
  /\ node' = [node EXCEPT ![this].scope = owner]
  /\ Then(Register(SubSeq(Kids(this), 1, 2), owner))
  /\ UNCHANGED table /\ Frame
RegisterIfStmt == RegisterWithChildren("IfStmt")
RegisterWhileStmt == RegisterWithChildren("WhileStmt")
RegisterReturnStmt == RegisterWithChildren("ReturnStmt")
RegisterExprStmt == RegisterWithChildren("ExprStmt")
RegisterVarDecl == RegisterWithChildren("VarDecl")
RegisterConstDecl == RegisterWithChildren("ConstDecl")

(* The last if or while that the climb over statements meets, Nil if none. *)
Statement(n) == n # Nil /\ src[n].is \in Statements
Outermost(n) ==
  LET climb[p \in Nodes \cup {Nil}] ==
        IF ~Statement(p) THEN Nil
        ELSE IF climb[Parent(p)] # Nil THEN climb[Parent(p)]
        ELSE IF src[p].is \in {"IfStmt", "WhileStmt"} THEN p ELSE Nil
  IN  climb[Parent(n)]

(* Mutant: the climb of a break does not advance either. *)
RegisterBreakStmtSpinning ==
  /\ Calls("register", "BreakStmt")
  /\ IF Parent(this) = Nil
     THEN Fail /\ UNCHANGED node
     ELSE /\ node' = [node EXCEPT ![this].scope = owner, ![this].control_node = Parent(this)]
          /\ IF src[Parent(this)].is \in {"IfStmt", "WhileStmt"}
             THEN Then(<< >>) ELSE UNCHANGED <<stack, answer>>
  /\ UNCHANGED table /\ Frame

RegisterBreakStmt ==
  /\ Calls("register", "BreakStmt")
  /\ IF Parent(this) = Nil
     THEN Fail /\ UNCHANGED node
     ELSE /\ node' = [node EXCEPT ![this].scope = owner,
                                  ![this].control_node = Outermost(this)]
          /\ Then(<< >>)
  /\ UNCHANGED table /\ Frame

(* The climb starts again from the same parent in every round. *)
Spins(n) ==
  Is(n, "ContinueStmt") /\ Statement(Parent(n)) /\ ~Is(Parent(n), "WhileStmt")
RegisterContinueStmt ==
  /\ Calls("register", "ContinueStmt")
  /\ IF Spins(this) THEN UNCHANGED <<stack, answer>>
     ELSE IF Statement(Parent(this)) THEN Then(<< >>) ELSE Fail
  /\ node' = [node EXCEPT
       ![this].scope = owner,
       ![this].control_node = IF Statement(Parent(this)) /\ ~Spins(this) THEN Parent(this) ELSE Nil]
  /\ UNCHANGED table /\ Frame

RegisterUnaryExpr == RegisterWithChildren("UnaryExpr")
RegisterBinaryExpr == RegisterWithChildren("BinaryExpr")
RegisterCallParam == RegisterWithChildren("CallParam")
RegisterInitList == RegisterWithChildren("InitList")
RegisterIndexExpr == RegisterWithChildren("IndexExpr")
RegisterAssignExpr == RegisterWithChildren("AssignExpr")
RegisterValue == RegisterWithChildren("IntValue") \/ RegisterWithChildren("FloatValue")

(* Only functions are looked for; without one the function is external and *)
(* its name keeps the definition that nobody has set.                      *)
RegisterCallExpr ==
  /\ Calls("register", "CallExpr")
  /\ LET name == Kids(this)[1]
         function == get_function(owner, src[name].name)
     IN  node' = [node EXCEPT ![this].scope = owner, ![name].scope = owner,
                    ![name].definition = IF function = Nil THEN @ ELSE function]
  /\ Then(Register(Tail(Kids(this)), owner))
  /\ UNCHANGED table /\ Frame

(* Mutant: an identifier without a definition is let pass. *)
RegisterIdentifierLenient ==
  /\ Calls("register", "Identifier")
  /\ LET d == get_definition(owner, src[this].name) IN
     node' = [node EXCEPT ![this].scope = owner,
                          ![this].definition = IF d = Nil THEN @ ELSE d,
                          ![this].is_lvalue = d # Nil /\ Is(d, "Variable")]
  /\ Then(<< >>)
  /\ UNCHANGED table /\ Frame

RegisterIdentifier ==
  /\ Calls("register", "Identifier")
  /\ LET d == get_definition(owner, src[this].name) IN
     IF d = Nil
     THEN node' = [node EXCEPT ![this].scope = owner] /\ Fail
     ELSE /\ node' = [node EXCEPT ![this].scope = owner, ![this].definition = d,
                                  ![this].is_lvalue = Is(d, "Variable")]
          /\ Then(<< >>)
  /\ UNCHANGED table /\ Frame
-----------------------------------------------------------------------------
(***************************************************************************)
(* accept.  The root is registered, whatever became of its children, and   *)
(* the printer visits it.                                                  *)
(***************************************************************************)
Registered ==
  /\ phase = "register" /\ stack = << >>
  /\ stack' = <<Task("accept", Unit, Nil)>>
  /\ phase' = "visit"
  /\ UNCHANGED <<parsed, node, table, answer>>

(* The children that Printer::visit has accept it, in its order. *)
Printed(n) ==
  CASE Is(n, "CompUnit")   -> decls \o funcdefs
    [] Is(n, "CallExpr")   -> Tail(Kids(n))
    [] Is(n, "IndexExpr")  -> Tail(Kids(n))
    [] Is(n, "AssignExpr") -> Reverse(Kids(n))
    [] OTHER               -> Kids(n)

Accept(kids) ==
  /\ stack' = [i \in DOMAIN kids |-> Task("accept", kids[i], Nil)] \o Tail(stack)
  /\ UNCHANGED phase
End(how) == stack' = << >> /\ phase' = how

(* Without a scope, most classes throw and three refuse. *)
AcceptOr(how, class, unregistered) ==
  /\ Calls("accept", class)
  /\ IF unregistered THEN End(how) ELSE Accept(Printed(this))
  /\ UNCHANGED <<parsed, node, table, answer>>
Unscoped == node[this].scope = Nil
Throwing(class) == AcceptOr("thrown", class, Unscoped)
Refusing(class) == AcceptOr("refused", class, Unscoped)

AcceptCompUnit == AcceptOr("thrown", "CompUnit", FALSE)
AcceptFunction == AcceptOr("thrown", "Function", Unscoped \/ node[this].outer = Unset)
AcceptFuncParam == AcceptOr("thrown", "FuncParam", Unscoped \/ Parent(this) = Nil)
AcceptArrayInfo == AcceptOr("thrown", "ArrayInfo", FALSE)
AcceptVariable == Throwing("Variable") \/ Throwing("Constant")
AcceptBlock == Throwing("Block")
AcceptEmptyStmt == AcceptOr("thrown", "EmptyStmt", FALSE)
AcceptIfStmt == Throwing("IfStmt")
AcceptWhileStmt == Throwing("WhileStmt")
AcceptReturnStmt == Throwing("ReturnStmt")
AcceptExprStmt == Throwing("ExprStmt")
AcceptVarDecl == Throwing("VarDecl")
AcceptConstDecl == Throwing("ConstDecl")
AcceptUnaryExpr == Throwing("UnaryExpr")
AcceptBinaryExpr == Throwing("BinaryExpr")
AcceptAssignExpr == Throwing("AssignExpr")
AcceptCallExpr == Refusing("CallExpr")
AcceptInitList == Refusing("InitList")
AcceptIndexExpr == Refusing("IndexExpr")
AcceptValue == AcceptOr("thrown", "IntValue", FALSE) \/ AcceptOr("thrown", "FloatValue", FALSE)

(* Reached through its CallExpr only, which has registered it. *)
AcceptCallParam == AcceptOr("thrown", "CallParam", FALSE)

(* Printed, and then refused if there is nothing to leave or to repeat. *)
AcceptJump(class) ==
  /\ Calls("accept", class)
  /\ IF Unscoped THEN End("thrown")
     ELSE IF node[this].control_node = Nil THEN End("refused") ELSE Accept(<< >>)
  /\ UNCHANGED <<parsed, node, table, answer>>
AcceptBreakStmt == AcceptJump("BreakStmt")
AcceptContinueStmt == AcceptJump("ContinueStmt")

(* The printer follows the definition; one that was never set leads        *)
(* anywhere.                                                               *)
AcceptIdentifier ==
  /\ Calls("accept", "Identifier")
  /\ IF Unscoped THEN End("thrown")
     ELSE \/ Accept(<< >>)
          \/ node[this].definition = Unset /\ End("crashed")
  /\ UNCHANGED <<parsed, node, table, answer>>

Accepted ==
  /\ phase = "visit" /\ stack = << >>
  /\ End("accepted")
  /\ UNCHANGED <<parsed, node, table, answer>>
-----------------------------------------------------------------------------
Parse == PutDeclaration \/ PutFunction \/ Reduced
RegisterDefinition ==
  \/ RegisterCompUnit \/ RegisterFunction \/ RegisterFuncParam
  \/ RegisterArrayInfo \/ RegisterVariable \/ InitVariable \/ AddVariable
RegisterStatement ==
  \/ RegisterBlock \/ RegisterEmptyStmt \/ RegisterIfStmt \/ RegisterWhileStmt
  \/ RegisterReturnStmt \/ RegisterBreakStmt \/ RegisterContinueStmt
  \/ RegisterExprStmt \/ RegisterVarDecl \/ RegisterConstDecl
RegisterExpression ==
  \/ RegisterUnaryExpr \/ RegisterBinaryExpr \/ RegisterCallParam \/ RegisterCallExpr
  \/ RegisterInitList \/ RegisterIndexExpr \/ RegisterIdentifier \/ RegisterValue
  \/ RegisterAssignExpr
Visit ==
  \/ AcceptCompUnit \/ AcceptFunction \/ AcceptFuncParam \/ AcceptArrayInfo \/ AcceptVariable
  \/ AcceptBlock \/ AcceptEmptyStmt \/ AcceptIfStmt \/ AcceptWhileStmt \/ AcceptReturnStmt
  \/ AcceptBreakStmt \/ AcceptContinueStmt \/ AcceptExprStmt \/ AcceptVarDecl
  \/ AcceptConstDecl \/ AcceptUnaryExpr \/ AcceptBinaryExpr \/ AcceptCallParam
  \/ AcceptCallExpr \/ AcceptInitList \/ AcceptIndexExpr \/ AcceptIdentifier
  \/ AcceptValue \/ AcceptAssignExpr

Next ==
  \/ Parse \/ RegisterDefinition \/ RegisterStatement \/ RegisterExpression \/ Ignored
  \/ Registered \/ Visit \/ Accepted

(* The compiler is one thread that goes on as long as there is a call to   *)
(* make.                                                                   *)
Spec == Init /\ [][Next]_vars /\ WF_vars(Next)
-----------------------------------------------------------------------------
Ended == {"accepted", "refused", "thrown", "crashed"}

TypeOK ==
  /\ decls \in Seq(Nodes) /\ funcdefs \in Seq(Nodes) /\ left \in Seq(Nodes)
  /\ \A n \in Nodes :
       /\ node[n].scope \in Nodes \cup {Nil, Predefined}
       /\ node[n].outer \in Nodes \cup {Nil, Unset}
       /\ node[n].definition \in Nodes \cup {Unset}
       /\ node[n].is_lvalue \in BOOLEAN
       /\ node[n].control_node \in Nodes \cup {Nil}
       /\ node[n].base_type \in {"void", "declared"}
       /\ answer[n] \in {"none", "true", "false"}
  /\ \A e \in table : e \in [scope : Nodes, map : {"functions", "constants", "variables"}, def : Nodes]
  /\ phase \in {"parse", "register", "visit"} \cup Ended

(* The places of the tree, whatever the walks make of them. *)
Inside(n, m) ==
  LET above[k \in Nodes \cup {Nil}] == k # Nil /\ (k = m \/ above[src[k].up]) IN above[n]
Container(n) ==
  Max({0} \cup {m \in Nodes : m # n /\ Inside(n, m)
                              /\ src[m].is \in {"Block", "Function", "CompUnit"}})
Defines(d, name) == src[d].is \in {"Variable", "Constant", "Function"} /\ src[d].name = name
Within(s, t) == s # t /\ Inside(s, t)

(* Declared when the walk comes to i: the declarations of the file are     *)
(* known in all functions, and a variable is not in its own initial value. *)
Before(d, i) ==
  IF Container(d) = Unit /\ \E f \in Range(Kids(Unit)) : Is(f, "Function") /\ Inside(i, f)
  THEN TRUE
  ELSE d < i /\ ~Inside(i, d)

(***************************************************************************)
(* Lexical scoping, over the whole walk (Scope::get_definition,            *)
(* Identifier::register_this, Variable::register_this): the definition of  *)
(* an identifier is one of its name, made before it in a scope that        *)
(* encloses it, and no scope between the two declares the name before it;  *)
(* a call means the last function of its name in the file, the only one    *)
(* that the parser keeps.                                                  *)
(***************************************************************************)
Callee(i) == Is(src[i].up, "CallExpr")
Lexical ==
  \A i \in Nodes : node[i].definition # Unset =>
    LET d == node[i].definition IN
    /\ Defines(d, src[i].name)
    /\ Inside(i, Container(d))
    /\ Is(d, "Function") =>
         \A f \in Range(Kids(Unit)) : Is(f, "Function") /\ Defines(f, src[i].name) => f <= d
    /\ Is(d, "Function") \/ Before(d, i)
    /\ ~Callee(i) =>
         \A e \in Nodes : Defines(e, src[i].name) /\ Within(Container(e), Container(d))
                           /\ Inside(i, Container(e)) => ~Before(e, i)

(***************************************************************************)
(* A function or global declaration whose registration returned true is    *)
(* registered completely (the register_this functions stop at the first    *)
(* child that fails): every node in it, unless an initial value around the *)
(* node has failed, has the scope of the block around it, every identifier *)
(* but an external function's name its definition, and every variable its  *)
(* type and an entry of its name in its scope.                             *)
(***************************************************************************)
Lost(n) == \E k \in Nodes : Inside(n, k) /\ answer[k] = "false"
RegisteredComplete ==
  \A n \in Nodes :
    (~Lost(n) /\ \E k \in Range(decls \o funcdefs) : Inside(n, k) /\ answer[k] = "true") =>
      /\ Is(n, "EmptyStmt") \/ node[n].scope = Container(n)
      /\ Is(n, "Identifier") => Callee(n) \/ node[n].definition # Unset
      /\ src[n].is \in {"Variable", "Constant"} =>
           /\ node[n].base_type = "declared"
           /\ \E e \in table : e.scope = Container(n) /\ Defines(e.def, src[n].name)

(***************************************************************************)
(* The visitor comes to an end unless something was not registered: it     *)
(* throws, fails or follows a pointer that nobody has set only after a     *)
(* register_this that returned false, and refuses only then or at a break  *)
(* that the climb found no statement for (Node::accept, Printer::visit).   *)
(***************************************************************************)
AcceptsWhatRegistered ==
  phase \in Ended \ {"accepted"} =>
    \/ \E n \in Nodes : answer[n] = "false"
    \/ phase = "refused" /\ \E n \in Nodes : Is(n, "BreakStmt") /\ node[n].control_node = Nil

(***************************************************************************)
(* Parsing, registration and the visit end, if every continue is the       *)
(* statement of a while itself (ContinueStmt::register_control_node).      *)
(***************************************************************************)
Halts == (\A n \in Nodes : ~Spins(n)) ~> phase \in Ended
=============================================================================
