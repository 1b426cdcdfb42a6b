---------------------------- MODULE FrontendProofs ----------------------------
(***************************************************************************)
(* Proofs about Ast, for all programs that the grammar can build: the      *)
(* types of the fields, lexical scoping, that a registration that returns  *)
(* true has registered everything, and that the visitor ends early only    *)
(* where a registration has failed.                                        *)
(*                                                                         *)
(* 1. Trees: what it means to be inside a node, and the container of one.  *)
(* 2. Scopes: what the searches outwards find.                             *)
(* 3. The walk: an invariant of the stack of calls, and that it is kept    *)
(*    when a call makes others, ends or fails.                             *)
(* 4. Every register_this is one of these, by its class.                   *)
(* 5. The parser, the visit, and the theorems.                             *)
(*                                                                         *)
(* The invariant of the walk: calls on the stack are for disjoint parts of *)
(* the tree, in the order of the source within a function; above every     *)
(* caller that ignores a result are only calls for what is inside its      *)
(* node; every item is either still to be walked, or lost under a result   *)
(* that says so, or done.                                                  *)
(***************************************************************************)
EXTENDS Ast, SequenceFacts

(* The walk through the items of the CompUnit. *)
Item(k) == k \in Range(decls) \cup Range(funcdefs)
InItem(n) == \E k \in Nodes : Item(k) /\ Inside(n, k)

(* A node that its register_this has left, with the fields nd.             *)
Done(nd, n) ==
  /\ Is(n, "EmptyStmt") \/ nd[n].scope = Container(n)
  /\ Is(n, "Function") => nd[n].outer # Unset
  /\ Is(n, "Identifier") => Callee(n) \/ nd[n].definition # Unset
  /\ Is(n, "ContinueStmt") => nd[n].control_node # Nil
  /\ src[n].is \in Definitions => nd[n].base_type = "declared"
Entered(tb, n) == \E e \in tb : e.scope = Container(n) /\ Defines(e.def, src[n].name)
LostIn(ans, n) == \E k \in Nodes : Inside(n, k) /\ ans[k] = "false"

(* A call: the part of the tree that it has still to register, whether it  *)
(* will add a definition, and whether it only marks a result to ignore.    *)
Tasks == [call : {"register", "init", "add", "ignored"}, node : Nodes \ {Unit}, scope : Nodes]

(* The node that a call has still to register, with everything in it.      *)
Root(t) ==
  IF t.call = "register" THEN t.node
  ELSE IF t.call = "init" THEN init_expr(t.node) ELSE Nil
Defining(t) == t.call \in {"init", "add"}
Mark(t) == t.call = "ignored"

(* Where a result is ignored: an item of the CompUnit and an initial       *)
(* value.                                                                  *)
Ignorable(k) == k \in Range(Kids(Unit)) \/ src[k].is \in Expressions

(* A call is made with the scope of its node, which is there, and a        *)
(* definition is added when it has its scope and type.                     *)
Prepared(nd, t) ==
  /\ t \in Tasks /\ InItem(t.node)
  /\ ~Mark(t) => t.scope = Container(t.node) /\ nd[t.scope].outer # Unset
  /\ Defining(t) => src[t.node].is \in Definitions /\ Done(nd, t.node)
  /\ Mark(t) => Ignorable(t.node)

(* What a call may still define; apart from a node. *)
ToDefine(t, d) == src[d].is \in Definitions /\ (Inside(d, Root(t)) \/ (Defining(t) /\ t.node = d))
Off(t, a) == ~Inside(t.node, a) /\ ~Inside(a, Root(t))

(* Two calls on the stack, s above t. *)
Pair(s, t) ==
  /\ ~Inside(Root(s), Root(t)) /\ ~Inside(Root(t), Root(s))
  /\ Defining(s) => ~Inside(s.node, Root(t))
  /\ Defining(t) => ~Inside(t.node, Root(s)) /\ Inside(s.node, t.node)
  /\ Mark(s) => Off(t, s.node)
  /\ Mark(t) /\ Inside(t.node, Root(s)) => s.call = "register" /\ s.node = t.node
  /\ \A d, x \in Nodes : ToDefine(s, d) /\ Inside(x, Root(t)) => Before(d, x)
  /\ \A x, d \in Nodes : \A f \in Range(Kids(Unit)) :
       Inside(x, Root(s)) /\ Inside(d, Root(t)) /\ Inside(x, f) /\ Inside(d, f) => x < d

(* The first mark from i on is that of a node around the i-th call's. *)
CaughtAt(st, i, j) ==
  /\ i <= j /\ Mark(st[j]) /\ Inside(st[i].node, st[j].node)
  /\ \A l \in DOMAIN st : i <= l /\ l < j => ~Mark(st[l])
Caught(st) == \A i \in DOMAIN st : \E j \in DOMAIN st : CaughtAt(st, i, j)

(* A result is there only when no call is left for anything in its node.   *)
Answered(st, ans) ==
  \A a \in Nodes : ans[a] # "none" => Ignorable(a) /\ \A i \in DOMAIN st : Off(st[i], a)

(* A definition is entered before the walk comes to what it is known in.   *)
EntriesBefore(st, tb) ==
  \A e \in tb : \A i \in DOMAIN st : \A x \in Nodes :
    Inside(x, Root(st[i])) => Is(e.def, "Function") \/ Before(e.def, x)

(* What is in an item is left to a call, lost or done; a definition that   *)
(* is done is entered or will be.                                          *)
Covered(st, ans, tb, nd) ==
  \A n \in Nodes : InItem(n) =>
    \/ (\E i \in DOMAIN st : Inside(n, Root(st[i])))
    \/ LostIn(ans, n)
    \/ /\ Done(nd, n)
       /\ src[n].is \in Definitions =>
            (Entered(tb, n) \/ \E i \in DOMAIN st : (Defining(st[i]) /\ st[i].node = n))

(* The invariant of the walk.                                              *)
Walking(st, ans, tb, nd) ==
  /\ st \in Seq(Tasks) /\ ans \in [Nodes -> {"none", "true", "false"}]
  /\ \A i \in DOMAIN st : Prepared(nd, st[i])
  /\ \A i, j \in DOMAIN st : i < j => Pair(st[i], st[j])
  /\ Caught(st) /\ Answered(st, ans) /\ EntriesBefore(st, tb) /\ Covered(st, ans, tb, nd)

Fields ==
  [scope : Nodes \cup {Nil, Predefined}, outer : Nodes \cup {Nil, Unset}, definition : Nodes \cup {Unset},
   is_lvalue : BOOLEAN, control_node : Nodes \cup {Nil}, base_type : {"void", "declared"}]

(* The scopes that are there, and their outer scopes, are the containers.  *)
Outer(nd) ==
  /\ nd[Unit].outer = Nil
  /\ \A s \in Nodes \ {Unit} : nd[s].outer # Unset =>
       nd[s].outer = Container(s) /\ nd[Container(s)].outer # Unset

MapOf(d) == IF Is(d, "Function") THEN "functions" ELSE IF Is(d, "Constant") THEN "constants" ELSE "variables"

(* An entry is in the scope and the map of its definition.                 *)
TableTyped(tb) ==
  \A e \in tb :
    /\ e \in [scope : Nodes, map : {"functions", "constants", "variables"}, def : Nodes]
    /\ src[e.def].is \in {"Function", "Constant", "Variable"}
    /\ e.map = MapOf(e.def) /\ e.scope = Container(e.def)

(* The function that is kept is the last of its name, and of every name    *)
(* that the parser has passed there is one.                                *)
FunctionsLast ==
  /\ \A e \in table : Is(e.def, "Function") =>
       \A f \in Range(Kids(Unit)) : Is(f, "Function") /\ src[f].name = src[e.def].name => f <= e.def
  /\ \A f \in Range(Kids(Unit)) \ Range(left) : Is(f, "Function") =>
       \E e \in table : Is(e.def, "Function") /\ src[e.def].name = src[f].name

Ascending(s) == \A i, j \in DOMAIN s : i < j => s[i] < s[j]

(* What is left is the beginning of the file; the CompUnit has items from  *)
(* behind it, in their order.                                              *)
Parsed ==
  /\ left = SubSeq(Kids(Unit), 1, Len(left)) /\ Len(left) <= Len(Kids(Unit))
  /\ decls \in Seq(Nodes) /\ funcdefs \in Seq(Nodes)
  /\ Ascending(decls) /\ Ascending(funcdefs)
  /\ \A k \in Range(decls) : k \in Range(Kids(Unit)) /\ src[k].is \in Declarations
  /\ \A k \in Range(funcdefs) : k \in Range(Kids(Unit)) /\ Is(k, "Function")
  /\ \A k \in Range(decls) \cup Range(funcdefs), l \in Range(left) : l < k

(* Before the walk.                                                        *)
Untouched ==
  /\ answer = [n \in Nodes |-> "none"]
  /\ \A e \in table : Is(e.def, "Function")
Starting == stack = <<Task("register", Unit, Predefined)>> /\ Untouched

(* After the walk.                                                         *)
Walked ==
  \A n \in Nodes : InItem(n) =>
    LostIn(answer, n) \/ (Done(node, n) /\ (src[n].is \in Definitions => Entered(table, n)))

(* The visit: it reaches the items and what is in them, but the name of no *)
(* call.                                                                   *)
Visits == [call : {"accept"}, node : Nodes, scope : {Nil}]
Reached(n) == n = Unit \/ (InItem(n) /\ ~(Is(n, "Identifier") /\ Callee(n)))
Visiting == stack \in Seq(Visits) /\ \A i \in DOMAIN stack : Reached(stack[i].node)
-----------------------------------------------------------------------------
(* A function that is defined along a way down the natural numbers: the    *)
(* value of a number is its own if it stops the way or if the next one's   *)
(* is to be dropped, and the next one's otherwise.                         *)
Climbs(f, S, stops, drop, val, next) ==
  f = [s \in S |-> IF s \in stops \/ f[next[s]] \in drop THEN val[s] ELSE f[next[s]]]

(* A function that climbs along next as long as it descends is there: its  *)
(* value at a stop, or where the value above is to be dropped, is val.     *)
LEMMA Climbing ==
  ASSUME NEW S \in SUBSET Nat, NEW stops, NEW drop, NEW val, NEW next,
         \A s \in S \ stops : next[s] \in S /\ next[s] < s
  PROVE  \E f : Climbs(f, S, stops, drop, val, next)
<1> DEFINE Upto(n) == {s \in S : s <= n}
           Value(f, s) == IF s \in stops \/ f[next[s]] \in drop THEN val[s] ELSE f[next[s]]
           Fits(f, n) == f = [s \in Upto(n) |-> Value(f, s)]
<1>1. ASSUME NEW m \in Nat, NEW n \in Nat, NEW f, NEW g, Fits(f, m), Fits(g, n), NEW z \in S, z <= m, z <= n
      PROVE  f[z] = g[z]
  <2> DEFINE T == {x \in S : x <= m /\ x <= n /\ f[x] # g[x]}
  <2>1. ASSUME T # {} PROVE FALSE
    <3>1. T \in SUBSET Nat
      OBVIOUS
    <3>2. PICK x \in T : \A y \in T : x <= y
      <4> HIDE DEF T
      <4> QED
        BY <2>1, <3>1, LeastNatural
    <3>3. x \in S /\ x \in Nat /\ x <= m /\ x <= n /\ f[x] # g[x]
      BY <3>2
    <3>4. f[x] = Value(f, x) /\ g[x] = Value(g, x)
      BY <1>1, <3>3
    <3>5. x \notin stops => f[next[x]] = g[next[x]]
      <4>1. ASSUME x \notin stops PROVE f[next[x]] = g[next[x]]
        <5>1. next[x] \in S /\ next[x] < x /\ next[x] \in Nat
          BY <3>3, <4>1
        <5>2. next[x] \notin T
          <6> HIDE DEF T
          <6> QED
            BY <3>2, <3>3, <5>1
        <5> QED
          BY <3>3, <5>1, <5>2
      <4> QED
        BY <4>1
    <3> QED
      BY <3>3, <3>4, <3>5
  <2> QED
    BY <1>1, <2>1
<1>2. ASSUME NEW n \in Nat PROVE \E f : Fits(f, n)
  <2> DEFINE T == {m \in Nat : ~\E f : Fits(f, m)}
  <2>1. ASSUME T # {} PROVE FALSE
    <3>1. T \in SUBSET Nat
      OBVIOUS
    <3>2. PICK m \in T : \A j \in T : m <= j
      <4> HIDE DEF T
      <4> QED
        BY <2>1, <3>1, LeastNatural
    <3>3. \E f : \A s \in S : s < m => f[s] = Value(f, s)
      <4>1. CASE m = 0
        <5> WITNESS 0
        <5> QED
          BY <4>1
      <4>2. CASE m # 0
        <5>1. m - 1 \in Nat /\ m - 1 \notin T
          <6> HIDE DEF T
          <6>1. m \in Nat
            BY <3>1, <3>2
          <6>2. m - 1 \in Nat
            BY <4>2, <6>1
          <6> QED
            BY <3>2, <6>1, <6>2
        <5>2. PICK f : Fits(f, m - 1)
          BY <5>1
        <5>3. \A s \in S : s < m => f[s] = Value(f, s)
          <6>1. ASSUME NEW s \in S, s < m PROVE f[s] = Value(f, s)
            <7>1. s \in Upto(m - 1)
              BY <3>2, <6>1
            <7> HIDE DEF Value, Upto
            <7> QED
              BY <5>2, <7>1
          <6> QED
            BY <6>1
        <5> HIDE DEF Value
        <5> QED
          BY <5>3
      <4> QED
        BY <4>1, <4>2
    <3>4. PICK f : \A s \in S : s < m => f[s] = Value(f, s)
      <4> HIDE DEF Value
      <4> QED
        BY <3>3
    <3> DEFINE g == [s \in Upto(m) |-> Value(f, s)]
    <3>5. \A s \in S : s < m => g[s] = f[s]
      <4>1. ASSUME NEW s \in S, s < m PROVE g[s] = f[s]
        <5>1. s \in Upto(m)
          BY <3>2, <4>1
        <5>2. g[s] = Value(f, s)
          <6> HIDE DEF Value, Upto
          <6> QED
            BY <5>1
        <5> HIDE DEF g, Value
        <5> QED
          BY <3>4, <4>1, <5>2
      <4> QED
        BY <4>1
    <3>6. \A s \in Upto(m) : Value(g, s) = Value(f, s)
      <4>1. ASSUME NEW s \in Upto(m) PROVE Value(g, s) = Value(f, s)
        <5>0. s \in S /\ s \in Nat /\ s <= m /\ m \in Nat
          <6> HIDE DEF T, g, Fits, Value
          <6> QED
            BY <3>1, <3>2, <4>1
        <5>1. s \notin stops => next[s] \in S /\ next[s] < m
          <6>1. s \notin stops => next[s] \in S /\ next[s] < s /\ next[s] \in Nat
            BY <5>0
          <6> HIDE DEF T, g, Fits, Value
          <6> QED
            BY <5>0, <6>1
        <5>2. s \notin stops => g[next[s]] = f[next[s]]
          <6> HIDE DEF g
          <6> QED
            BY <3>5, <5>1
        <5> HIDE DEF g
        <5> QED
          BY <5>2
      <4> QED
        BY <4>1
    <3>7. Fits(g, m)
      <4> HIDE DEF Value
      <4> QED
        BY <3>6
    <3> QED
      BY <3>2, <3>7
  <2> QED
    BY <2>1
<1> DEFINE F(n) == CHOOSE f : Fits(f, n)
           h == [s \in S |-> F(s)[s]]
<1>3. ASSUME NEW n \in Nat PROVE Fits(F(n), n)
  <2> HIDE DEF Fits
  <2> QED
    BY <1>2
<1>4. ASSUME NEW n \in Nat, NEW s \in S, s <= n PROVE h[s] = F(n)[s]
  <2>1. h[s] = F(s)[s] /\ s \in Nat /\ s <= s
    <3> HIDE DEF F
    <3> QED
      OBVIOUS
  <2> HIDE DEF F, h, Fits
  <2> QED
    BY <1>1, <1>3, <1>4, <2>1
<1>5. ASSUME NEW s \in S PROVE h[s] = Value(h, s)
  <2>1. s \in Nat /\ s <= s /\ s \in Upto(s)
    OBVIOUS
  <2>2. h[s] = F(s)[s] /\ Fits(F(s), s)
    <3> HIDE DEF F, h, Fits
    <3> QED
      BY <1>3, <1>4, <2>1
  <2>3. F(s)[s] = Value(F(s), s)
    <3> HIDE DEF F, Value, Upto
    <3> QED
      BY <2>1, <2>2
  <2>4. s \notin stops => h[next[s]] = F(s)[next[s]]
    <3>0. s \notin stops => next[s] \in S /\ next[s] < s /\ next[s] \in Nat
      OBVIOUS
    <3>1. s \notin stops => next[s] \in S /\ next[s] <= s
      BY <2>1, <3>0
    <3> HIDE DEF F, h, Fits
    <3> QED
      BY <1>4, <2>1, <3>1
  <2> HIDE DEF F, h, Fits
  <2> QED
    BY <2>2, <2>3, <2>4
<1>6. h = [s \in S |-> Value(h, s)]
  <2>1. h = [s \in S |-> h[s]]
    BY DEF h
  <2> HIDE DEF h, Value
  <2> QED
    BY <1>5, <2>1
<1>7. Climbs(h, S, stops, drop, val, next)
  <2> HIDE DEF h
  <2> QED
    BY <1>6 DEF Climbs
<1> HIDE DEF h
<1> QED
  BY <1>7
-----------------------------------------------------------------------------
(* The tree.                                                               *)
LEMMA Grown ==
  ASSUME src \in Programs
  PROVE  /\ Nodes = 1 .. Len(src) /\ Len(src) \in Nat /\ 1 <= Len(src)
         /\ Unit \in Nodes /\ src[Unit].up = Nil /\ Is(Unit, "CompUnit")
         /\ \A n \in Nodes : n # Unit =>
              src[n].up \in Nodes /\ src[n].up < n /\ Under(src[n].is, src[src[n].up].is)
         /\ \A n, k \in Nodes : src[n].up < k /\ k < n => src[n].up <= src[k].up
         /\ \A n \in Nodes :
              /\ Kids(n) \in Seq(Nodes)
              /\ Range(Kids(n)) = {k \in Nodes : src[k].up = n}
              /\ \A i, j \in DOMAIN Kids(n) : i < j => Kids(n)[i] < Kids(n)[j]
              /\ Shaped(src, n)
<1>1. ProgramTree(src)
  BY ProgramsAssumption
<1>2. Nodes = 1 .. Len(src) /\ Len(src) \in Nat /\ 1 <= Len(src)
  BY <1>1 DEF ProgramTree, Nodes
<1>3. Unit \in Nodes /\ src[Unit].up = Nil /\ Is(Unit, "CompUnit")
  BY <1>1, <1>2 DEF ProgramTree, Unit, Nil, Is
<1>4. ASSUME NEW n \in Nodes, n # Unit
      PROVE  src[n].up \in Nodes /\ src[n].up < n /\ Under(src[n].is, src[src[n].up].is)
  <2>1. n \in 2 .. Len(src) /\ n \in Nat
    BY <1>2, <1>4 DEF Unit
  <2>2. src[n].up \in 1 .. n - 1 /\ Under(src[n].is, src[src[n].up].is)
    BY <1>1, <2>1 DEF ProgramTree
  <2> QED
    BY <1>2, <2>1, <2>2
<1>5. \A n, k \in Nodes : src[n].up < k /\ k < n => src[n].up <= src[k].up
  BY <1>1 DEF ProgramTree, Nodes
<1>6. ASSUME NEW n \in Nodes
      PROVE  /\ Kids(n) \in Seq(Nodes)
             /\ Range(Kids(n)) = {k \in Nodes : src[k].up = n}
             /\ \A i, j \in DOMAIN Kids(n) : i < j => Kids(n)[i] < Kids(n)[j]
             /\ Shaped(src, n)
  BY <1>1 DEF ProgramTree, Nodes, Kids
<1> QED
  BY <1>2, <1>3, <1>4, <1>5, <1>6

(* A node is inside itself and what its parent is inside of.               *)
LEMMA InsideStep ==
  ASSUME src \in Programs, NEW m
  PROVE  /\ ~Inside(Nil, m)
         /\ \A n \in Nodes : Inside(n, m) <=> n = m \/ Inside(src[n].up, m)
<1> DEFINE S == Nodes \cup {Nil}
           Ok(g) == g = [k \in S |-> k # Nil /\ (k = m \/ g[src[k].up])]
           h == CHOOSE g : Ok(g)
           stops == {k \in S : k = Nil \/ k = m}
           next == [k \in S |-> src[k].up]
           val == [k \in S |-> IF k # Nil /\ k = m THEN 1 ELSE 0]
           drop == {}
<1>1. /\ Nil \notin Nodes /\ S \in SUBSET Nat
      /\ \A n \in Nodes : src[n].up \in S /\ src[n].up < n
  BY Grown DEF Nil, Unit
<1>2. \A s \in S \ stops : next[s] \in S /\ next[s] < s
  BY <1>1
<1>3. PICK f : Climbs(f, S, stops, drop, val, next)
  <2>1. S \in SUBSET Nat
    BY <1>1
  <2> HIDE DEF S, stops, next, val, drop
  <2> QED
    BY <2>1, <1>2, Climbing
<1> DEFINE g == [s \in S |-> f[s] = 1]
<1>4. ASSUME NEW s \in S PROVE g[s] = (s # Nil /\ (s = m \/ g[src[s].up]))
  <2>1. f[s] = IF s \in stops \/ f[next[s]] \in drop THEN val[s] ELSE f[next[s]]
    <3> HIDE DEF stops, next, val, S, drop
    <3> QED
      BY <1>3 DEF Climbs
  <2>2. f[next[s]] \notin drop /\ (s \in stops <=> s = Nil \/ s = m) /\ next[s] = src[s].up
        /\ val[s] = IF s # Nil /\ s = m THEN 1 ELSE 0
    OBVIOUS
  <2>3. s \notin stops => src[s].up \in S
    BY <1>2, <2>2
  <2>4. (f[s] = 1) <=> s # Nil /\ (s = m \/ f[src[s].up] = 1)
    <3> HIDE DEF stops, next, val, S, drop
    <3> QED
      BY <2>1, <2>2
  <2>5. g[s] = (f[s] = 1) /\ (s \notin stops => g[src[s].up] = (f[src[s].up] = 1))
    BY <2>3
  <2> HIDE DEF stops, next, val, S, drop, g
  <2> QED
    BY <2>2, <2>4, <2>5, Zenon
<1>5. Ok(g)
  <2>1. g = [s \in S |-> g[s]]
    OBVIOUS
  <2> HIDE DEF S, g
  <2> QED
    BY <1>4, <2>1
<1>6. Ok(h)
  <2> HIDE DEF Ok, g
  <2> QED
    BY <1>5
<1>7. \A x : Inside(x, m) = h[x]
  BY DEF Inside
<1>8. \A x \in S : h[x] = (x # Nil /\ (x = m \/ h[src[x].up]))
  <2> HIDE DEF S, h
  <2> QED
    BY <1>6
<1>9. Nil \in S /\ \A n \in Nodes : n \in S /\ n # Nil
  BY <1>1
<1> HIDE DEF S, h
<1> QED
  BY <1>7, <1>8, <1>9
-----------------------------------------------------------------------------
(* Whatever holds of a node only if it holds of its parent holds of none.  *)
LEMMA Upwards ==
  ASSUME src \in Programs, NEW T \in SUBSET Nodes, \A k \in T : src[k].up \in T
  PROVE  T = {}
<1>1. /\ Nodes \in SUBSET Nat /\ Nil \notin Nodes
      /\ \A k \in Nodes : k # Unit => src[k].up < k
      /\ src[Unit].up = Nil
  BY Grown DEF Nil
<1>2. ASSUME T # {} PROVE FALSE
  <2>1. T \in SUBSET Nat
    BY <1>1
  <2>2. PICK k \in T : \A l \in T : k <= l
    BY <1>2, <2>1, LeastNatural
  <2>3. k \in Nat /\ src[k].up \in T /\ src[k].up \in Nat /\ k # Unit
    BY <1>1
  <2> QED
    BY <1>1, <2>2, <2>3
<1> QED
  BY <1>2

(* What is inside a node is not before it.                                 *)
LEMMA InsideNodes ==
  ASSUME src \in Programs, NEW m, NEW n \in Nodes \cup {Nil}, Inside(n, m)
  PROVE  n \in Nodes /\ m \in Nodes /\ m <= n /\ n \in Nat /\ m \in Nat
<1> DEFINE T == {k \in Nodes : Inside(k, m) /\ ~(m \in Nodes /\ m <= k)}
<1>1. /\ Nodes \in SUBSET Nat /\ \A k \in Nodes : k # Unit => src[k].up \in Nodes /\ src[k].up < k
      /\ src[Unit].up = Nil
  BY Grown
<1>2. ~Inside(Nil, m) /\ \A k \in Nodes : Inside(k, m) <=> k = m \/ Inside(src[k].up, m)
  BY InsideStep
<1>3. ASSUME NEW k \in T PROVE src[k].up \in T
  <2>1. k # m /\ k # Unit /\ Inside(src[k].up, m)
    BY <1>1, <1>2
  <2>2. src[k].up \in Nodes /\ src[k].up < k /\ src[k].up \in Nat /\ k \in Nat
    BY <1>1, <2>1
  <2>3. ~(m \in Nodes /\ m <= src[k].up)
    <3>1. ASSUME m \in Nodes, m <= src[k].up PROVE m <= k
      <4>1. m \in Nat
        BY <1>1, <3>1
      <4> QED
        BY <2>2, <3>1, <4>1
    <3> QED
      BY <3>1
  <2> QED
    BY <2>1, <2>2, <2>3
<1>4. T = {}
  <2>1. T \in SUBSET Nodes
    OBVIOUS
  <2> HIDE DEF T
  <2> QED
    BY <1>3, <2>1, Upwards
<1> QED
  BY <1>1, <1>2, <1>4

(* A node is inside itself.                                                *)
LEMMA InsideSelf ==
  ASSUME src \in Programs, NEW n \in Nodes
  PROVE  Inside(n, n)
BY InsideStep

(* What is inside a node that is inside another is inside that.            *)
LEMMA InsideTrans ==
  ASSUME src \in Programs, NEW n \in Nodes \cup {Nil}, NEW m, NEW l, Inside(n, m), Inside(m, l)
  PROVE  Inside(n, l)
<1> DEFINE T == {k \in Nodes : Inside(k, m) /\ ~Inside(k, l)}
<1>1. \A k \in Nodes : k # Unit => src[k].up \in Nodes
  BY Grown
<1>2. /\ ~Inside(Nil, m) /\ \A k \in Nodes : Inside(k, m) <=> k = m \/ Inside(src[k].up, m)
      /\ \A k \in Nodes : Inside(k, l) <=> k = l \/ Inside(src[k].up, l)
      /\ src[Unit].up = Nil
  BY InsideStep, Grown
<1>3. \A k \in T : src[k].up \in T
  BY <1>1, <1>2
<1>4. T = {}
  <2>1. T \in SUBSET Nodes
    OBVIOUS
  <2> HIDE DEF T
  <2> QED
    BY <1>3, <2>1, Upwards
<1> QED
  BY <1>2, <1>4

(* Of two nodes that a third is inside of, one is inside the other.        *)
LEMMA InsideBoth ==
  ASSUME src \in Programs, NEW n \in Nodes \cup {Nil}, NEW m, NEW l, Inside(n, m), Inside(n, l)
  PROVE  Inside(m, l) \/ Inside(l, m)
<1> DEFINE T == {k \in Nodes : Inside(k, m) /\ Inside(k, l) /\ ~(Inside(m, l) \/ Inside(l, m))}
<1>1. \A k \in Nodes : k # Unit => src[k].up \in Nodes
  BY Grown
<1>2. /\ ~Inside(Nil, m) /\ \A k \in Nodes : Inside(k, m) <=> k = m \/ Inside(src[k].up, m)
      /\ \A k \in Nodes : Inside(k, l) <=> k = l \/ Inside(src[k].up, l)
      /\ src[Unit].up = Nil
  BY InsideStep, Grown
<1>3. \A k \in T : src[k].up \in T
  BY <1>1, <1>2
<1>4. T = {}
  <2>1. T \in SUBSET Nodes
    OBVIOUS
  <2> HIDE DEF T
  <2> QED
    BY <1>3, <2>1, Upwards
<1> QED
  BY <1>2, <1>4

(* Everything is inside the CompUnit.                                      *)
LEMMA InsideUnit ==
  ASSUME src \in Programs, NEW n \in Nodes
  PROVE  Inside(n, Unit)
<1> DEFINE T == {k \in Nodes : ~Inside(k, Unit)}
<1>1. /\ \A k \in Nodes : k # Unit => src[k].up \in Nodes
      /\ \A k \in Nodes : Inside(k, Unit) <=> k = Unit \/ Inside(src[k].up, Unit)
  BY Grown, InsideStep
<1>2. \A k \in T : src[k].up \in T
  BY <1>1
<1>3. T = {}
  <2>1. T \in SUBSET Nodes
    OBVIOUS
  <2> HIDE DEF T
  <2> QED
    BY <1>2, <2>1, Upwards
<1> QED
  BY <1>3

(* What is inside a node but not the node is inside one of its children.   *)
LEMMA InsideChild ==
  ASSUME src \in Programs, NEW n \in Nodes \cup {Nil}, NEW m, Inside(n, m), n # m
  PROVE  \E k \in Nodes : src[k].up = m /\ Inside(n, k)
<1> DEFINE Child(l) == \E k \in Nodes : src[k].up = m /\ Inside(l, k)
           T == {l \in Nodes : Inside(l, m) /\ l # m /\ ~Child(l)}
<1>1. /\ \A k \in Nodes : k # Unit => src[k].up \in Nodes
      /\ src[Unit].up = Nil
  BY Grown
<1>2. ~Inside(Nil, m) /\ \A k \in Nodes : Inside(k, m) <=> k = m \/ Inside(src[k].up, m)
  BY InsideStep
<1>3. ASSUME NEW l \in T PROVE src[l].up \in T
  <2>1. l \in Nodes /\ l # m /\ ~Child(l) /\ Inside(src[l].up, m) /\ l # Unit
    BY <1>1, <1>2
  <2>2. src[l].up \in Nodes /\ Inside(l, l)
    BY <1>1, <2>1, InsideSelf
  <2>3. src[l].up # m
    BY <2>1, <2>2
  <2>4. ASSUME NEW k \in Nodes, src[k].up = m, Inside(src[l].up, k) PROVE FALSE
    <3>1. Inside(l, k)
      BY <2>1, <2>4, InsideStep
    <3> QED
      BY <2>1, <2>4, <3>1
  <2> QED
    BY <2>1, <2>2, <2>3, <2>4
<1>4. T = {}
  <2>1. T \in SUBSET Nodes
    OBVIOUS
  <2> HIDE DEF T
  <2> QED
    BY <1>3, <2>1, Upwards
<1>5. n \in Nodes
  BY <1>2
<1> QED
  BY <1>4, <1>5

(* A node's descendants follow it without a gap.                           *)
LEMMA InsideBetween ==
  ASSUME src \in Programs, NEW x \in Nodes, NEW a \in Nodes, NEW k \in Nodes,
         Inside(x, a), a <= k, k <= x
  PROVE  Inside(k, a)
<1> DEFINE T == {j \in Nodes : a <= j /\ j <= x /\ ~Inside(j, a)}
<1>1. /\ Nodes \in SUBSET Nat /\ \A j \in Nodes : j # Unit => src[j].up \in Nodes /\ src[j].up < j
      /\ src[Unit].up = Nil
      /\ \A i, j \in Nodes : src[i].up < j /\ j < i => src[i].up <= src[j].up
      /\ \A i \in Nodes : Unit <= i
  BY Grown DEF Unit
<1>2. \A j \in Nodes : Inside(j, a) <=> j = a \/ Inside(src[j].up, a)
  BY InsideStep
<1>3. ASSUME T # {} PROVE FALSE
  <2>1. T \in SUBSET Nat
    BY <1>1
  <2>2. PICK j \in T : \A i \in T : j <= i
    <3> HIDE DEF T
    <3> QED
      BY <1>3, <2>1, LeastNatural
  <2>3. j \in Nodes /\ j \in Nat /\ a \in Nat /\ x \in Nat /\ a < j /\ j < x /\ ~Inside(j, a)
    <3>1. j \in Nodes /\ a <= j /\ j <= x /\ ~Inside(j, a)
      BY <2>2
    <3>2. j # a /\ j # x
      BY <3>1, InsideSelf
    <3> QED
      BY <1>1, <3>1, <3>2
  <2> DEFINE U == {y \in Nodes : Inside(x, y) /\ Inside(y, a) /\ j < y}
  <2>4. x \in U
    BY <2>3, InsideSelf
  <2>5. PICK y \in U : \A z \in U : y <= z
    <3>1. U \in SUBSET Nat
      BY <1>1
    <3> HIDE DEF U
    <3> QED
      BY <2>4, <3>1, LeastNatural
  <2>6. y \in Nodes /\ y \in Nat /\ Inside(x, y) /\ Inside(y, a) /\ j < y
    BY <1>1, <2>5
  <2>7. y # a /\ y # Unit /\ Inside(src[y].up, a)
    <3>1. y # a /\ y # Unit
      BY <1>1, <2>3, <2>6
    <3> QED
      BY <1>2, <2>6, <3>1
  <2>8. src[y].up \in Nodes /\ src[y].up \in Nat /\ src[y].up < y /\ a <= src[y].up
    <3>1. src[y].up \in Nodes /\ src[y].up < y
      BY <1>1, <2>6, <2>7
    <3> QED
      BY <1>1, <2>7, <3>1, InsideNodes
  <2>9. Inside(x, src[y].up)
    <3>1. Inside(y, src[y].up)
      BY <2>6, <2>8, InsideStep, InsideSelf
    <3> QED
      BY <2>6, <3>1, InsideTrans
  <2>10. src[y].up < j
    <3>1. src[y].up # j
      BY <2>3, <2>7
    <3>2. ~(j < src[y].up)
      <4>1. ASSUME j < src[y].up PROVE FALSE
        <5>1. src[y].up \in U
          BY <2>7, <2>8, <2>9, <4>1
        <5> HIDE DEF U
        <5> QED
          BY <2>5, <2>6, <2>8, <5>1
      <4> QED
        BY <4>1
    <3> QED
      BY <2>3, <2>8, <3>1, <3>2
  <2>11. src[y].up <= src[j].up
    BY <1>1, <2>3, <2>6, <2>10
  <2>12. j # Unit /\ src[j].up \in Nodes /\ src[j].up < j /\ src[j].up \in Nat
    <3>1. j # Unit
      BY <1>1, <2>3
    <3> QED
      BY <1>1, <2>3, <3>1
  <2>13. src[j].up \notin T
    <3> HIDE DEF T
    <3> QED
      BY <2>2, <2>3, <2>12
  <2>14. Inside(src[j].up, a)
    BY <2>3, <2>8, <2>11, <2>12, <2>13
  <2> QED
    BY <1>2, <2>3, <2>14
<1> QED
  BY <1>3

(* Siblings have nothing in common, and what is inside the earlier comes   *)
(* first.                                                                  *)
LEMMA Siblings ==
  ASSUME src \in Programs, NEW a \in Nodes, NEW b \in Nodes, a < b, src[a].up = src[b].up
  PROVE  /\ ~Inside(a, b) /\ ~Inside(b, a)
         /\ \A x \in Nodes : ~(Inside(x, a) /\ Inside(x, b))
         /\ \A x, y \in Nodes : Inside(x, a) /\ Inside(y, b) => x < y
<1>1. Nodes \in SUBSET Nat /\ \A j \in Nodes : j # Unit => src[j].up \in Nodes /\ src[j].up < j
      /\ src[Unit].up = Nil /\ Nil \notin Nodes
  BY Grown DEF Nil
<1>2. ~Inside(a, b)
  BY <1>1, InsideNodes
<1>3. ~Inside(b, a)
  <2>1. ASSUME Inside(b, a) PROVE FALSE
    <3>1. Inside(src[a].up, a)
      BY <1>1, <2>1, InsideStep
    <3>2. src[a].up \in Nodes
      BY <3>1, <1>1, InsideStep
    <3>3. a <= src[a].up
      BY <3>1, <3>2, InsideNodes
    <3>4. a # Unit
      <4>1. ASSUME a = Unit PROVE FALSE
        <5>1. src[a].up = src[Unit].up
          BY <4>1
        <5>2. src[a].up = Nil
          BY <1>1, <5>1
        <5> QED
          BY <1>1, <3>2, <5>2
      <4> QED
        BY <4>1
    <3>6. a \in Nat /\ src[a].up \in Nat
      BY <1>1, <3>2
    <3>5. src[a].up < a
      BY <1>1, <3>4
    <3> QED
      BY <3>3, <3>5, <3>6
  <2> QED
    BY <2>1
<1>4. ASSUME NEW x \in Nodes, Inside(x, a), Inside(x, b) PROVE FALSE
  BY <1>2, <1>3, <1>4, InsideBoth
<1>5. ASSUME NEW x \in Nodes, NEW y \in Nodes, Inside(x, a), Inside(y, b) PROVE x < y
  <2>1. b <= y /\ a \in Nat /\ b \in Nat /\ x \in Nat /\ y \in Nat
    BY <1>1, <1>5, InsideNodes
  <2>2. ASSUME y <= x PROVE FALSE
    <3>1. Inside(y, a)
      BY <1>5, <2>1, <2>2, InsideBetween
    <3> QED
      BY <1>4, <1>5, <3>1
  <2> QED
    BY <2>1, <2>2
<1> QED
  BY <1>2, <1>3, <1>4, <1>5
-----------------------------------------------------------------------------
(* The nodes that have a scope of their own.                               *)
Scoping(n) == src[n].is \in {"Block", "Function", "CompUnit"}

(* The container of a node is its parent or the container of that.         *)
LEMMA ContainerUp ==
  ASSUME src \in Programs, NEW n \in Nodes, n # Unit
  PROVE  Container(n) = IF Scoping(src[n].up) THEN src[n].up ELSE Container(src[n].up)
<1> DEFINE S(k) == {0} \cup {m \in Nodes : m # k /\ Inside(k, m) /\ Scoping(m)}
           p == src[n].up
<1>1. p \in Nodes /\ p < n /\ p \in Nat /\ n \in Nat
  BY Grown
<1>2. \A m \in Nodes : m # n /\ Inside(n, m) <=> Inside(p, m)
  <2>1. \A m \in Nodes : Inside(n, m) <=> n = m \/ Inside(p, m)
    BY InsideStep
  <2>2. ~Inside(p, n)
    BY <1>1, InsideNodes
  <2> QED
    BY <2>1, <2>2
<1>3. Inside(p, p)
  BY <1>1, InsideSelf
<1>4. \A k : Container(k) = Max(S(k))
  BY DEF Container, Scoping
<1>5. CASE Scoping(p)
  <2>1. p \in S(n) /\ \A m \in S(n) : m \in Nat /\ m <= p
    <3>1. ASSUME NEW m \in Nodes, Inside(p, m) PROVE m \in Nat /\ m <= p
      BY <1>1, <3>1, InsideNodes
    <3> QED
      BY <1>1, <1>2, <1>3, <1>5, <3>1
  <2> HIDE DEF S
  <2>2. Max(S(n)) = p
    <3>1. p >= p /\ \A m \in S(n) : p >= m
      BY <1>1, <2>1
    <3>2. \A x \in S(n) : (\A m \in S(n) : x >= m) => x = p
      BY <1>1, <2>1
    <3> QED
      BY <2>1, <3>1, <3>2 DEF Max
  <2> QED
    BY <1>4, <1>5, <2>2
<1>6. CASE ~Scoping(p)
  <2>1. S(n) = S(p)
    <3>1. ASSUME NEW m \in Nodes, Scoping(m) PROVE m # n /\ Inside(n, m) <=> m # p /\ Inside(p, m)
      BY <1>2, <1>6, <3>1
    <3> QED
      BY <3>1
  <2> HIDE DEF S
  <2> QED
    BY <1>4, <1>6, <2>1
<1> QED
  BY <1>5, <1>6

(* It is the innermost scope around the node.                              *)
Holds(c, n) ==
  /\ c \in Nodes /\ Scoping(c) /\ Inside(n, c) /\ c # n
  /\ \A v \in Nodes : Scoping(v) /\ Inside(n, v) /\ v # n => Inside(c, v)

(* The container is the innermost block, function or CompUnit around a     *)
(* node.                                                                   *)
LEMMA ContainerHolds ==
  ASSUME src \in Programs, NEW n \in Nodes, n # Unit
  PROVE  Holds(Container(n), n)
<1> DEFINE T == {k \in Nodes : k # Unit /\ ~Holds(Container(k), k)}
<1>1. ASSUME NEW k \in T PROVE src[k].up \in T
  <2> DEFINE p == src[k].up
  <2>1. k \in Nodes /\ k # Unit /\ ~Holds(Container(k), k) /\ p \in Nodes /\ p # k
    <3>1. p \in Nodes /\ p < k /\ k \in Nat
      BY Grown
    <3> QED
      BY <3>1
  <2>2. Inside(k, p) /\ \A v \in Nodes : Inside(k, v) /\ v # k => Inside(p, v)
    BY <2>1, InsideStep, InsideSelf
  <2>3. Container(k) = IF Scoping(p) THEN p ELSE Container(p)
    BY <2>1, ContainerUp
  <2>4. ~Scoping(p)
    <3>1. ASSUME Scoping(p) PROVE FALSE
      <4> HIDE DEF p
      <4> QED
        BY <2>1, <2>2, <2>3, <3>1 DEF Holds
    <3> QED
      BY <3>1
  <2>5. p # Unit
    <3>1. Scoping(Unit)
      BY Grown DEF Scoping, Is
    <3> HIDE DEF p
    <3> QED
      BY <2>4, <3>1
  <2>6. ~Holds(Container(p), p)
    <3>1. ASSUME Holds(Container(p), p) PROVE FALSE
      <4>1. Inside(k, Container(p))
        BY <2>1, <2>2, <3>1, InsideTrans DEF Holds
      <4>2. Container(p) # k
        <5>1. ~Inside(p, k)
          <6>1. p < k /\ k \in Nat /\ p \in Nat
            BY <2>1, Grown
          <6> QED
            BY <2>1, <6>1, InsideNodes
        <5> QED
          BY <3>1, <5>1 DEF Holds
      <4>3. ASSUME NEW v \in Nodes, Scoping(v), Inside(k, v), v # k PROVE Inside(Container(p), v)
        <5>1. Inside(p, v) /\ v # p
          BY <2>2, <2>4, <4>3
        <5> QED
          BY <3>1, <4>3, <5>1 DEF Holds
      <4> HIDE DEF p
      <4> QED
        BY <2>1, <2>3, <2>4, <3>1, <4>1, <4>2, <4>3 DEF Holds
    <3> QED
      BY <3>1
  <2> QED
    BY <2>1, <2>5, <2>6
<1>2. T = {}
  <2>1. T \in SUBSET Nodes
    OBVIOUS
  <2> HIDE DEF T
  <2> QED
    BY <1>1, <2>1, Upwards
<1> QED
  BY <1>2

(* The children of a definition are its dimensions and its initial value,  *)
(* which is an expression and comes after them.                            *)
LEMMA DefinitionParts ==
  ASSUME src \in Programs, NEW n \in Nodes, src[n].is \in Definitions
  PROVE  /\ \A k \in Nodes : src[k].up = n => k = array_info(n) \/ k = init_expr(n)
         /\ array_info(n) # Nil =>
              array_info(n) \in Nodes /\ src[array_info(n)].up = n /\ Is(array_info(n), "ArrayInfo")
         /\ init_expr(n) # Nil =>
              init_expr(n) \in Nodes /\ src[init_expr(n)].up = n /\ src[init_expr(n)].is \in Expressions
         /\ array_info(n) # Nil /\ init_expr(n) # Nil => array_info(n) < init_expr(n)
         /\ array_info(n) = Nil \/ array_info(n) # init_expr(n)
         /\ array_info(n) \in Nodes \cup {Nil} /\ init_expr(n) \in Nodes \cup {Nil}
<1> DEFINE k == Kids(n)
<1>1. /\ k \in Seq(Nodes) /\ Len(k) \in Nat /\ DOMAIN k = 1 .. Len(k) /\ Len(k) <= 2
      /\ \A i \in DOMAIN k : k[i] \in Nodes
      /\ Len(k) = 2 => Is(k[1], "ArrayInfo") /\ ~Is(k[2], "ArrayInfo") /\ k[1] < k[2]
      /\ \A m \in Nodes : src[m].up = n <=> \E i \in DOMAIN k : m = k[i]
  <2>1. k \in Seq(Nodes) /\ Range(k) = {m \in Nodes : src[m].up = n} /\ Shaped(src, n)
        /\ \A i, j \in DOMAIN k : i < j => k[i] < k[j]
    BY Grown
  <2>2. Len(k) \in Nat /\ DOMAIN k = 1 .. Len(k) /\ \A i \in DOMAIN k : k[i] \in Nodes
    BY <2>1
  <2>3. Len(k) <= 2 /\ (Len(k) = 2 => Is(k[1], "ArrayInfo") /\ ~Is(k[2], "ArrayInfo"))
    BY <2>1, <2>2 DEF Shaped, Kids, Is
  <2>4. \A m \in Nodes : src[m].up = n <=> \E i \in DOMAIN k : m = k[i]
    <3> HIDE DEF k
    <3> QED
      BY <2>1, <2>2 DEF Range
  <2>5. Len(k) = 2 => k[1] < k[2]
    <3> HIDE DEF k
    <3> QED
      BY <2>1, <2>2
  <2> QED
    BY <2>1, <2>2, <2>3, <2>4, <2>5
<1>2. Nil \notin Nodes /\ \A m \in Nodes : m \in Nat
  BY Grown DEF Nil
<1>3. \A m \in Nodes : src[m].up = n => Is(m, "ArrayInfo") \/ src[m].is \in Expressions
  <2>1. ASSUME NEW m \in Nodes, src[m].up = n PROVE Is(m, "ArrayInfo") \/ src[m].is \in Expressions
    <3>1. m # Unit
      BY <1>2, <2>1, Grown
    <3>2. Under(src[m].is, src[n].is)
      BY <2>1, <3>1, Grown
    <3> QED
      BY <3>2 DEF Under, Definitions, Is, Statements, Declarations
  <2> QED
    BY <2>1
<1>4. array_info(n) = IF k # << >> /\ Is(k[1], "ArrayInfo") THEN k[1] ELSE Nil
  BY DEF array_info
<1>5. init_expr(n) = IF k # << >> /\ ~Is(k[Len(k)], "ArrayInfo") THEN k[Len(k)] ELSE Nil
  BY DEF init_expr, Last
<1> HIDE DEF k
<1>6. CASE Len(k) = 0
  <2>1. k = << >>
    BY <1>1, <1>6
  <2> QED
    BY <1>1, <1>4, <1>5, <1>6, <2>1
<1>7. CASE Len(k) = 1
  <2>1. k # << >> /\ DOMAIN k = {1} /\ k[1] \in Nodes
    <3>1. DOMAIN k = {1}
      BY <1>1, <1>7
    <3> QED
      BY <1>1, <1>7, <3>1
  <2>2. \A m \in Nodes : src[m].up = n <=> m = k[1]
    BY <1>1, <2>1
  <2>3. CASE Is(k[1], "ArrayInfo")
    <3>1. array_info(n) = k[1] /\ init_expr(n) = Nil
      BY <1>4, <1>5, <1>7, <2>1, <2>3
    <3> QED
      BY <1>2, <2>1, <2>2, <2>3, <3>1
  <2>4. CASE ~Is(k[1], "ArrayInfo")
    <3>1. array_info(n) = Nil /\ init_expr(n) = k[1]
      BY <1>4, <1>5, <1>7, <2>1, <2>4
    <3> QED
      BY <1>2, <1>3, <2>1, <2>2, <2>4, <3>1
  <2> QED
    BY <2>3, <2>4
<1>8. CASE Len(k) = 2
  <2>1. k # << >> /\ DOMAIN k = {1, 2} /\ k[1] \in Nodes /\ k[2] \in Nodes
    <3>1. DOMAIN k = {1, 2}
      BY <1>1, <1>8
    <3>2. k[1] \in Nodes /\ k[2] \in Nodes
      BY <1>1, <3>1
    <3> QED
      BY <1>8, <3>1, <3>2
  <2>2. \A m \in Nodes : src[m].up = n <=> m = k[1] \/ m = k[2]
    <3>1. ASSUME NEW m \in Nodes, src[m].up = n PROVE m = k[1] \/ m = k[2]
      BY <1>1, <2>1, <3>1
    <3>2. src[k[1]].up = n /\ src[k[2]].up = n
      BY <1>1, <2>1
    <3> QED
      BY <3>1, <3>2
  <2>3. array_info(n) = k[1] /\ init_expr(n) = k[2] /\ k[1] < k[2]
    BY <1>1, <1>4, <1>5, <1>8, <2>1
  <2>4. k[1] # k[2]
    BY <1>2, <2>1, <2>3
  <2>5. Is(k[1], "ArrayInfo") /\ src[k[2]].is \in Expressions
    BY <1>1, <1>3, <1>8, <2>1, <2>2
  <2> QED
    BY <1>2, <2>1, <2>2, <2>3, <2>4, <2>5
<1> QED
  BY <1>1, <1>6, <1>7, <1>8
-----------------------------------------------------------------------------
(* Expressions have nothing but expressions and parameters in them, and no *)
(* scope is inside a declaration.                                          *)
LEMMA InsideClass ==
  ASSUME src \in Programs, NEW C, NEW m \in Nodes, src[m].is \in C,
         \A class, parent : Under(class, parent) /\ parent \in C => class \in C,
         NEW n \in Nodes, Inside(n, m)
  PROVE  src[n].is \in C
<1> DEFINE T == {k \in Nodes : Inside(k, m) /\ src[k].is \notin C}
<1>1. ASSUME NEW k \in T PROVE src[k].up \in T
  <2>1. k \in Nodes /\ k # m /\ Inside(src[k].up, m)
    BY InsideStep
  <2>2. k # Unit
    BY <2>1, Grown, InsideStep
  <2>3. src[k].up \in Nodes /\ Under(src[k].is, src[src[k].up].is)
    BY <2>1, <2>2, Grown
  <2>4. src[src[k].up].is \notin C
    BY <2>3
  <2> QED
    BY <2>1, <2>3, <2>4
<1>2. T = {}
  <2>1. T \in SUBSET Nodes
    OBVIOUS
  <2> HIDE DEF T
  <2> QED
    BY <1>1, <2>1, Upwards
<1> QED
  BY <1>2

(* Expressions have only expressions and parameters in them.               *)
LEMMA InsideExpression ==
  ASSUME src \in Programs, NEW m \in Nodes, src[m].is \in Expressions, NEW n \in Nodes, Inside(n, m)
  PROVE  src[n].is \in Expressions \cup {"CallParam"}
<1> DEFINE C == Expressions \cup {"CallParam"}
<1>1. ASSUME NEW class, NEW parent, Under(class, parent), parent \in C PROVE class \in C
  BY <1>1 DEF Under, Expressions, Definitions, Declarations, Statements
<1>2. src[m].is \in C
  OBVIOUS
<1> HIDE DEF C
<1>3. src[n].is \in C
  BY <1>1, <1>2, InsideClass
<1> QED
  BY <1>3 DEF C

(* No scope is inside a declaration.                                       *)
LEMMA InsideDeclaration ==
  ASSUME src \in Programs, NEW m \in Nodes, src[m].is \in Declarations, NEW n \in Nodes, Inside(n, m)
  PROVE  ~Scoping(n)
<1> DEFINE C == Declarations \cup Definitions \cup {"ArrayInfo", "CallParam"} \cup Expressions
<1>1. ASSUME NEW class, NEW parent, Under(class, parent), parent \in C PROVE class \in C
  BY <1>1 DEF Under, Expressions, Definitions, Declarations, Statements
<1>2. src[m].is \in C
  OBVIOUS
<1> HIDE DEF C
<1>3. src[n].is \in C
  BY <1>1, <1>2, InsideClass
<1> QED
  BY <1>3 DEF C, Scoping, Expressions, Definitions, Declarations

(* Every node but the CompUnit is inside one of the items of the file, and *)
(* what a global declaration defines is in the CompUnit's scope.           *)
LEMMA InsideItem ==
  ASSUME src \in Programs, NEW n \in Nodes, n # Unit
  PROVE  \E k \in Range(Kids(Unit)) : k \in Nodes /\ src[k].up = Unit /\ Inside(n, k)
<1>1. Inside(n, Unit) /\ Unit \in Nodes /\ Range(Kids(Unit)) = {k \in Nodes : src[k].up = Unit}
  BY InsideUnit, Grown
<1> QED
  BY <1>1, InsideChild

(* The scope of everything in a global declaration is the CompUnit's.      *)
LEMMA GlobalContainer ==
  ASSUME src \in Programs, NEW k \in Nodes, src[k].up = Unit, src[k].is \in Declarations,
         NEW n \in Nodes, Inside(n, k)
  PROVE  Container(n) = Unit
<1>1. k # Unit /\ Unit \in Nodes
  BY Grown DEF Unit, Nil
<1>2. n # Unit
  <2>1. ~Inside(Unit, k)
    <3>1. k \in Nat /\ Unit < k
      BY <1>1, Grown DEF Unit
    <3> QED
      BY <3>1, <1>1, InsideNodes DEF Unit
  <2> QED
    BY <2>1
<1>3. Holds(Container(n), n)
  BY <1>2, ContainerHolds
<1>4. Inside(Container(n), k) \/ Inside(k, Container(n))
  BY <1>3, InsideBoth DEF Holds
<1>5. ~Inside(Container(n), k)
  BY <1>3, InsideDeclaration DEF Holds
<1>6. Container(n) # k
  BY <1>3, <1>5, InsideSelf DEF Holds
<1>7. Inside(Unit, Container(n))
  BY <1>4, <1>5, <1>6, InsideStep
<1>8. Inside(Container(n), Unit)
  BY <1>3, InsideUnit DEF Holds
<1>9. Container(n) \in Nat /\ Container(n) <= Unit /\ Unit <= Container(n)
  BY <1>1, <1>3, <1>7, <1>8, InsideNodes DEF Holds
<1> QED
  BY <1>9 DEF Unit
-----------------------------------------------------------------------------
(* Scopes.  Only what is in the table is found, and all of it.             *)
LEMMA HereIs ==
  ASSUME src \in Programs, TableTyped(table), NEW s, NEW map, NEW name
  PROVE  /\ Here(s, map, name) # Nil =>
              \E e \in table : e.scope = s /\ e.map = map /\ src[e.def].name = name /\ e.def = Here(s, map, name)
         /\ Here(s, map, name) = Nil =>
              ~\E e \in table : e.scope = s /\ e.map = map /\ src[e.def].name = name
<1> DEFINE found == {e \in table : e.scope = s /\ e.map = map /\ src[e.def].name = name}
           c == CHOOSE e \in found : TRUE
<1>1. Here(s, map, name) = IF found = {} THEN Nil ELSE c.def
  BY DEF Here
<1>2. ASSUME found # {} PROVE c \in found
  <2> HIDE DEF found
  <2> QED
    BY <1>2
<1>3. \A e \in found : e.def # Nil
  BY Grown DEF TableTyped, Nil
<1>4. CASE found = {}
  BY <1>1, <1>4
<1>5. CASE found # {}
  <2>1. c \in found /\ c.def # Nil /\ Here(s, map, name) = c.def
    <3> HIDE DEF found, c
    <3> QED
      BY <1>1, <1>2, <1>3, <1>5 DEF c
  <2>2. c \in table /\ c.scope = s /\ c.map = map /\ src[c.def].name = name
    <3> HIDE DEF c
    <3> QED
      BY <2>1
  <2> HIDE DEF found, c
  <2> QED
    BY <2>1, <2>2
<1> QED
  BY <1>4, <1>5

(* A scope's definition of a name is in one of its three maps, and there   *)
(* is none only if it is in none of them.                                  *)
LEMMA DefinitionIs ==
  ASSUME NEW s, NEW name
  PROVE  /\ Definition(s, name) = Here(s, "functions", name) \/ Definition(s, name) = Here(s, "constants", name)
              \/ Definition(s, name) = Here(s, "variables", name)
         /\ Definition(s, name) = Nil =>
              Here(s, "functions", name) = Nil /\ Here(s, "constants", name) = Nil
                /\ Here(s, "variables", name) = Nil
<1> DEFINE f == Here(s, "functions", name)
           c == Here(s, "constants", name)
           v == Here(s, "variables", name)
           d == Definition(s, name)
<1>1. d = CASE f # Nil -> f [] f = Nil /\ c # Nil -> c [] OTHER -> v
  BY DEF Definition
<1> HIDE DEF f, c, v, d
<1>2. f # Nil => d = f
  BY <1>1, Zenon
<1>3. f = Nil /\ c # Nil => d = c
  BY <1>1, Zenon
<1>4. f = Nil /\ c = Nil => d = v
  BY <1>1, Zenon
<1>5. (d = f \/ d = c \/ d = v) /\ (d = Nil => f = Nil /\ c = Nil /\ v = Nil)
  BY <1>2, <1>3, <1>4
<1> QED
  BY <1>5 DEF f, c, v, d

(* The look-up goes from a scope outwards and stops where it finds         *)
(* something.                                                              *)
Looks(g, v) ==
  g = [s \in Scopes |-> IF v[s] # Nil \/ node[s].outer = Nil THEN v[s] ELSE g[node[s].outer]]

(* A scope's outer scope is the container of its node, so that the search  *)
(* outwards ends.                                                          *)
LEMMA Outwards ==
  ASSUME src \in Programs, Outer(node)
  PROVE  /\ Scopes \in SUBSET Nat /\ Scopes \in SUBSET Nodes
         /\ \A s \in Scopes : node[s].outer # Nil =>
              /\ node[s].outer \in Scopes /\ node[s].outer < s
              /\ Holds(node[s].outer, s)
<1>1. Scopes \in SUBSET Nat /\ Scopes \in SUBSET Nodes
  BY Grown DEF Scopes
<1>2. ASSUME NEW s \in Scopes, node[s].outer # Nil
      PROVE  node[s].outer \in Scopes /\ node[s].outer < s /\ Holds(node[s].outer, s)
  <2>1. s \in Nodes /\ s # Unit /\ node[s].outer = Container(s) /\ node[Container(s)].outer # Unset
    BY <1>2 DEF Outer, Scopes
  <2>2. Holds(Container(s), s)
    BY <2>1, ContainerHolds
  <2>3. Container(s) \in Nodes /\ Container(s) <= s /\ Container(s) # s /\ Container(s) \in Nat /\ s \in Nat
    BY <2>1, <2>2, InsideNodes DEF Holds
  <2> QED
    BY <2>1, <2>2, <2>3 DEF Scopes
<1> QED
  BY <1>1, <1>2

(* The search that looks for v in one scope after another is defined.      *)
LEMMA LooksDefined ==
  ASSUME src \in Programs, Outer(node), NEW v
  PROVE  Looks(CHOOSE g : Looks(g, v), v)
<1> DEFINE stops == {s \in Scopes : v[s] # Nil \/ node[s].outer = Nil}
           next == [s \in Scopes |-> node[s].outer]
           drop == {}
<1>1. Scopes \in SUBSET Nat
  BY Outwards
<1>2. \A s \in Scopes \ stops : next[s] \in Scopes /\ next[s] < s
  BY Outwards
<1>3. PICK g : Climbs(g, Scopes, stops, drop, v, next)
  <2> HIDE DEF stops, next, drop
  <2> QED
    BY <1>1, <1>2, Climbing
<1>4. g = [s \in Scopes |-> g[s]]
  BY <1>3 DEF Climbs
<1>5. \A s \in Scopes : g[s] = IF v[s] # Nil \/ node[s].outer = Nil THEN v[s] ELSE g[node[s].outer]
  <2> SUFFICES ASSUME NEW s \in Scopes
               PROVE  g[s] = IF v[s] # Nil \/ node[s].outer = Nil THEN v[s] ELSE g[node[s].outer]
    OBVIOUS
  <2>1. g[s] = IF s \in stops \/ g[next[s]] \in drop THEN v[s] ELSE g[next[s]]
    <3> HIDE DEF stops, next, drop
    <3> QED
      BY <1>3 DEF Climbs
  <2>2. (s \in stops <=> v[s] # Nil \/ node[s].outer = Nil) /\ next[s] = node[s].outer /\ g[next[s]] \notin drop
    OBVIOUS
  <2> HIDE DEF stops, next, drop
  <2> QED
    BY <2>1, <2>2
<1>6. Looks(g, v)
  BY <1>4, <1>5 DEF Looks
<1> QED
  BY <1>6

(* It finds the value of the nearest scope that has one.                   *)
LEMMA LooksNear ==
  ASSUME src \in Programs, Outer(node), NEW v, NEW g, Looks(g, v), NEW s0 \in Scopes, g[s0] # Nil
  PROVE  \E u \in Scopes :
           /\ g[s0] = v[u] /\ Inside(s0, u)
           /\ \A w \in Nodes : Scoping(w) /\ Inside(s0, w) /\ Inside(w, u) /\ w # u => v[w] = Nil
<1> DEFINE P(s, u) == /\ g[s] = v[u] /\ Inside(s, u)
                      /\ \A w \in Nodes : Scoping(w) /\ Inside(s, w) /\ Inside(w, u) /\ w # u => v[w] = Nil
           T == {s \in Scopes : g[s] # Nil /\ ~\E u \in Scopes : P(s, u)}
<1>0. /\ Scopes \in SUBSET Nat /\ Scopes \in SUBSET Nodes
      /\ \A s \in Scopes : node[s].outer # Nil =>
           node[s].outer \in Scopes /\ node[s].outer < s /\ Holds(node[s].outer, s)
  BY Outwards
<1>1. ASSUME T # {} PROVE FALSE
  <2>1. T \in SUBSET Nat
    BY <1>0
  <2>2. PICK s \in T : \A r \in T : s <= r
    <3> HIDE DEF T
    <3> QED
      BY <1>1, <2>1, LeastNatural
  <2>3. s \in Scopes /\ s \in Nodes /\ s \in Nat /\ g[s] # Nil
    BY <1>0, <2>2
  <2>4. \A u \in Scopes : ~P(s, u)
    BY <2>2
  <2>5. g[s] = IF v[s] # Nil \/ node[s].outer = Nil THEN v[s] ELSE g[node[s].outer]
    BY <2>3 DEF Looks
  <2>6. CASE v[s] # Nil \/ node[s].outer = Nil
    <3>1. \A w \in Nodes : Inside(s, w) /\ Inside(w, s) => w = s
      <4>1. ASSUME NEW w \in Nodes, Inside(s, w), Inside(w, s) PROVE w = s
        <5>1. w <= s /\ s <= w /\ w \in Nat
          BY <2>3, <4>1, InsideNodes
        <5> QED
          BY <2>3, <5>1
      <4> QED
        BY <4>1
    <3>2. g[s] = v[s] /\ Inside(s, s)
      BY <2>3, <2>5, <2>6, InsideSelf
    <3>3. P(s, s)
      BY <3>1, <3>2
    <3> HIDE DEF P
    <3> QED
      BY <2>3, <2>4, <3>3
  <2>7. CASE ~(v[s] # Nil \/ node[s].outer = Nil)
    <3> DEFINE o == node[s].outer
    <3>1. g[s] = g[o] /\ v[s] = Nil /\ o \in Scopes /\ o < s /\ o \in Nat /\ Holds(o, s)
      BY <1>0, <2>3, <2>5, <2>7
    <3>2. o \notin T
      <4> HIDE DEF T, o
      <4> QED
        BY <2>2, <2>3, <3>1
    <3>3. PICK u \in Scopes : P(o, u)
      <4> HIDE DEF P, o
      <4> QED
        BY <2>3, <3>1, <3>2
    <3> HIDE DEF o
    <3>4. Inside(s, u)
      BY <2>3, <3>1, <3>3, InsideTrans DEF Holds
    <3>5. ASSUME NEW w \in Nodes, Scoping(w), Inside(s, w), Inside(w, u), w # u PROVE v[w] = Nil
      <4>1. CASE w = s
        BY <3>1, <4>1
      <4>2. CASE w # s
        <5>1. Inside(o, w)
          BY <3>1, <3>5, <4>2 DEF Holds
        <5> QED
          BY <3>3, <3>5, <5>1
      <4> QED
        BY <4>1, <4>2
    <3>6. P(s, u)
      BY <3>1, <3>3, <3>4, <3>5
    <3> HIDE DEF P
    <3> QED
      BY <2>4, <3>6
  <2> QED
    BY <2>6, <2>7
<1>2. s0 \notin T
  <2> HIDE DEF T
  <2> QED
    BY <1>1
<1> QED
  BY <1>2
-----------------------------------------------------------------------------
(* What an identifier means in a scope: an entry of its name in a scope    *)
(* around it, and none of the scopes between has an entry of the name.     *)
LEMMA FoundDefinition ==
  ASSUME src \in Programs, Outer(node), TableTyped(table), NEW s0 \in Scopes, NEW name,
         get_definition(s0, name) # Nil
  PROVE  \E e \in table :
           /\ get_definition(s0, name) = e.def /\ src[e.def].name = name /\ Inside(s0, e.scope)
           /\ \A o \in table : Scoping(o.scope) /\ src[o.def].name = name /\ Inside(s0, o.scope)
                                /\ Inside(o.scope, e.scope) => o.scope = e.scope
<1> DEFINE v == [s \in Nodes |-> Definition(s, name)]
           g == CHOOSE h : Looks(h, v)
           get == CHOOSE h : h = [s \in Scopes |-> IF Definition(s, name) # Nil \/ node[s].outer = Nil
                                                   THEN Definition(s, name) ELSE h[node[s].outer]]
<1>0. Scopes \in SUBSET Nodes
  BY Outwards
<1>1. Looks(g, v)
  <2> HIDE DEF v
  <2> QED
    BY LooksDefined
<1>2. g = [s \in Scopes |-> IF Definition(s, name) # Nil \/ node[s].outer = Nil
                            THEN Definition(s, name) ELSE g[node[s].outer]]
  <2>1. \A s \in Scopes : v[s] = Definition(s, name)
    BY <1>0
  <2> HIDE DEF v, g
  <2> QED
    BY <1>1, <2>1 DEF Looks
<1>3. get = [s \in Scopes |-> IF Definition(s, name) # Nil \/ node[s].outer = Nil
                              THEN Definition(s, name) ELSE get[node[s].outer]]
  <2> HIDE DEF g
  <2> QED
    BY <1>2
<1>4. Looks(get, v)
  <2>1. \A s \in Scopes : v[s] = Definition(s, name)
    BY <1>0
  <2> HIDE DEF v, get
  <2> QED
    BY <1>3, <2>1 DEF Looks
<1>5. get_definition(s0, name) = get[s0]
  BY DEF get_definition
<1>6. PICK u \in Scopes :
        /\ get[s0] = v[u] /\ Inside(s0, u)
        /\ \A w \in Nodes : Scoping(w) /\ Inside(s0, w) /\ Inside(w, u) /\ w # u => v[w] = Nil
  <2> HIDE DEF v, get
  <2> QED
    BY <1>4, <1>5, LooksNear
<1> HIDE DEF g, get
<1>7. Definition(u, name) # Nil /\ get_definition(s0, name) = Definition(u, name)
  BY <1>0, <1>5, <1>6
<1>8. PICK e \in table : e.scope = u /\ src[e.def].name = name /\ e.def = Definition(u, name)
  <2>1. PICK map \in {"functions", "constants", "variables"} : Definition(u, name) = Here(u, map, name)
    BY DefinitionIs
  <2>2. Here(u, map, name) # Nil
    BY <1>7, <2>1
  <2> QED
    BY <2>1, <2>2, HereIs
<1>9. ASSUME NEW o \in table, Scoping(o.scope), src[o.def].name = name, Inside(s0, o.scope),
             Inside(o.scope, u), o.scope # u
      PROVE  FALSE
  <2>1. o.scope \in Nodes /\ o.map \in {"functions", "constants", "variables"}
    BY DEF TableTyped
  <2>2. Definition(o.scope, name) = Nil
    <3>1. v[o.scope] = Nil
      <4> HIDE DEF v
      <4> QED
        BY <1>6, <1>9, <2>1
    <3> QED
      BY <2>1, <3>1
  <2>3. Here(o.scope, o.map, name) = Nil
    BY <2>1, <2>2, DefinitionIs
  <2> QED
    BY <1>9, <2>3, HereIs
<1> QED
  BY <1>6, <1>7, <1>8, <1>9

(* What a call means: a function of the name.                              *)
LEMMA FoundFunction ==
  ASSUME src \in Programs, Outer(node), TableTyped(table), NEW s0 \in Scopes, NEW name,
         get_function(s0, name) # Nil
  PROVE  \E e \in table :
           /\ get_function(s0, name) = e.def /\ src[e.def].name = name /\ Inside(s0, e.scope)
           /\ e.map = "functions"
<1> DEFINE v == [s \in Nodes |-> Here(s, "functions", name)]
           g == CHOOSE h : Looks(h, v)
           get == CHOOSE h : h = [s \in Scopes |-> IF Here(s, "functions", name) # Nil \/ node[s].outer = Nil
                                                   THEN Here(s, "functions", name) ELSE h[node[s].outer]]
<1>0. Scopes \in SUBSET Nodes
  BY Outwards
<1>1. Looks(g, v)
  <2> HIDE DEF v
  <2> QED
    BY LooksDefined
<1>2. g = [s \in Scopes |-> IF Here(s, "functions", name) # Nil \/ node[s].outer = Nil
                            THEN Here(s, "functions", name) ELSE g[node[s].outer]]
  <2>1. \A s \in Scopes : v[s] = Here(s, "functions", name)
    BY <1>0
  <2> HIDE DEF v, g
  <2> QED
    BY <1>1, <2>1 DEF Looks
<1>3. get = [s \in Scopes |-> IF Here(s, "functions", name) # Nil \/ node[s].outer = Nil
                              THEN Here(s, "functions", name) ELSE get[node[s].outer]]
  <2> HIDE DEF g
  <2> QED
    BY <1>2
<1>4. Looks(get, v)
  <2>1. \A s \in Scopes : v[s] = Here(s, "functions", name)
    BY <1>0
  <2> HIDE DEF v, get
  <2> QED
    BY <1>3, <2>1 DEF Looks
<1>5. get_function(s0, name) = get[s0]
  BY DEF get_function
<1>6. PICK u \in Scopes : get[s0] = v[u] /\ Inside(s0, u)
  <2> HIDE DEF v, get
  <2> QED
    BY <1>4, <1>5, LooksNear
<1> HIDE DEF g, get
<1>7. Here(u, "functions", name) # Nil /\ get_function(s0, name) = Here(u, "functions", name)
  BY <1>0, <1>5, <1>6
<1>8. PICK e \in table : e.scope = u /\ src[e.def].name = name /\ e.def = Here(u, "functions", name)
                         /\ e.map = "functions"
  BY <1>7, HereIs
<1> QED
  BY <1>6, <1>7, <1>8
-----------------------------------------------------------------------------
(* Nothing is inside the null pointer, nor the other way round.            *)
LEMMA InsideNil ==
  ASSUME src \in Programs
  PROVE  /\ Nil \notin Nodes /\ \A m : ~Inside(Nil, m)
         /\ \A n \in Nodes \cup {Nil} : ~Inside(n, Nil)
<1>1. Nil \notin Nodes
  BY Grown DEF Nil
<1>2. \A m : ~Inside(Nil, m)
  BY InsideStep
<1>3. \A n \in Nodes \cup {Nil} : ~Inside(n, Nil)
  BY <1>1, InsideNodes
<1> QED
  BY <1>1, <1>2, <1>3

(* What a call has still to register is in the tree, and inside the call's *)
(* node.                                                                   *)
Fine(t) == t \in Tasks /\ (Defining(t) => src[t.node].is \in Definitions)

(* The part of the tree that a call has still to register is in the call's *)
(* node.                                                                   *)
LEMMA RootIs ==
  ASSUME src \in Programs, NEW t, Fine(t)
  PROVE  /\ t.node \in Nodes /\ Root(t) \in Nodes \cup {Nil}
         /\ t.call = "register" => Root(t) = t.node
         /\ t.call = "init" => Root(t) = init_expr(t.node)
         /\ t.call = "init" /\ Root(t) # Nil =>
              src[Root(t)].up = t.node /\ t.node # Root(t) /\ src[Root(t)].is \in Expressions
         /\ t.call \in {"add", "ignored"} => Root(t) = Nil
         /\ Root(t) # Nil => Inside(Root(t), t.node)
         /\ Defining(t) => ~Mark(t) /\ t.call # "register"
         /\ Mark(t) => t.call # "register"
<1>1. t.node \in Nodes /\ t.call \in {"register", "init", "add", "ignored"}
  BY DEF Fine, Tasks
<1>2. t.call = "register" => Root(t) = t.node
  BY DEF Root
<1>3. t.call = "init" => Root(t) = init_expr(t.node) /\ src[t.node].is \in Definitions
  BY DEF Root, Fine, Defining
<1>4. t.call \in {"add", "ignored"} => Root(t) = Nil
  BY DEF Root
<1>5. t.call = "init" /\ Root(t) # Nil =>
        /\ Root(t) \in Nodes /\ src[Root(t)].up = t.node /\ src[Root(t)].is \in Expressions
  BY <1>1, <1>3, DefinitionParts
<1>6. t.call = "init" /\ Root(t) # Nil => Inside(Root(t), t.node) /\ t.node # Root(t)
  <2>1. ASSUME t.call = "init", Root(t) # Nil PROVE Inside(Root(t), t.node) /\ t.node # Root(t)
    <3>1. Inside(Root(t), t.node)
      BY <1>1, <1>5, <2>1, InsideStep, InsideSelf
    <3>2. Root(t) # Unit
      BY <1>1, <1>5, <2>1, Grown, InsideNil
    <3>3. src[Root(t)].up < Root(t) /\ Root(t) \in Nat
      BY <1>5, <2>1, <3>2, Grown
    <3> QED
      BY <1>5, <2>1, <3>1, <3>3
  <2> QED
    BY <2>1
<1>7. t.call = "register" => Inside(Root(t), t.node)
  BY <1>1, <1>2, InsideSelf
<1>8. (Defining(t) => ~Mark(t) /\ t.call # "register") /\ (Mark(t) => t.call # "register")
  BY DEF Defining, Mark
<1> QED
  BY <1>1, <1>2, <1>3, <1>4, <1>5, <1>6, <1>7, <1>8

(* A call that another makes on the way: it has less to register.          *)
Refines(s, t) ==
  /\ Inside(s.node, t.node)
  /\ Root(s) # Nil => Inside(Root(s), Root(t)) /\ (t.call = "register" => Root(s) # t.node)
  /\ Defining(s) => s.node = t.node
  /\ Mark(s) => t.call = "init" /\ s.node = Root(t)
  /\ Defining(t) => s.node \in {t.node, Root(t)}

(* It has the same relation to the calls below.                            *)
LEMMA PairRefined ==
  ASSUME src \in Programs, NEW s, NEW t, NEW r, Fine(s), Fine(t), Fine(r), ~Mark(t),
         Refines(s, t), Pair(t, r)
  PROVE  Pair(s, r)
<1>1. /\ s.node \in Nodes /\ t.node \in Nodes /\ r.node \in Nodes
      /\ Root(s) \in Nodes \cup {Nil} /\ Root(t) \in Nodes \cup {Nil} /\ Root(r) \in Nodes \cup {Nil}
      /\ Root(r) # Nil => Inside(Root(r), r.node)
      /\ Defining(r) => ~Mark(r) /\ r.call # "register"
      /\ Defining(t) \/ t.call = "register"
      /\ t.call = "register" => Root(t) = t.node
      /\ r.call = "register" => Root(r) = r.node
      /\ Defining(r) \/ Mark(r) \/ r.call = "register"
  <2>1. t.call \in {"register", "init", "add", "ignored"} /\ r.call \in {"register", "init", "add", "ignored"}
    BY DEF Fine, Tasks
  <2> QED
    BY <2>1, RootIs DEF Mark, Defining
<1>2. \A x : Inside(x, Root(s)) /\ x \in Nodes \cup {Nil} => Inside(x, Root(t))
  <2>1. ASSUME NEW x \in Nodes \cup {Nil}, Inside(x, Root(s)) PROVE Inside(x, Root(t))
    <3>1. Root(s) # Nil
      BY <2>1, InsideNil
    <3> QED
      BY <2>1, <3>1, InsideTrans DEF Refines
  <2> QED
    BY <2>1
<1>3. ~Inside(Root(t), Root(r)) /\ ~Inside(Root(r), Root(t))
  BY DEF Pair
<1>4. ~Inside(Root(s), Root(r))
  <2>1. ASSUME Inside(Root(s), Root(r)) PROVE FALSE
    <3>1. Root(s) # Nil
      BY <2>1, InsideNil
    <3>2. Inside(Root(s), Root(t))
      BY <3>1 DEF Refines
    <3> QED
      BY <1>1, <1>3, <2>1, <3>2, InsideBoth
  <2> QED
    BY <2>1
<1>5. ~Inside(Root(r), Root(s))
  BY <1>1, <1>2, <1>3
<1>6. Defining(s) => ~Inside(s.node, Root(r))
  BY <1>1, <1>3 DEF Refines, Pair
<1>7. Defining(r) => ~Inside(r.node, Root(s)) /\ Inside(s.node, r.node)
  BY <1>1, <1>2, InsideTrans DEF Refines, Pair
<1>8. Mark(s) => Off(r, s.node)
  <2>1. ASSUME Mark(s) PROVE Off(r, s.node)
    <3>1. t.call = "init" /\ s.node = Root(t)
      BY <2>1 DEF Refines
    <3>2. ~Inside(r.node, Root(t))
      BY <1>1, <1>3, <3>1 DEF Pair
    <3> QED
      BY <1>3, <3>1, <3>2 DEF Off
  <2> QED
    BY <2>1
<1>9. Mark(r) => ~Inside(r.node, Root(s))
  <2>1. ASSUME Mark(r), Inside(r.node, Root(s)) PROVE FALSE
    <3>1. Inside(r.node, Root(t))
      BY <1>1, <1>2, <2>1
    <3>2. t.call = "register" /\ t.node = r.node
      BY <2>1, <3>1 DEF Pair
    <3>3. Root(s) # Nil /\ Root(s) \in Nodes
      BY <1>1, <2>1, InsideNil
    <3>4. Root(s) # t.node /\ Inside(Root(s), t.node)
      BY <1>1, <3>2, <3>3 DEF Refines
    <3>5. t.node <= Root(s) /\ Root(s) <= t.node /\ t.node \in Nat /\ Root(s) \in Nat
      BY <1>1, <2>1, <3>2, <3>3, <3>4, InsideNodes
    <3> QED
      BY <3>4, <3>5
  <2> QED
    BY <2>1
<1>10. ASSUME NEW d \in Nodes, ToDefine(s, d) PROVE ToDefine(t, d)
  <2>1. CASE Inside(d, Root(s))
    BY <1>2, <1>10, <2>1 DEF ToDefine
  <2>2. CASE Defining(s) /\ s.node = d
    <3>1. t.node = d
      BY <2>2 DEF Refines
    <3>2. t.call = "register" => Inside(d, Root(t))
      BY <1>1, <3>1, InsideSelf
    <3> QED
      BY <1>1, <1>10, <3>1, <3>2 DEF ToDefine
  <2> QED
    BY <1>10, <2>1, <2>2 DEF ToDefine
<1>11. \A d, x \in Nodes : ToDefine(s, d) /\ Inside(x, Root(r)) => Before(d, x)
  BY <1>10 DEF Pair
<1>12. \A x, d \in Nodes : \A f \in Range(Kids(Unit)) :
         Inside(x, Root(s)) /\ Inside(d, Root(r)) /\ Inside(x, f) /\ Inside(d, f) => x < d
  BY <1>2 DEF Pair
<1> QED
  BY <1>4, <1>5, <1>6, <1>7, <1>8, <1>9, <1>11, <1>12 DEF Pair

(* And it keeps clear of what the other was clear of.                      *)
LEMMA OffRefined ==
  ASSUME src \in Programs, NEW s, NEW t, Fine(s), Fine(t), ~Mark(t), Refines(s, t), NEW a \in Nodes, Off(t, a)
  PROVE  Off(s, a)
<1>1. /\ s.node \in Nodes /\ t.node \in Nodes
      /\ Root(s) \in Nodes \cup {Nil} /\ Root(t) \in Nodes \cup {Nil}
      /\ Defining(t) \/ t.call = "register"
      /\ t.call = "register" => Root(t) = t.node
      /\ t.call = "init" /\ Root(t) # Nil => src[Root(t)].up = t.node
      /\ Defining(t) => t.call = "init" \/ Root(t) = Nil
  <2>1. t.call \in {"register", "init", "add", "ignored"}
    BY DEF Fine, Tasks
  <2> QED
    BY <2>1, RootIs DEF Mark, Defining
<1>2. ~Inside(a, Root(s))
  <2>1. ASSUME Inside(a, Root(s)) PROVE FALSE
    <3>1. Inside(Root(s), Root(t))
      BY <2>1, InsideNil DEF Refines
    <3> QED
      BY <2>1, <3>1, InsideTrans DEF Off
  <2> QED
    BY <2>1
<1>3. ~Inside(s.node, a)
  <2>1. ASSUME Inside(s.node, a) PROVE FALSE
    <3>1. Inside(a, t.node)
      BY <1>1, <2>1, InsideBoth DEF Refines, Off
    <3>2. CASE t.call = "register"
      BY <1>1, <3>1, <3>2 DEF Off
    <3>3. CASE Defining(t)
      <4>1. s.node = Root(t) /\ Root(t) # Nil
        BY <1>1, <2>1, <3>3, InsideNil DEF Refines, Off
      <4>2. src[Root(t)].up = t.node
        BY <1>1, <3>3, <4>1
      <4>3. Root(t) = a \/ Inside(t.node, a)
        BY <1>1, <2>1, <4>1, <4>2, InsideStep
      <4> QED
        BY <4>3, InsideSelf DEF Off
    <3> QED
      BY <1>1, <3>2, <3>3
  <2> QED
    BY <2>1
<1> QED
  BY <1>2, <1>3 DEF Off
-----------------------------------------------------------------------------
(* The calls ts in the place of the one on top of the stack.               *)
Onto(u, ts, st, S) ==
  /\ u \in Seq(S) /\ Len(ts) \in Nat /\ Len(st) \in Nat /\ 1 \in DOMAIN st
  /\ DOMAIN st = 1 .. Len(st) /\ DOMAIN ts = 1 .. Len(ts)
  /\ DOMAIN u = 1 .. Len(ts) + Len(st) - 1
  /\ \A i \in DOMAIN u : i <= Len(ts) => i \in DOMAIN ts /\ u[i] = ts[i]
  /\ \A i \in DOMAIN u : i > Len(ts) =>
       i - Len(ts) + 1 \in DOMAIN st /\ i - Len(ts) + 1 > 1 /\ u[i] = st[i - Len(ts) + 1]
  /\ \A i \in DOMAIN ts : i \in DOMAIN u /\ u[i] = ts[i]
  /\ \A j \in DOMAIN st : j > 1 => j + Len(ts) - 1 \in DOMAIN u /\ u[j + Len(ts) - 1] = st[j]

(* A call is replaced by others: the sequence that is left.                *)
LEMMA Pushed ==
  ASSUME NEW S, NEW st \in Seq(S), st # << >>, NEW ts \in Seq(S)
  PROVE  Onto(ts \o Tail(st), ts, st, S)
<1> DEFINE v == Tail(st)
           u == ts \o v
           m == Len(ts)
           n == Len(st)
<1>1. /\ v \in Seq(S) /\ m \in Nat /\ n \in Nat /\ n >= 1 /\ Len(v) = n - 1
      /\ DOMAIN st = 1 .. n /\ DOMAIN ts = 1 .. m
      /\ \A i \in 1 .. n - 1 : v[i] = st[i + 1]
  OBVIOUS
<1> HIDE DEF v
<1>2. /\ u \in Seq(S) /\ Len(u) = m + Len(v) /\ DOMAIN u = 1 .. m + Len(v)
      /\ \A i \in 1 .. m + Len(v) : u[i] = IF i <= m THEN ts[i] ELSE v[i - m]
  <2>1. u \in Seq(S) /\ Len(u) = Len(ts) + Len(v)
    BY <1>1, ConcatProperties
  <2>2. \A i \in 1 .. Len(ts) + Len(v) : u[i] = IF i <= Len(ts) THEN ts[i] ELSE v[i - Len(ts)]
    BY <1>1, ConcatProperties
  <2> HIDE DEF u
  <2> QED
    BY <2>1, <2>2
<1> HIDE DEF u, m, n
<1>3. DOMAIN u = 1 .. m + n - 1
  BY <1>1, <1>2
<1>4. \A i \in DOMAIN u : i <= m => i \in DOMAIN ts /\ u[i] = ts[i]
  BY <1>1, <1>2
<1>5. ASSUME NEW i \in DOMAIN u, i > m
      PROVE  i - m + 1 \in DOMAIN st /\ i - m + 1 > 1 /\ u[i] = st[i - m + 1]
  <2>1. i - m \in 1 .. n - 1 /\ i \in Nat
    BY <1>1, <1>3, <1>5
  <2>2. u[i] = v[i - m]
    BY <1>1, <1>2, <1>5, <2>1
  <2> QED
    BY <1>1, <2>1, <2>2
<1>6. \A i \in DOMAIN ts : i \in DOMAIN u /\ u[i] = ts[i]
  BY <1>1, <1>2, <1>3
<1>7. ASSUME NEW j \in DOMAIN st, j > 1
      PROVE  j + m - 1 \in DOMAIN u /\ u[j + m - 1] = st[j]
  <2>1. j + m - 1 \in DOMAIN u /\ j + m - 1 > m /\ j \in Nat
    BY <1>1, <1>3, <1>7
  <2>2. u[j + m - 1] = st[(j + m - 1) - m + 1]
    BY <1>5, <2>1
  <2>3. (j + m - 1) - m + 1 = j
    BY <1>1, <2>1
  <2> QED
    BY <2>1, <2>2, <2>3
<1>8. 1 \in DOMAIN st
  BY <1>1
<1>9. Onto(u, ts, st, S)
  BY <1>1, <1>2, <1>3, <1>4, <1>5, <1>6, <1>7, <1>8 DEF m, n, Onto
<1> QED
  BY <1>9 DEF u, v

(* The order of the stack, without what the calls refer to.                *)
Paired(st) == \A i, j \in DOMAIN st : i < j => Pair(st[i], st[j])
CaughtWithin(ts) ==
  \A i \in DOMAIN ts :
    (\E j \in DOMAIN ts : CaughtAt(ts, i, j)) \/ \A l \in DOMAIN ts : i <= l => ~Mark(ts[l])

Stacked(st, ans) ==
  /\ st \in Seq(Tasks) /\ \A i \in DOMAIN st : Fine(st[i])
  /\ Paired(st) /\ Caught(st) /\ Answered(st, ans)

(* The stack stays in order when the call on top, which is no mark, is     *)
(* replaced by calls for parts of what it was for.                         *)
LEMMA Replaced ==
  ASSUME src \in Programs, NEW ans, NEW st, Stacked(st, ans), st # << >>, ~Mark(st[1]),
         NEW ts \in Seq(Tasks), Paired(ts), CaughtWithin(ts),
         \A i \in DOMAIN ts : Fine(ts[i]) /\ Refines(ts[i], st[1])
  PROVE  Stacked(ts \o Tail(st), ans)
<1> DEFINE u == ts \o Tail(st)
           m == Len(ts)
<1>0. st \in Seq(Tasks)
  BY DEF Stacked
<1>1. /\ u \in Seq(Tasks) /\ m \in Nat /\ Len(st) \in Nat /\ 1 \in DOMAIN st
      /\ DOMAIN st = 1 .. Len(st) /\ DOMAIN ts = 1 .. m /\ DOMAIN u = 1 .. m + Len(st) - 1
      /\ \A i \in DOMAIN u : i <= m => i \in DOMAIN ts /\ u[i] = ts[i]
      /\ \A i \in DOMAIN u : i > m => i - m + 1 \in DOMAIN st /\ i - m + 1 > 1 /\ u[i] = st[i - m + 1]
      /\ \A i \in DOMAIN ts : i \in DOMAIN u /\ u[i] = ts[i]
      /\ \A j \in DOMAIN st : j > 1 => j + m - 1 \in DOMAIN u /\ u[j + m - 1] = st[j]
  <2> DEFINE S == Tasks
  <2> HIDE DEF S
  <2>1. st \in Seq(S) /\ ts \in Seq(S)
    BY <1>0 DEF S
  <2>2. Onto(u, ts, st, S)
    BY <2>1, Pushed
  <2> QED
    BY <2>2 DEF S, Onto
<1> HIDE DEF u, m
<1>2. \A i \in DOMAIN st : Fine(st[i])
  BY DEF Stacked
<1>3. \A i \in DOMAIN u : Fine(u[i])
  BY <1>1, <1>2
<1>4. ASSUME NEW i \in DOMAIN u, NEW j \in DOMAIN u, i < j PROVE Pair(u[i], u[j])
  <2>1. i \in Nat /\ j \in Nat
    BY <1>1
  <2>2. CASE j <= m
    <3>1. i \in DOMAIN ts /\ j \in DOMAIN ts /\ u[i] = ts[i] /\ u[j] = ts[j]
      BY <1>1, <1>4, <2>1, <2>2
    <3> QED
      BY <1>4, <3>1 DEF Paired
  <2>3. CASE i <= m /\ j > m
    <3>1. i \in DOMAIN ts /\ u[i] = ts[i]
      BY <1>1, <2>3
    <3>2. j - m + 1 \in DOMAIN st /\ j - m + 1 > 1 /\ u[j] = st[j - m + 1]
      BY <1>1, <2>3
    <3>3. Pair(st[1], u[j])
      BY <1>1, <3>2 DEF Paired, Stacked
    <3> QED
      BY <1>1, <1>2, <3>1, <3>2, <3>3, PairRefined
  <2>4. CASE i > m
    <3> DEFINE a == i - m + 1
               b == j - m + 1
    <3>1. a \in DOMAIN st /\ b \in DOMAIN st /\ u[i] = st[a] /\ u[j] = st[b] /\ a < b
      <4>1. m \in Nat /\ j > m
        BY <1>1, <1>4, <2>1, <2>4
      <4>2. a \in DOMAIN st /\ u[i] = st[a]
        BY <1>1, <2>4
      <4>3. b \in DOMAIN st /\ u[j] = st[b]
        BY <1>1, <4>1
      <4>4. a < b
        BY <1>4, <2>1, <4>1
      <4> QED
        BY <4>2, <4>3, <4>4
    <3> HIDE DEF a, b
    <3>2. Pair(st[a], st[b])
      <4>1. Paired(st)
        BY DEF Stacked
      <4> QED
        BY <3>1, <4>1 DEF Paired
    <3> QED
      BY <3>1, <3>2
  <2> QED
    BY <1>1, <2>1, <2>2, <2>3, <2>4
<1>5. ASSUME NEW a \in Nodes, ans[a] # "none", NEW i \in DOMAIN u PROVE Off(u[i], a)
  <2>1. \A j \in DOMAIN st : Off(st[j], a)
    BY <1>5 DEF Stacked, Answered
  <2>2. CASE i <= m
    BY <1>1, <1>2, <2>1, <2>2, OffRefined
  <2>3. CASE i > m
    BY <1>1, <2>1, <2>3
  <2> QED
    BY <1>1, <2>2, <2>3
<1>6. ASSUME NEW i \in DOMAIN u PROVE \E j \in DOMAIN u : CaughtAt(u, i, j)
  <2>1. ASSUME NEW k \in DOMAIN st, k > 1 PROVE \E j \in DOMAIN u : CaughtAt(u, k + m - 1, j)
    <3>1. PICK j \in DOMAIN st : CaughtAt(st, k, j)
      BY DEF Stacked, Caught
    <3>2. k <= j /\ Mark(st[j]) /\ Inside(st[k].node, st[j].node)
          /\ \A l \in DOMAIN st : k <= l /\ l < j => ~Mark(st[l])
      BY <3>1 DEF CaughtAt
    <3>3. /\ j + m - 1 \in DOMAIN u /\ u[j + m - 1] = st[j] /\ k + m - 1 <= j + m - 1
          /\ u[k + m - 1] = st[k]
      BY <1>1, <2>1, <3>2
    <3>4. ASSUME NEW l \in DOMAIN u, k + m - 1 <= l, l < j + m - 1 PROVE ~Mark(u[l])
      <4>0. l \in Nat /\ k \in Nat /\ j \in Nat /\ m \in Nat
        BY <1>1, <2>1, <3>4
      <4>1. l > m
        BY <2>1, <3>4, <4>0
      <4>2. l - m + 1 \in DOMAIN st /\ u[l] = st[l - m + 1] /\ k <= l - m + 1 /\ l - m + 1 < j
        <5>1. l - m + 1 \in DOMAIN st /\ u[l] = st[l - m + 1]
          BY <1>1, <4>1
        <5> QED
          BY <3>4, <4>0, <5>1
      <4> QED
        BY <3>2, <4>2
    <3>5. CaughtAt(u, k + m - 1, j + m - 1)
      BY <3>2, <3>3, <3>4 DEF CaughtAt
    <3> QED
      BY <3>3, <3>5
  <2>2. CASE i > m
    <3>1. i - m + 1 \in DOMAIN st /\ i - m + 1 > 1 /\ (i - m + 1) + m - 1 = i
      BY <1>1, <2>2
    <3>2. \E j \in DOMAIN u : CaughtAt(u, (i - m + 1) + m - 1, j)
      BY <2>1, <3>1
    <3> QED
      BY <3>1, <3>2
  <2>3. CASE i <= m /\ \E j \in DOMAIN ts : CaughtAt(ts, i, j)
    <3>1. PICK j \in DOMAIN ts : CaughtAt(ts, i, j)
      BY <2>3
    <3>2. i \in DOMAIN ts /\ u[i] = ts[i] /\ j \in DOMAIN u /\ u[j] = ts[j]
      BY <1>1, <2>3
    <3>3. ASSUME NEW l \in DOMAIN u, i <= l, l < j PROVE l \in DOMAIN ts /\ u[l] = ts[l]
      BY <1>1, <3>3
    <3>4. CaughtAt(u, i, j)
      BY <3>1, <3>2, <3>3 DEF CaughtAt
    <3> QED
      BY <3>2, <3>4
  <2>4. CASE i <= m /\ \A l \in DOMAIN ts : i <= l => ~Mark(ts[l])
    <3>1. i \in DOMAIN ts /\ u[i] = ts[i]
      BY <1>1, <2>4
    <3>2. PICK j \in DOMAIN st : CaughtAt(st, 1, j)
      BY <1>1 DEF Stacked, Caught
    <3>3. 1 <= j /\ Mark(st[j]) /\ Inside(st[1].node, st[j].node)
          /\ \A l \in DOMAIN st : 1 <= l /\ l < j => ~Mark(st[l])
      BY <3>2 DEF CaughtAt
    <3>4. j > 1
      BY <1>1, <3>3
    <3>5. j + m - 1 \in DOMAIN u /\ u[j + m - 1] = st[j] /\ i <= j + m - 1
      BY <1>1, <2>4, <3>4
    <3>6. Inside(u[i].node, st[j].node)
      <4>1. Inside(ts[i].node, st[1].node) /\ ts[i].node \in Nodes
        BY <3>1, RootIs DEF Refines
      <4> QED
        BY <3>1, <3>3, <4>1, InsideTrans
    <3>7. ASSUME NEW l \in DOMAIN u, i <= l, l < j + m - 1 PROVE ~Mark(u[l])
      <4>1. CASE l <= m
        BY <1>1, <2>4, <3>7, <4>1
      <4>2. CASE l > m
        <5>1. l - m + 1 \in DOMAIN st /\ u[l] = st[l - m + 1] /\ 1 <= l - m + 1 /\ l - m + 1 < j
          BY <1>1, <3>7, <4>2
        <5> QED
          BY <3>3, <5>1
      <4> QED
        BY <1>1, <4>1, <4>2
    <3>8. CaughtAt(u, i, j + m - 1)
      BY <3>3, <3>5, <3>6, <3>7 DEF CaughtAt
    <3> QED
      BY <3>5, <3>8
  <2> QED
    BY <1>1, <2>2, <2>3, <2>4 DEF CaughtWithin
<1>7. Stacked(u, ans)
  <2>1. Answered(u, ans)
    BY <1>5 DEF Stacked, Answered
  <2> QED
    BY <1>1, <1>3, <1>4, <1>6, <2>1 DEF Stacked, Paired, Caught
<1> QED
  BY <1>7 DEF u
-----------------------------------------------------------------------------
(* The walk goes on: the call on top of the stack does its part and leaves *)
(* the rest to others.                                                     *)
Touched(nd2, nd, t) ==
  /\ \A n \in Nodes : ~Inside(n, Root(t)) => nd2[n] = nd[n]
  /\ \A n \in Nodes : nd[n].outer # Unset => nd2[n].outer # Unset

(* The calls ts do what t leaves undone.                                   *)
Hands(ts, t, nd2) ==
  /\ \A i \in DOMAIN ts : Prepared(nd2, ts[i]) /\ Refines(ts[i], t)
  /\ Paired(ts) /\ CaughtWithin(ts)
  /\ \A n \in Nodes : Inside(n, Root(t)) =>
       \/ \E i \in DOMAIN ts : Inside(n, Root(ts[i]))
       \/ /\ Done(nd2, n)
          /\ src[n].is \in Definitions => \E i \in DOMAIN ts : Defining(ts[i]) /\ ts[i].node = n

(* The entries that t adds, and what they are known in.                    *)
Adds(ts, t, tb, tb2) ==
  /\ tb \subseteq tb2
  /\ tb2 = tb \/ (ts = << >> /\ \A e \in tb2 \ tb : Defining(t) /\ e.def = t.node)
  /\ Defining(t) => Entered(tb2, t.node) \/ \E i \in DOMAIN ts : Defining(ts[i]) /\ ts[i].node = t.node

(* The walk's stack is in order.                                           *)
LEMMA WalkingStacked ==
  ASSUME src \in Programs, NEW st, NEW ans, NEW tb, NEW nd, Walking(st, ans, tb, nd)
  PROVE  Stacked(st, ans)
BY DEF Walking, Stacked, Prepared, Fine, Paired

(* The walk goes on with the calls that the one on top has made, if that   *)
(* has handed over, done or entered everything it was for.                 *)
LEMMA WalkOn ==
  ASSUME src \in Programs, NEW st, NEW ans, NEW tb, NEW nd, Walking(st, ans, tb, nd),
         st # << >>, ~Mark(st[1]), NEW ts \in Seq(Tasks), NEW tb2, NEW nd2,
         Touched(nd2, nd, st[1]), Hands(ts, st[1], nd2), Adds(ts, st[1], tb, tb2)
  PROVE  Walking(ts \o Tail(st), ans, tb2, nd2)
<1> DEFINE u == ts \o Tail(st)
           m == Len(ts)
           t == st[1]
<1>0. st \in Seq(Tasks) /\ Stacked(st, ans) /\ \A i \in DOMAIN ts : Fine(ts[i])
  BY WalkingStacked DEF Walking, Hands, Prepared, Fine
<1>1. Onto(u, ts, st, Tasks)
  BY <1>0, Pushed
<1>2. Stacked(u, ans)
  BY <1>0, Replaced DEF Hands
<1> HIDE DEF u, m, t
<1>3. /\ m \in Nat /\ 1 \in DOMAIN st /\ DOMAIN st \subseteq Nat
      /\ \A i \in DOMAIN u : \/ i \in DOMAIN ts /\ u[i] = ts[i]
                             \/ \E j \in DOMAIN st : j > 1 /\ u[i] = st[j]
      /\ \A i \in DOMAIN ts : i \in DOMAIN u /\ u[i] = ts[i]
      /\ \A j \in DOMAIN st : j > 1 => \E i \in DOMAIN u : u[i] = st[j]
  <2>1. m \in Nat /\ 1 \in DOMAIN st /\ DOMAIN st \subseteq Nat /\ DOMAIN u \subseteq Nat
    BY <1>1 DEF Onto, m
  <2>2. \A i \in DOMAIN u : i <= m \/ i > m
    BY <2>1
  <2> QED
    BY <1>1, <2>1, <2>2 DEF Onto, m
<1>4. t = st[1] /\ Fine(t) /\ t.node \in Nodes
  BY <1>0, <1>3, RootIs DEF Stacked, t
<1>5. \A j \in DOMAIN st : j > 1 => Pair(t, st[j]) /\ Fine(st[j]) /\ Prepared(nd, st[j])
  BY <1>0, <1>3, <1>4 DEF Stacked, Paired, Walking
<1>6. ASSUME NEW n \in Nodes, ~Inside(n, Root(t)), Done(nd, n) PROVE Done(nd2, n)
  <2>1. nd2[n] = nd[n]
    BY <1>4, <1>6 DEF Touched
  <2> QED
    BY <1>6, <2>1 DEF Done
<1>7. ASSUME NEW i \in DOMAIN u PROVE Prepared(nd2, u[i])
  <2>1. CASE i \in DOMAIN ts /\ u[i] = ts[i]
    BY <2>1 DEF Hands
  <2>2. ASSUME NEW j \in DOMAIN st, j > 1, u[i] = st[j] PROVE Prepared(nd2, u[i])
    <3> DEFINE r == st[j]
    <3>1. Pair(t, r) /\ Prepared(nd, r) /\ Fine(r) /\ r.node \in Nodes /\ u[i] = r
      BY <1>5, <2>2, RootIs
    <3> HIDE DEF r
    <3>2. r.scope \in Nodes
      BY <3>1 DEF Fine, Tasks
    <3>3. nd[r.scope].outer # Unset => nd2[r.scope].outer # Unset
      BY <3>2 DEF Touched
    <3>4. Defining(r) => ~Inside(r.node, Root(t))
      BY <3>1 DEF Pair
    <3>5. Defining(r) => Done(nd2, r.node)
      BY <1>6, <3>1, <3>4 DEF Prepared
    <3> QED
      BY <3>1, <3>3, <3>5 DEF Prepared
  <2> QED
    BY <1>3, <2>1, <2>2
<1>8. EntriesBefore(u, tb2)
  <2> SUFFICES ASSUME NEW e \in tb2, NEW i \in DOMAIN u, NEW x \in Nodes, Inside(x, Root(u[i]))
               PROVE  Is(e.def, "Function") \/ Before(e.def, x)
    BY DEF EntriesBefore
  <2>1. CASE e \in tb
    <3>1. \A j \in DOMAIN st : Inside(x, Root(st[j])) => Is(e.def, "Function") \/ Before(e.def, x)
      BY <2>1 DEF Walking, EntriesBefore
    <3>2. CASE i \in DOMAIN ts /\ u[i] = ts[i]
      <4>1. Root(u[i]) # Nil
        BY InsideNil
      <4>2. Inside(Root(u[i]), Root(t))
        BY <1>4, <3>2, <4>1 DEF Hands, Refines
      <4>3. Inside(x, Root(t))
        BY <4>2, InsideTrans
      <4> QED
        BY <1>3, <1>4, <3>1, <4>3
    <3>3. CASE \E j \in DOMAIN st : j > 1 /\ u[i] = st[j]
      BY <3>1, <3>3
    <3> QED
      BY <1>3, <3>2, <3>3
  <2>2. CASE e \notin tb
    <3>1. ts = << >> /\ Defining(t) /\ e.def = t.node
      BY <1>4, <2>2 DEF Adds
    <3>2. PICK j \in DOMAIN st : j > 1 /\ u[i] = st[j]
      BY <1>3, <3>1
    <3>3. Pair(t, st[j]) /\ Inside(x, Root(st[j]))
      BY <1>5, <3>2
    <3>4. ToDefine(t, e.def) /\ e.def \in Nodes
      BY <1>4, <3>1 DEF ToDefine, Fine
    <3> QED
      BY <3>3, <3>4 DEF Pair
  <2> QED
    BY <2>1, <2>2
<1>9. Covered(u, ans, tb2, nd2)
  <2> SUFFICES ASSUME NEW n \in Nodes, InItem(n), ~LostIn(ans, n), ~\E i \in DOMAIN u : Inside(n, Root(u[i]))
               PROVE  /\ Done(nd2, n)
                      /\ src[n].is \in Definitions =>
                           (Entered(tb2, n) \/ \E i \in DOMAIN u : (Defining(u[i]) /\ u[i].node = n))
    BY DEF Covered
  <2>1. CASE Inside(n, Root(t))
    <3>1. ~\E i \in DOMAIN ts : Inside(n, Root(ts[i]))
      BY <1>3
    <3>2. /\ Done(nd2, n)
          /\ src[n].is \in Definitions => \E i \in DOMAIN ts : Defining(ts[i]) /\ ts[i].node = n
      BY <1>4, <2>1, <3>1 DEF Hands
    <3> QED
      BY <1>3, <3>2
  <2>2. CASE ~Inside(n, Root(t))
    <3>1. ~\E j \in DOMAIN st : Inside(n, Root(st[j]))
      <4>1. ASSUME NEW j \in DOMAIN st, Inside(n, Root(st[j])) PROVE FALSE
        <5>1. j # 1
          BY <1>4, <2>2, <4>1
        <5>2. j > 1
          BY <1>0, <1>3, <5>1
        <5> QED
          BY <1>3, <4>1, <5>2
      <4> QED
        BY <4>1
    <3>2. /\ Done(nd, n)
          /\ src[n].is \in Definitions =>
               (Entered(tb, n) \/ \E j \in DOMAIN st : (Defining(st[j]) /\ st[j].node = n))
      BY <3>1 DEF Walking, Covered
    <3>3. Done(nd2, n)
      BY <1>6, <2>2, <3>2
    <3>4. Entered(tb, n) => Entered(tb2, n)
      BY DEF Adds, Entered
    <3>5. ASSUME NEW j \in DOMAIN st, Defining(st[j]), st[j].node = n
          PROVE  Entered(tb2, n) \/ \E i \in DOMAIN u : (Defining(u[i]) /\ u[i].node = n)
      <4>1. CASE j = 1
        BY <1>3, <1>4, <3>5, <4>1 DEF Adds
      <4>2. CASE j # 1
        <5>1. j > 1
          BY <1>0, <4>2
        <5> QED
          BY <1>3, <3>5, <5>1
      <4> QED
        BY <4>1, <4>2
    <3> QED
      BY <3>2, <3>3, <3>4, <3>5
  <2> QED
    BY <2>1, <2>2
<1>10. Walking(u, ans, tb2, nd2)
  BY <1>2, <1>7, <1>8, <1>9 DEF Walking, Stacked, Paired
<1> QED
  BY <1>10 DEF u
-----------------------------------------------------------------------------
(* The walk goes back to the call that ignores a result: what the calls    *)
(* before it had to register is lost if the result is false.               *)
FirstMark(st, k) ==
  k \in DOMAIN st /\ Mark(st[k]) /\ \A l \in DOMAIN st : l < k => ~Mark(st[l])

(* The walk goes back to the first caller that ignores a result: what is   *)
(* left out is inside that caller's node, and lost if the result is false. *)
LEMMA WalkBack ==
  ASSUME src \in Programs, NEW st, NEW ans, NEW tb, NEW nd, Walking(st, ans, tb, nd),
         NEW k, FirstMark(st, k), NEW val \in {"true", "false"}, val = "false" \/ k = 1,
         NEW nd2, Touched(nd2, nd, st[1]),
         NEW st2, st2 = SubSeq(st, k + 1, Len(st))
  PROVE  Walking(st2, [ans EXCEPT ![st[k].node] = val], tb, nd2)
<1> DEFINE a == st[k].node
           ans2 == [ans EXCEPT ![a] = val]
<1>0. st \in Seq(Tasks) /\ Stacked(st, ans) /\ ans \in [Nodes -> {"none", "true", "false"}]
  BY WalkingStacked DEF Walking
<1>1. /\ k \in Nat /\ Len(st) \in Nat /\ DOMAIN st = 1 .. Len(st) /\ k \in 1 .. Len(st) /\ Mark(st[k])
      /\ 1 \in DOMAIN st
  BY <1>0 DEF FirstMark
<1>2. /\ st2 \in Seq(Tasks) /\ DOMAIN st2 = 1 .. Len(st) - k
      /\ \A i \in DOMAIN st2 : i + k \in DOMAIN st /\ i + k > k /\ st2[i] = st[i + k]
  <2>1. st2 \in Seq(Tasks) /\ Len(st2) = Len(st) - k /\ DOMAIN st2 = 1 .. Len(st2)
        /\ \A i \in 1 .. Len(st2) : st2[i] = st[k + 1 + i - 1]
    <3> DEFINE S == Tasks
    <3> HIDE DEF S
    <3>1. st \in Seq(S) /\ k + 1 \in 1 .. Len(st) + 1 /\ Len(st) \in k .. Len(st)
      BY <1>0, <1>1 DEF S
    <3>2. /\ st2 \in Seq(S)
          /\ Len(st2) = IF k + 1 <= Len(st) THEN Len(st) - (k + 1) + 1 ELSE 0
          /\ \A i \in 1 .. Len(st) - (k + 1) + 1 : st2[i] = st[k + 1 + i - 1]
      BY <3>1, SubSeqProperties
    <3>3. Len(st2) = Len(st) - k /\ Len(st) - (k + 1) + 1 = Len(st2)
      BY <1>1, <3>2
    <3>4. \A i \in 1 .. Len(st2) : st2[i] = st[k + 1 + i - 1]
      BY <3>2, <3>3
    <3>5. st2 \in Seq(Tasks) /\ DOMAIN st2 = 1 .. Len(st2)
      BY <3>2 DEF S
    <3> QED
      BY <3>3, <3>4, <3>5
  <2>2. DOMAIN st2 = 1 .. Len(st) - k
    BY <2>1
  <2>3. ASSUME NEW i \in DOMAIN st2 PROVE i + k \in DOMAIN st /\ i + k > k /\ st2[i] = st[i + k]
    <3>1. i \in Nat /\ k + 1 + i - 1 = i + k /\ i + k \in DOMAIN st /\ i + k > k
      BY <1>1, <2>2
    <3> QED
      BY <2>1, <3>1
  <2> QED
    BY <2>1, <2>2, <2>3
<1>3. \A j \in DOMAIN st : j > k => j - k \in DOMAIN st2 /\ st2[j - k] = st[j]
  <2>1. ASSUME NEW j \in DOMAIN st, j > k PROVE j - k \in DOMAIN st2 /\ st2[j - k] = st[j]
    <3>1. j - k \in DOMAIN st2 /\ (j - k) + k = j
      BY <1>1, <1>2, <2>1
    <3> QED
      BY <1>2, <3>1
  <2> QED
    BY <2>1
<1>4. \A i \in DOMAIN st : Fine(st[i]) /\ Prepared(nd, st[i])
  BY <1>0 DEF Stacked, Walking
<1>5. a \in Nodes /\ Ignorable(a)
  BY <1>1, <1>4, RootIs DEF Prepared
<1>6. ans[a] = "none"
  <2>1. ASSUME ans[a] # "none" PROVE FALSE
    <3>1. Off(st[k], a)
      BY <1>0, <1>1, <1>5, <2>1 DEF Stacked, Answered
    <3> QED
      BY <1>5, <3>1, InsideSelf DEF Off
  <2> QED
    BY <2>1
<1>7. \A n \in Nodes : ans2[n] = IF n = a THEN val ELSE ans[n]
  BY <1>0
<1>8. ans2 \in [Nodes -> {"none", "true", "false"}]
  BY <1>0
<1> HIDE DEF a, ans2
<1>9. \A n \in Nodes : LostIn(ans, n) => LostIn(ans2, n)
  BY <1>6, <1>7 DEF LostIn
<1>10. ASSUME val = "false", NEW n \in Nodes, Inside(n, a) PROVE LostIn(ans2, n)
  BY <1>5, <1>7, <1>10 DEF LostIn
(* Everything down to the mark is inside its node. *)
<1>11. ASSUME NEW l \in DOMAIN st, l <= k PROVE Inside(st[l].node, a)
  <2>1. PICK j \in DOMAIN st : CaughtAt(st, l, j)
    BY <1>0 DEF Stacked, Caught
  <2>2. /\ l \in Nat /\ j \in Nat /\ l <= j /\ Mark(st[j]) /\ Inside(st[l].node, st[j].node)
        /\ \A i \in DOMAIN st : l <= i /\ i < j => ~Mark(st[i])
    BY <1>1, <2>1 DEF CaughtAt
  <2>3. j = k
    <3>1. ~(j < k)
      BY <2>2 DEF FirstMark
    <3>2. ~(k < j)
      BY <1>1, <1>11, <2>2
    <3> QED
      BY <1>1, <2>2, <3>1, <3>2
  <2>4. st[j].node = a
    BY <2>3 DEF a
  <2> QED
    BY <2>2, <2>4
<1>12. \A i, j \in DOMAIN st2 : i < j => Pair(st2[i], st2[j])
  <2>1. ASSUME NEW i \in DOMAIN st2, NEW j \in DOMAIN st2, i < j PROVE Pair(st2[i], st2[j])
    <3>1. i + k \in DOMAIN st /\ j + k \in DOMAIN st /\ i + k < j + k
      BY <1>1, <1>2, <2>1
    <3>2. Pair(st[i + k], st[j + k])
      BY <1>0, <3>1 DEF Stacked, Paired
    <3> QED
      BY <1>2, <3>2
  <2> QED
    BY <2>1
<1>13. Caught(st2)
  <2> SUFFICES ASSUME NEW i \in DOMAIN st2 PROVE \E j \in DOMAIN st2 : CaughtAt(st2, i, j)
    BY DEF Caught
  <2>1. PICK j \in DOMAIN st : CaughtAt(st, i + k, j)
    BY <1>0, <1>2 DEF Stacked, Caught
  <2>2. i \in Nat /\ j \in Nat /\ i + k <= j /\ Mark(st[j]) /\ Inside(st[i + k].node, st[j].node)
        /\ \A l \in DOMAIN st : i + k <= l /\ l < j => ~Mark(st[l])
    BY <1>1, <1>2, <2>1 DEF CaughtAt
  <2>3. j > k /\ i <= j - k
    BY <1>1, <1>2, <2>2
  <2>4. j - k \in DOMAIN st2 /\ st2[j - k] = st[j] /\ st2[i] = st[i + k]
    BY <1>2, <1>3, <2>3
  <2>5. ASSUME NEW l \in DOMAIN st2, i <= l, l < j - k PROVE ~Mark(st2[l])
    <3>1. l + k \in DOMAIN st /\ i + k <= l + k /\ l + k < j /\ st2[l] = st[l + k]
      BY <1>1, <1>2, <2>2, <2>5
    <3> QED
      BY <2>2, <3>1
  <2>6. CaughtAt(st2, i, j - k)
    BY <2>2, <2>3, <2>4, <2>5 DEF CaughtAt
  <2> QED
    BY <2>4, <2>6
<1>14. ASSUME NEW b \in Nodes, ans2[b] # "none", NEW i \in DOMAIN st2
       PROVE  Ignorable(b) /\ Off(st2[i], b)
  <2>1. i + k \in DOMAIN st /\ i + k > k /\ st2[i] = st[i + k]
    BY <1>2
  <2>2. CASE b = a
    <3>1. Pair(st[k], st[i + k])
      BY <1>0, <1>1, <2>1 DEF Stacked, Paired
    <3>2. Off(st[i + k], a)
      BY <1>1, <3>1 DEF Pair, a
    <3> QED
      BY <1>5, <2>1, <2>2, <3>2
  <2>3. CASE b # a
    BY <1>0, <1>7, <1>14, <2>1, <2>3 DEF Stacked, Answered
  <2> QED
    BY <2>2, <2>3
<1>15. Answered(st2, ans2)
  <2>1. \A b \in Nodes : ans2[b] # "none" => Ignorable(b)
    BY <1>0, <1>5, <1>7 DEF Stacked, Answered
  <2> QED
    BY <1>14, <2>1 DEF Answered
<1>16. EntriesBefore(st2, tb)
  BY <1>2 DEF Walking, EntriesBefore
<1>17. ASSUME NEW i \in DOMAIN st2 PROVE Prepared(nd2, st2[i])
  <2> DEFINE r == st2[i]
  <2>1. i + k \in DOMAIN st /\ 1 < i + k /\ r = st[i + k] /\ 1 \in DOMAIN st
    BY <1>1, <1>2
  <2>2. Pair(st[1], r) /\ Prepared(nd, r) /\ r.node \in Nodes /\ r.scope \in Nodes
    BY <1>0, <1>4, <2>1 DEF Stacked, Paired, Fine, Tasks
  <2> HIDE DEF r
  <2>3. nd[r.scope].outer # Unset => nd2[r.scope].outer # Unset
    BY <2>2 DEF Touched
  <2>4. Defining(r) => nd2[r.node] = nd[r.node]
    BY <2>2 DEF Pair, Touched
  <2>5. Defining(r) => Done(nd2, r.node)
    BY <2>2, <2>4 DEF Prepared, Done
  <2>6. Prepared(nd2, r)
    BY <2>2, <2>3, <2>5 DEF Prepared
  <2> QED
    BY <2>6 DEF r
<1>18. Covered(st2, ans2, tb, nd2)
  <2> SUFFICES ASSUME NEW n \in Nodes, InItem(n), ~LostIn(ans2, n), ~\E i \in DOMAIN st2 : Inside(n, Root(st2[i]))
               PROVE  /\ Done(nd2, n)
                      /\ src[n].is \in Definitions =>
                           (Entered(tb, n) \/ \E i \in DOMAIN st2 : (Defining(st2[i]) /\ st2[i].node = n))
    BY DEF Covered
  <2>1. ASSUME NEW l \in DOMAIN st, Inside(n, Root(st[l])) PROVE FALSE
    <3>1. CASE l > k
      BY <1>3, <2>1, <3>1
    <3>2. CASE l <= k
      <4>1. Root(st[l]) # Nil /\ ~(l = k)
        BY <1>1, <1>4, <2>1, InsideNil, RootIs DEF Mark
      <4>2. val = "false"
        BY <1>1, <3>2, <4>1
      <4>3. Inside(n, st[l].node)
        BY <1>4, <2>1, <4>1, RootIs, InsideTrans
      <4>4. Inside(n, a)
        BY <1>11, <3>2, <4>3, InsideTrans
      <4> QED
        BY <1>10, <4>2, <4>4
    <3> QED
      BY <1>1, <3>1, <3>2
  <2>2. /\ Done(nd, n)
        /\ src[n].is \in Definitions =>
             (Entered(tb, n) \/ \E j \in DOMAIN st : (Defining(st[j]) /\ st[j].node = n))
    BY <1>9, <2>1 DEF Walking, Covered
  <2>3. nd2[n] = nd[n]
    BY <1>1, <2>1 DEF Touched
  <2>4. Done(nd2, n)
    BY <2>2, <2>3 DEF Done
  <2>5. ASSUME NEW l \in DOMAIN st, Defining(st[l]), st[l].node = n
        PROVE  \E i \in DOMAIN st2 : (Defining(st2[i]) /\ st2[i].node = n)
    <3>1. CASE l > k
      BY <1>3, <2>5, <3>1
    <3>2. CASE l <= k
      <4>1. l # k
        BY <1>1, <1>4, <2>5, RootIs
      <4>2. val = "false"
        BY <1>1, <3>2, <4>1
      <4> QED
        BY <1>10, <1>11, <2>5, <3>2, <4>2
    <3> QED
      BY <1>1, <3>1, <3>2
  <2> QED
    BY <2>2, <2>4, <2>5
<1>19. Walking(st2, ans2, tb, nd2)
  BY <1>2, <1>8, <1>12, <1>13, <1>15, <1>16, <1>17, <1>18 DEF Walking
<1> QED
  BY <1>19 DEF ans2, a
-----------------------------------------------------------------------------
(* The calls for children of a node, in their order.                       *)
LEMMA SiblingPair ==
  ASSUME src \in Programs, NEW a \in Nodes, NEW b \in Nodes, a < b, src[a].up = src[b].up,
         NEW s, NEW t, s.call = "register", s.node = a, Root(t) \in {b, Nil},
         Defining(t) => t.node = src[a].up, ~Mark(t)
  PROVE  Pair(s, t)
<1>1. /\ ~Inside(a, b) /\ ~Inside(b, a)
      /\ \A x \in Nodes : ~(Inside(x, a) /\ Inside(x, b))
      /\ \A x, y \in Nodes : Inside(x, a) /\ Inside(y, b) => x < y
  BY Siblings
<1>2. Root(s) = a /\ ~Defining(s) /\ ~Mark(s)
  BY DEF Root, Defining, Mark
<1>3. \A x \in Nodes \cup {Nil} : Inside(x, Root(t)) => Inside(x, b)
  BY InsideNil
<1>4. Nil \notin Nodes /\ ~Inside(Nil, a) /\ (\A x \in Nodes : ~Inside(x, Nil))
  BY InsideNil
<1>5. ~Inside(Root(s), Root(t)) /\ ~Inside(Root(t), Root(s))
  BY <1>1, <1>2, <1>4
<1>6. Defining(t) => ~Inside(t.node, Root(s)) /\ Inside(s.node, t.node)
  <2>1. ASSUME Defining(t) PROVE ~Inside(t.node, a) /\ Inside(a, t.node)
    <3>1. t.node = src[a].up
      BY <2>1
    <3>2. a # Unit
      <4>1. ASSUME a = Unit PROVE FALSE
        <5>1. src[b].up = Nil
          BY <4>1, Grown
        <5>2. b # Unit
          BY <4>1, Grown
        <5> QED
          BY <1>4, <5>1, <5>2, Grown
      <4> QED
        BY <4>1
    <3>3. src[a].up \in Nodes /\ src[a].up < a /\ a \in Nat /\ src[a].up \in Nat
      BY <3>2, Grown
    <3>4. Inside(a, src[a].up)
      BY <3>3, InsideStep, InsideSelf
    <3>5. ~Inside(src[a].up, a)
      BY <3>3, InsideNodes
    <3> QED
      BY <3>1, <3>4, <3>5
  <2> QED
    BY <1>2, <2>1
<1>7. ASSUME NEW d \in Nodes, NEW x \in Nodes, ToDefine(s, d), Inside(x, Root(t)) PROVE Before(d, x)
  <2>1. Inside(d, a) /\ Inside(x, b)
    BY <1>2, <1>3, <1>7 DEF ToDefine
  <2>2. ~Inside(x, d)
    BY <1>1, <2>1, InsideTrans
  <2>3. d < x
    BY <1>1, <2>1
  <2> QED
    BY <2>2, <2>3 DEF Before
<1>8. \A x, d \in Nodes : \A f \in Range(Kids(Unit)) :
        Inside(x, Root(s)) /\ Inside(d, Root(t)) /\ Inside(x, f) /\ Inside(d, f) => x < d
  BY <1>1, <1>2, <1>3
<1> QED
  BY <1>2, <1>5, <1>6, <1>7, <1>8 DEF Pair

(* The container of a node is a node around it.                            *)
LEMMA ContainerInNodes ==
  ASSUME src \in Programs, NEW n \in Nodes, n # Unit
  PROVE  Container(n) \in Nodes /\ Scoping(Container(n)) /\ Inside(n, Container(n))
BY ContainerHolds DEF Holds

(* One call for each of the nodes ks.                                      *)
Tree(ts, ks) == DOMAIN ts = DOMAIN ks /\ \A i \in DOMAIN ts : Root(ts[i]) = ks[i] /\ ts[i].node = ks[i]

Offspring(ts, ks, nd2, t) ==
  /\ ts \in Seq(Tasks) /\ Paired(ts) /\ CaughtWithin(ts)
  /\ \A i \in DOMAIN ts : Prepared(nd2, ts[i]) /\ Refines(ts[i], t)
  /\ Tree(ts, ks)

(* The calls for the children of a node are in order, and are for parts of *)
(* it.                                                                     *)
LEMMA Children ==
  ASSUME src \in Programs, NEW n \in Nodes, n # Unit, InItem(n), NEW ks \in Seq(Nodes), Ascending(ks),
         \A i \in DOMAIN ks : src[ks[i]].up = n,
         NEW s \in Nodes, s = (IF Scoping(n) THEN n ELSE Container(n)), NEW nd2, nd2[s].outer # Unset,
         NEW t, t.call = "register", t.node = n
  PROVE  Offspring(Register(ks, s), ks, nd2, t)
<1> DEFINE ts == Register(ks, s)
<1>1. \A i \in DOMAIN ks : ks[i] \in Nodes /\ ks[i] # Unit
  <2>1. src[Unit].up \notin Nodes
    BY Grown, InsideNil
  <2>2. \A i \in DOMAIN ks : ks[i] \in Nodes
    OBVIOUS
  <2> QED
    BY <2>1, <2>2
<1>2. /\ DOMAIN ts = DOMAIN ks
      /\ \A i \in DOMAIN ks : ts[i] = [call |-> "register", node |-> ks[i], scope |-> s]
  BY DEF Register, Task
<1>3. \A i \in DOMAIN ks : ts[i] \in Tasks
  <2> HIDE DEF ts
  <2>1. ASSUME NEW i \in DOMAIN ks PROVE ts[i] \in Tasks
    <3>1. ks[i] \in Nodes \ {Unit} /\ s \in Nodes
      BY <1>1, ContainerInNodes
    <3> QED
      BY <1>2, <3>1 DEF Tasks
  <2> QED
    BY <2>1
<1>4. ts \in Seq(Tasks)
  <2>1. DOMAIN ks = 1 .. Len(ks) /\ Len(ks) \in Nat
    OBVIOUS
  <2>2. ts = [i \in 1 .. Len(ks) |-> Task("register", ks[i], s)]
    BY <2>1 DEF Register
  <2> DEFINE S == Tasks
  <2> HIDE DEF S, ts
  <2>3. \A i \in 1 .. Len(ks) : Task("register", ks[i], s) \in S
    BY <1>2, <1>3, <2>1 DEF Task, S
  <2>4. ts \in Seq(S)
    BY <2>1, <2>2, <2>3
  <2> QED
    BY <2>4 DEF S
<1> HIDE DEF ts
<1>5. ASSUME NEW i \in DOMAIN ks
      PROVE  /\ ts[i].call = "register" /\ ts[i].node = ks[i] /\ ts[i].scope = s
             /\ Root(ts[i]) = ks[i] /\ ~Defining(ts[i]) /\ ~Mark(ts[i])
             /\ Inside(ks[i], n) /\ ks[i] # n /\ Container(ks[i]) = s
  <2>1. ts[i].call = "register" /\ ts[i].node = ks[i] /\ ts[i].scope = s
    BY <1>2
  <2>2. Root(ts[i]) = ks[i] /\ ~Defining(ts[i]) /\ ~Mark(ts[i])
    BY <2>1 DEF Root, Defining, Mark
  <2>3. Inside(ks[i], n)
    BY <1>1, InsideStep, InsideSelf
  <2>4. ks[i] # n
    <3>1. src[ks[i]].up < ks[i] /\ ks[i] \in Nat /\ src[ks[i]].up = n
      BY <1>1, Grown
    <3> QED
      BY <3>1
  <2>5. Container(ks[i]) = s
    BY <1>1, ContainerUp
  <2> QED
    BY <2>1, <2>2, <2>3, <2>4, <2>5
<1>6. ASSUME NEW i \in DOMAIN ks PROVE Prepared(nd2, ts[i]) /\ Refines(ts[i], t)
  <2>1. InItem(ks[i])
    BY <1>1, <1>5, InsideTrans DEF InItem
  <2>2. Prepared(nd2, ts[i])
    BY <1>3, <1>5, <2>1 DEF Prepared
  <2>3. Root(t) = n /\ ~Defining(t)
    BY DEF Root, Defining
  <2> QED
    BY <1>5, <2>2, <2>3 DEF Refines
<1>7. Paired(ts)
  <2>1. ASSUME NEW i \in DOMAIN ts, NEW j \in DOMAIN ts, i < j PROVE Pair(ts[i], ts[j])
    <3>1. i \in DOMAIN ks /\ j \in DOMAIN ks
      BY <1>2
    <3>2. ks[i] < ks[j] /\ ks[i] \in Nodes /\ ks[j] \in Nodes /\ src[ks[i]].up = src[ks[j]].up
      BY <1>1, <2>1, <3>1 DEF Ascending
    <3> QED
      BY <1>5, <3>1, <3>2, SiblingPair
  <2> QED
    BY <2>1 DEF Paired
<1>8. CaughtWithin(ts)
  BY <1>2, <1>5 DEF CaughtWithin
<1>9. Tree(ts, ks)
  BY <1>2, <1>5 DEF Tree
<1> QED
  BY <1>2, <1>4, <1>6, <1>7, <1>8, <1>9 DEF ts, Offspring
-----------------------------------------------------------------------------
(* The tree does not change: what is said of it is said of it afterwards.  *)
LEMMA SameInside ==
  ASSUME src' = src
  PROVE  /\ Nodes' = Nodes
         /\ \A n, class : Is(n, class)' <=> Is(n, class)
         /\ \A n, m : Inside(n, m)' <=> Inside(n, m)
         /\ \A n : Container(n)' = Container(n)
         /\ \A n : Kids(n)' = Kids(n)
<1>1. Nodes' = Nodes /\ \A n : Kids(n)' = Kids(n)
  BY DEF Nodes, Kids
<1>2. \A n, m : Inside(n, m)' <=> Inside(n, m)
  BY DEF Inside, Nodes
<1>3. \A n : Container(n)' = Container(n)
  BY DEF Container, Inside, Nodes
<1> QED
  BY <1>1, <1>2, <1>3 DEF Is

(* The items stay, and so does what is said of calls.                      *)
LEMMA SameParts ==
  ASSUME src' = src, decls' = decls, funcdefs' = funcdefs
  PROVE  /\ Tasks' = Tasks
         /\ \A t : Root(t)' = Root(t)
         /\ \A n : InItem(n)' <=> InItem(n)
         /\ \A n : Ignorable(n)' <=> Ignorable(n)
         /\ \A n : Callee(n)' <=> Callee(n)
         /\ \A d, x : Before(d, x)' <=> Before(d, x)
         /\ \A t, d : ToDefine(t, d)' <=> ToDefine(t, d)
         /\ \A t, a : Off(t, a)' <=> Off(t, a)
         /\ \A s, t : Pair(s, t)' <=> Pair(s, t)
<1>1. Tasks' = Tasks
  BY DEF Tasks, Nodes
<1>2. \A t : Root(t)' = Root(t)
  BY DEF Root, init_expr, Kids, Is
<1>3. \A n : InItem(n)' <=> InItem(n)
  BY SameInside DEF InItem, Item
<1>4. \A n : Ignorable(n)' <=> Ignorable(n)
  BY SameInside DEF Ignorable
<1>5. \A n : Callee(n)' <=> Callee(n)
  BY SameInside DEF Callee
<1>6. \A d, x : Before(d, x)' <=> Before(d, x)
  BY SameInside DEF Before
<1>7. \A t, d : ToDefine(t, d)' <=> ToDefine(t, d)
  BY SameInside, <1>2 DEF ToDefine, Defining
<1>8. \A t, a : Off(t, a)' <=> Off(t, a)
  BY SameInside, <1>2 DEF Off
<1>9. \A s, t : Pair(s, t)' <=> Pair(s, t)
  BY SameInside, <1>2, <1>6, <1>7, <1>8 DEF Pair, Defining, Mark
<1> QED
  BY <1>1, <1>2, <1>3, <1>4, <1>5, <1>6, <1>7, <1>8, <1>9

(* The walk's invariant, of the next state.                                *)
LEMMA SameWalk ==
  ASSUME src' = src, decls' = decls, funcdefs' = funcdefs, Walking(stack', answer', table', node')
  PROVE  Walking(stack, answer, table, node)'
<1>1. /\ stack' \in Seq(Tasks') /\ answer' \in [Nodes' -> {"none", "true", "false"}]
      /\ \A i, j \in DOMAIN stack' : i < j => Pair(stack[i], stack[j])'
  BY SameInside, SameParts DEF Walking
<1>2. \A i \in DOMAIN stack' : Prepared(node, stack[i])'
  BY SameInside, SameParts DEF Walking, Prepared, Defining, Mark, Done
<1>3. Caught(stack)'
  BY SameInside DEF Walking, Caught, CaughtAt, Mark
<1>4. Answered(stack, answer)'
  BY SameInside, SameParts DEF Walking, Answered
<1>5. EntriesBefore(stack, table)'
  BY SameInside, SameParts DEF Walking, EntriesBefore
<1>6. Covered(stack, answer, table, node)'
  BY SameInside, SameParts DEF Walking, Covered, LostIn, Done, Entered, Defines, Defining
<1> QED
  BY <1>1, <1>2, <1>3, <1>4, <1>5, <1>6 DEF Walking

(* The invariants of the scopes and the table, of the next state.          *)
LEMMA SameState ==
  ASSUME src' = src
  PROVE  /\ Outer(node') => Outer(node)'
         /\ TableTyped(table') => TableTyped(table)'
         /\ \A n : Done(node', n) => Done(node, n)'
<1>1. Outer(node') => Outer(node)'
  BY SameInside DEF Outer
<1>2. TableTyped(table') => TableTyped(table)'
  BY SameInside DEF TableTyped, MapOf
<1>3. \A n : Done(node', n) => Done(node, n)'
  BY SameInside DEF Done, Callee
<1> QED
  BY <1>1, <1>2, <1>3
-----------------------------------------------------------------------------
(* What Lexical says of one identifier and its definition. *)
Means(i, d) ==
  /\ Defines(d, src[i].name)
  /\ Inside(i, Container(d))
  /\ Is(d, "Function") =>
       \A f \in Range(Kids(Unit)) : Is(f, "Function") /\ Defines(f, src[i].name) => f <= d
  /\ Is(d, "Function") \/ Before(d, i)
  /\ ~Callee(i) =>
       \A e \in Nodes : Defines(e, src[i].name) /\ Within(Container(e), Container(d))
                         /\ Inside(i, Container(e)) => ~Before(e, i)

(* The fields nd2 after a call for n has set those of nodes in n. *)
Sets(nd2, n) ==
  /\ nd2 \in [Nodes -> Fields]
  /\ \A k \in Nodes : ~Inside(k, n) => nd2[k] = node[k]
  /\ \A k \in Nodes : \/ nd2[k].outer = node[k].outer
                      \/ k # Unit /\ nd2[k].outer = Container(k) /\ node[Container(k)].outer # Unset
  /\ \A k \in Nodes : nd2[k].definition = node[k].definition \/ Means(k, nd2[k].definition)

(* The state of the walk, and the one after the next step. *)
Sound ==
  /\ src \in Programs /\ node \in [Nodes -> Fields] /\ Outer(node) /\ TableTyped(table)
  /\ Walking(stack, answer, table, node)

(* The state after a step of the walk.                                     *)
Onward(st2, ans2, tb2, nd2) ==
  /\ Walking(st2, ans2, tb2, nd2)
  /\ nd2 \in [Nodes -> Fields] /\ Outer(nd2) /\ TableTyped(tb2) /\ table \subseteq tb2
  /\ \A e \in tb2 \ table : src[e.def].is \in Definitions
  /\ \A k \in Nodes : nd2[k].definition = node[k].definition \/ Means(k, nd2[k].definition)

(* The call on top of the stack. *)
Calling(call) == stack # << >> /\ stack[1].call = call

(* The call on top of the stack, and its arguments.                        *)
LEMMA TopCall ==
  ASSUME Sound, NEW call \in {"register", "init", "add", "ignored"}, Calling(call)
  PROVE  /\ this \in Nodes /\ this # Unit /\ InItem(this) /\ owner \in Nodes /\ Root(stack[1]) \in Nodes \cup {Nil}
         /\ Prepared(node, stack[1]) /\ Fine(stack[1]) /\ 1 \in DOMAIN stack
         /\ call = "register" => Root(stack[1]) = this
         /\ call # "ignored" => owner = Container(this) /\ node[owner].outer # Unset /\ ~Mark(stack[1])
         /\ call \in {"init", "add"} => src[this].is \in Definitions
<1>1. stack \in Seq(Tasks) /\ \A i \in DOMAIN stack : Prepared(node, stack[i])
  BY DEF Sound, Walking
<1>2. 1 \in DOMAIN stack
  BY <1>1 DEF Calling
<1>3. Prepared(node, stack[1])
  BY <1>1, <1>2
<1>4. Fine(stack[1])
  BY <1>3 DEF Prepared, Fine
<1>5. stack[1].node \in Nodes \ {Unit} /\ stack[1].scope \in Nodes
  BY <1>4 DEF Fine, Tasks
<1>6. Root(stack[1]) \in Nodes \cup {Nil} /\ (call = "register" => Root(stack[1]) = this)
  BY <1>4, RootIs DEF Sound, Calling, this
<1> QED
  BY <1>2, <1>3, <1>4, <1>5, <1>6 DEF Prepared, Calling, Mark, Defining, this, owner

(* The scopes that are there stay, with their outer scopes.                *)
LEMMA SetsOuter ==
  ASSUME Sound, NEW n, NEW nd2, Sets(nd2, n)
  PROVE  Outer(nd2) /\ \A s \in Nodes : node[s].outer # Unset => nd2[s].outer # Unset
<1>1. \A s \in Nodes : s # Unit => Container(s) \in Nodes
  BY ContainerInNodes DEF Sound
<1>2. \A s \in Nodes : node[s].outer # Unset => nd2[s].outer # Unset
  BY <1>1, Grown DEF Sets, Sound, Unset
<1>3. Unit \in Nodes /\ nd2[Unit].outer = Nil
  BY Grown DEF Sets, Sound, Outer
<1>4. ASSUME NEW s \in Nodes \ {Unit}, nd2[s].outer # Unset
      PROVE  nd2[s].outer = Container(s) /\ nd2[Container(s)].outer # Unset
  BY <1>1, <1>2, <1>4 DEF Sets, Sound, Outer
<1> QED
  BY <1>2, <1>3, <1>4 DEF Outer

(* A call changes the fields of what it is for only.                       *)
LEMMA SetsTouched ==
  ASSUME Sound, NEW nd2, NEW t, Sets(nd2, Root(t))
  PROVE  Touched(nd2, node, t)
BY SetsOuter DEF Touched, Sets

(* A call for a node that hands its work to others. *)
LEMMA StepOn ==
  ASSUME Sound, Calling("register"), NEW nd2, Sets(nd2, this),
         NEW ts \in Seq(Tasks), Hands(ts, stack[1], nd2)
  PROVE  Onward(ts \o Tail(stack), answer, table, nd2)
<1>1. ~Mark(stack[1]) /\ Root(stack[1]) = this /\ stack # << >> /\ ~Defining(stack[1])
  BY TopCall DEF Calling, Defining
<1>2. Touched(nd2, node, stack[1])
  BY <1>1, SetsTouched
<1>3. Adds(ts, stack[1], table, table)
  BY <1>1 DEF Adds
<1>4. Walking(ts \o Tail(stack), answer, table, nd2)
  BY <1>1, <1>2, <1>3, WalkOn DEF Sound
<1> QED
  BY <1>4, SetsOuter DEF Onward, Sound, Sets

(* Below the call on top there is a caller that ignores a result, so that  *)
(* the climb of a failing call ends at the first one.                      *)
LEMMA MarkBelow ==
  ASSUME Sound, stack # << >>
  PROVE  LET k == Min({i \in DOMAIN stack : stack[i].call = "ignored"}) IN FirstMark(stack, k)
<1> DEFINE M == {i \in DOMAIN stack : stack[i].call = "ignored"}
           k == Min(M)
<1>1. stack \in Seq(Tasks) /\ 1 \in DOMAIN stack /\ Caught(stack)
  BY DEF Sound, Walking
<1>2. PICK j \in DOMAIN stack : Mark(stack[j])
  BY <1>1 DEF Caught, CaughtAt
<1>3. M \in SUBSET Nat /\ M # {}
  BY <1>1, <1>2 DEF Mark
<1>4. k \in M /\ \A i \in M : k <= i
  <2> HIDE DEF M
  <2>1. \E m \in M : \A i \in M : m <= i
    BY <1>3, LeastNatural
  <2> QED
    BY <2>1 DEF Min
<1> HIDE DEF k
<1>5. FirstMark(stack, k)
  <2>1. \A l \in DOMAIN stack : l < k => ~Mark(stack[l])
    <3>1. ASSUME NEW l \in DOMAIN stack, l < k, Mark(stack[l]) PROVE FALSE
      <4>1. l \in M
        BY <3>1 DEF Mark
      <4>2. l \in Nat /\ k \in Nat /\ k <= l
        BY <1>3, <1>4, <4>1
      <4> QED
        BY <3>1, <4>2
    <3> QED
      BY <3>1
  <2> QED
    BY <1>4, <2>1 DEF FirstMark, Mark
<1> QED
  BY <1>5 DEF k

(* A call that fails goes back to the first result that is ignored.        *)
LEMMA StepBack ==
  ASSUME Sound, stack # << >>, NEW nd2, Sets(nd2, Root(stack[1])), Fail
  PROVE  Onward(stack', answer', table, nd2)
<1> DEFINE k == Min({i \in DOMAIN stack : stack[i].call = "ignored"})
<1>1. FirstMark(stack, k)
  BY MarkBelow
<1>2. stack' = SubSeq(stack, k + 1, Len(stack)) /\ answer' = [answer EXCEPT ![stack[k].node] = "false"]
  BY DEF Fail
<1> HIDE DEF k
<1>3. Touched(nd2, node, stack[1])
  BY SetsTouched
<1>4. Walking(stack', answer', table, nd2)
  BY <1>1, <1>2, <1>3, WalkBack DEF Sound
<1> QED
  BY <1>4, SetsOuter DEF Onward, Sound, Sets
-----------------------------------------------------------------------------
(* A call that leaves the children of its node to calls of their own. *)
LEMMA HandsOver ==
  ASSUME Sound, Calling("register"), NEW nd2, NEW ks \in Seq(Nodes), Ascending(ks),
         \A i \in DOMAIN ks : src[ks[i]].up = this,
         NEW s, s = (IF Scoping(this) THEN this ELSE owner), nd2[s].outer # Unset,
         Done(nd2, this), src[this].is \notin Definitions,
         \A k \in Nodes : src[k].up = this =>
            \/ k \in Range(ks)
            \/ \A x \in Nodes : Inside(x, k) => Done(nd2, x) /\ src[x].is \notin Definitions
  PROVE  Register(ks, s) \in Seq(Tasks) /\ Hands(Register(ks, s), stack[1], nd2)
<1> DEFINE ts == Register(ks, s)
           t == stack[1]
<1>1. /\ this \in Nodes /\ this # Unit /\ InItem(this) /\ owner = Container(this) /\ src \in Programs /\ owner \in Nodes
      /\ t.call = "register" /\ t.node = this /\ Root(t) = this
  BY TopCall DEF Calling, this, Sound
<1>2. /\ ts \in Seq(Tasks) /\ Paired(ts) /\ CaughtWithin(ts)
      /\ \A i \in DOMAIN ts : Prepared(nd2, ts[i]) /\ Refines(ts[i], t)
      /\ Tree(ts, ks)
  <2> HIDE DEF t
  <2>1. s = (IF Scoping(this) THEN this ELSE Container(this)) /\ s \in Nodes
    BY <1>1
  <2>2. Offspring(ts, ks, nd2, t)
    BY <1>1, <2>1, Children
  <2> QED
    BY <2>2 DEF Offspring
<1> HIDE DEF ts, t
<1>3. ASSUME NEW n \in Nodes, Inside(n, this)
      PROVE  \/ \E i \in DOMAIN ts : Inside(n, Root(ts[i]))
             \/ Done(nd2, n) /\ src[n].is \notin Definitions
  <2>1. CASE n = this
    BY <2>1
  <2>2. CASE n # this
    <3>1. PICK k \in Nodes : src[k].up = this /\ Inside(n, k)
      BY <1>1, <1>3, <2>2, InsideChild
    <3>2. CASE k \in Range(ks)
      <4>1. PICK i \in DOMAIN ks : ks[i] = k
        BY <3>2 DEF Range
      <4>2. i \in DOMAIN ts /\ Root(ts[i]) = k
        BY <1>2, <4>1 DEF Tree
      <4> QED
        BY <3>1, <4>2
    <3>3. CASE k \notin Range(ks)
      BY <3>1, <3>3
    <3> QED
      BY <3>2, <3>3
  <2> QED
    BY <2>1, <2>2
<1>4. Hands(ts, t, nd2)
  BY <1>1, <1>2, <1>3 DEF Hands
<1> QED
  BY <1>2, <1>4 DEF ts, t

(* The children of a node, in ascending order.                             *)
LEMMA AllKids ==
  ASSUME src \in Programs, NEW n \in Nodes
  PROVE  /\ Kids(n) \in Seq(Nodes) /\ Ascending(Kids(n))
         /\ \A i \in DOMAIN Kids(n) : src[Kids(n)[i]].up = n
         /\ \A k \in Nodes : src[k].up = n => k \in Range(Kids(n))
<1>1. Kids(n) \in Seq(Nodes) /\ Range(Kids(n)) = {k \in Nodes : src[k].up = n}
  BY Grown
<1>2. \A i \in DOMAIN Kids(n) : Kids(n)[i] \in Range(Kids(n))
  BY DEF Range
<1>3. \A i, j \in DOMAIN Kids(n) : i < j => Kids(n)[i] < Kids(n)[j]
  BY Grown
<1> QED
  BY <1>1, <1>2, <1>3 DEF Ascending

(* set_scope, and the other fields of a node. *)
LEMMA FieldsOf ==
  ASSUME node \in [Nodes -> Fields], NEW n \in Nodes
  PROVE  /\ node[n].scope \in Nodes \cup {Nil, Predefined} /\ node[n].outer \in Nodes \cup {Nil, Unset}
         /\ node[n].definition \in Nodes \cup {Unset} /\ node[n].is_lvalue \in BOOLEAN
         /\ node[n].control_node \in Nodes \cup {Nil} /\ node[n].base_type \in {"void", "declared"}
         /\ node[n] \in Fields
BY DEF Fields

WithScope(nd2, n, s) == nd2 = [node EXCEPT ![n].scope = s]

(* set_scope changes the scope of the node only.                           *)
LEMMA SetsScope ==
  ASSUME Sound, NEW n \in Nodes, NEW s \in Nodes, NEW nd2, WithScope(nd2, n, s)
  PROVE  Sets(nd2, n) /\ nd2[n].scope = s /\ \A k \in Nodes : nd2[k].outer = node[k].outer
<1>1. node \in [Nodes -> Fields] /\ src \in Programs /\ node[n] \in Fields
  BY DEF Sound
<1>2. nd2 \in [Nodes -> Fields]
  BY <1>1 DEF Fields, WithScope
<1>3. \A k \in Nodes : k # n => nd2[k] = node[k]
  BY <1>1 DEF WithScope
<1>4. nd2[n] = [node[n] EXCEPT !.scope = s]
  BY <1>1 DEF WithScope
<1>5. nd2[n].scope = s /\ nd2[n].outer = node[n].outer /\ nd2[n].definition = node[n].definition
  BY <1>1, <1>4, FieldsOf DEF Fields
<1> QED
  BY <1>1, <1>2, <1>3, <1>5, InsideSelf DEF Sets

(* A call may leave all fields as they are.                                *)
LEMMA SetsNothing ==
  ASSUME Sound, NEW n
  PROVE  Sets(node, n)
BY DEF Sets, Sound

(* The classes whose children are registered in the scope of the node.     *)
Plainly == {"FuncParam", "ArrayInfo", "IfStmt", "WhileStmt", "ReturnStmt", "ExprStmt", "VarDecl", "ConstDecl",
            "UnaryExpr", "BinaryExpr", "CallParam", "InitList", "IndexExpr", "AssignExpr", "IntValue",
            "FloatValue"}

(* RegisterWithChildren keeps the invariant of the walk.                   *)
LEMMA StepWithChildren ==
  ASSUME Sound, NEW class \in Plainly, RegisterWithChildren(class)
  PROVE  Onward(stack', answer', table', node')
<1>1. Calling("register") /\ Is(this, class) /\ table' = table /\ answer' = answer
      /\ stack' = Register(Kids(this), owner) \o Tail(stack)
      /\ WithScope(node', this, owner)
  BY DEF WithScope, RegisterWithChildren, Calls, Calling, Then, this
<1>2. /\ this \in Nodes /\ owner = Container(this) /\ owner \in Nodes /\ node[owner].outer # Unset
      /\ src \in Programs
  BY <1>1, TopCall DEF Sound
<1>3. Sets(node', this) /\ node'[this].scope = owner /\ \A k \in Nodes : node'[k].outer = node[k].outer
  BY <1>1, <1>2, SetsScope
<1>4. ~Scoping(this) /\ src[this].is \notin Definitions
  BY <1>1 DEF Scoping, Is, Plainly, Definitions
<1>5. Done(node', this)
  BY <1>1, <1>2, <1>3 DEF Done, Is, Plainly, Definitions
<1> DEFINE ks == Kids(this)
<1>6. /\ ks \in Seq(Nodes) /\ Ascending(ks) /\ \A i \in DOMAIN ks : src[ks[i]].up = this
      /\ \A k \in Nodes : src[k].up = this => k \in Range(ks)
  BY <1>2, AllKids
<1> HIDE DEF ks
<1>7. Register(ks, owner) \in Seq(Tasks) /\ Hands(Register(ks, owner), stack[1], node')
  BY <1>1, <1>2, <1>3, <1>4, <1>5, <1>6, HandsOver
<1>8. Onward(Register(ks, owner) \o Tail(stack), answer, table, node')
  BY <1>1, <1>3, <1>7, StepOn
<1> QED
  BY <1>1, <1>8 DEF ks

(* A function and a block open a scope of their own. *)
WithScopes(nd2, n, s) == nd2 = [node EXCEPT ![n].scope = s, ![n].outer = s]

(* A Function or Block gets its scope, and its own one the outer scope.    *)
LEMMA SetsScopes ==
  ASSUME Sound, NEW n \in Nodes, n # Unit, NEW s \in Nodes, s = Container(n), node[s].outer # Unset,
         NEW nd2, WithScopes(nd2, n, s)
  PROVE  Sets(nd2, n) /\ nd2[n].scope = s /\ nd2[n].outer = s
<1>1. node \in [Nodes -> Fields] /\ src \in Programs /\ node[n] \in Fields
  BY DEF Sound
<1>2. nd2 \in [Nodes -> Fields]
  <2>1. [node[n] EXCEPT !.scope = s, !.outer = s] \in Fields
    BY <1>1 DEF Fields
  <2> QED
    BY <1>1, <2>1 DEF WithScopes
<1>3. \A k \in Nodes : k # n => nd2[k] = node[k]
  BY <1>1 DEF WithScopes
<1>4. nd2[n] = [node[n] EXCEPT !.scope = s, !.outer = s]
  BY <1>1 DEF WithScopes
<1>5. nd2[n].scope = s /\ nd2[n].outer = s /\ nd2[n].definition = node[n].definition
  BY <1>1, <1>4, FieldsOf DEF Fields
<1> QED
  BY <1>1, <1>2, <1>3, <1>5, InsideSelf DEF Sets

(* Function and Block: their children are registered in their own scope.   *)
LEMMA StepScope ==
  ASSUME Sound, RegisterFunction \/ RegisterBlock
  PROVE  Onward(stack', answer', table', node')
<1>1. Calling("register") /\ (Is(this, "Function") \/ Is(this, "Block")) /\ table' = table /\ answer' = answer
      /\ stack' = Register(Kids(this), this) \o Tail(stack)
      /\ WithScopes(node', this, owner)
  BY DEF WithScopes, RegisterFunction, RegisterBlock, Calls, Calling, Then, this
<1>2. /\ this \in Nodes /\ this # Unit /\ owner = Container(this) /\ owner \in Nodes
      /\ node[owner].outer # Unset /\ src \in Programs
  BY <1>1, TopCall DEF Sound
<1>3. Sets(node', this) /\ node'[this].scope = owner /\ node'[this].outer = owner
  BY <1>1, <1>2, SetsScopes
<1>4. Scoping(this) /\ src[this].is \notin Definitions
  BY <1>1 DEF Scoping, Is, Definitions
<1>5. node'[this].outer # Unset
  BY <1>2, <1>3, Grown DEF Unset
<1>6. Done(node', this)
  BY <1>1, <1>2, <1>3, <1>5 DEF Done, Is, Definitions
<1> DEFINE ks == Kids(this)
           ts == Register(ks, this)
<1>7. /\ ks \in Seq(Nodes) /\ Ascending(ks) /\ \A i \in DOMAIN ks : src[ks[i]].up = this
      /\ \A k \in Nodes : src[k].up = this => k \in Range(ks)
  BY <1>2, AllKids
<1> HIDE DEF ks
<1>8. ts \in Seq(Tasks) /\ Hands(ts, stack[1], node')
  BY <1>1, <1>2, <1>4, <1>5, <1>6, <1>7, HandsOver
<1>9. Onward(ts \o Tail(stack), answer, table, node')
  BY <1>1, <1>3, <1>8, StepOn
<1> QED
  BY <1>1, <1>9 DEF ks
-----------------------------------------------------------------------------
(* A call that ends with nothing left to do. *)
LEMMA NoCalls ==
  ASSUME NEW t, NEW nd2,
         \A x \in Nodes : Inside(x, Root(t)) => Done(nd2, x) /\ src[x].is \notin Definitions
  PROVE  << >> \in Seq(Tasks) /\ Hands(<< >>, t, nd2)
<1> DEFINE ts == << >>
<1>1. ts \in Seq(Tasks) /\ DOMAIN ts = {}
  OBVIOUS
<1> HIDE DEF ts
<1>2. Hands(ts, t, nd2)
  BY <1>1 DEF Hands, Paired, CaughtWithin
<1> QED
  BY <1>1, <1>2 DEF ts

(* A call for a node without anything left in it is done.                  *)
LEMMA StepDone ==
  ASSUME Sound, Calling("register"), NEW nd2, Sets(nd2, this),
         \A x \in Nodes : Inside(x, this) => Done(nd2, x) /\ src[x].is \notin Definitions
  PROVE  Onward(<< >> \o Tail(stack), answer, table, nd2)
<1>1. Root(stack[1]) = this
  BY TopCall
<1>2. << >> \in Seq(Tasks) /\ Hands(<< >>, stack[1], nd2)
  BY <1>1, NoCalls
<1> DEFINE ts == << >>
<1> HIDE DEF ts
<1>3. ts \in Seq(Tasks) /\ Hands(ts, stack[1], nd2)
  BY <1>2 DEF ts
<1>4. Onward(ts \o Tail(stack), answer, table, nd2)
  BY <1>3, StepOn
<1> QED
  BY <1>4 DEF ts

(* Nodes that have no children. *)
LEMMA Leaf ==
  ASSUME src \in Programs, NEW n \in Nodes,
         src[n].is \in {"EmptyStmt", "BreakStmt", "ContinueStmt", "Identifier", "IntValue", "FloatValue"},
         NEW x \in Nodes, Inside(x, n)
  PROVE  x = n
<1>1. ASSUME x # n PROVE FALSE
  <2>1. PICK k \in Nodes : src[k].up = n /\ Inside(x, k)
    BY <1>1, InsideChild
  <2>2. k # Unit
    BY <2>1, Grown, InsideNil
  <2>3. Under(src[k].is, src[n].is)
    BY <2>1, <2>2, Grown
  <2> QED
    BY <2>3 DEF Under, Definitions, Expressions
<1> QED
  BY <1>1

(* EmptyStmt: nothing is set, which is all that is asked of one.           *)
LEMMA StepEmptyStmt ==
  ASSUME Sound, RegisterEmptyStmt
  PROVE  Onward(stack', answer', table', node')
<1>1. Calling("register") /\ Is(this, "EmptyStmt") /\ table' = table /\ answer' = answer /\ node' = node
      /\ stack' = << >> \o Tail(stack)
  BY DEF RegisterEmptyStmt, Calls, Calling, Then, this
<1>2. this \in Nodes /\ src \in Programs
  BY <1>1, TopCall DEF Sound
<1>3. ASSUME NEW x \in Nodes, Inside(x, this) PROVE Done(node, x) /\ src[x].is \notin Definitions
  <2>1. x = this
    BY <1>1, <1>2, <1>3, Leaf DEF Is
  <2> QED
    BY <1>1, <2>1 DEF Done, Is, Definitions
<1>4. Onward(<< >> \o Tail(stack), answer, table, node)
  BY <1>1, <1>3, SetsNothing, StepDone
<1> QED
  BY <1>1, <1>4

(* The statement that a break is registered with is one of the tree. *)
LEMMA ParentIs ==
  ASSUME src \in Programs, NEW n \in Nodes
  PROVE  Parent(n) \in Nodes \cup {Nil} /\ Parent(n) < n /\ (Parent(n) # Nil => Parent(n) = src[n].up)
<1>1. CASE Parent(n) = Nil
  BY <1>1, Grown DEF Nil
<1>2. CASE Parent(n) # Nil
  <2>1. n # Unit /\ Parent(n) = src[n].up
    BY <1>2 DEF Parent
  <2> QED
    BY <2>1, Grown
<1> QED
  BY <1>1, <1>2

(* The climb from a break ends at a node or nowhere.                       *)
LEMMA OutermostIs ==
  ASSUME src \in Programs, NEW n \in Nodes
  PROVE  Outermost(n) \in Nodes \cup {Nil}
<1> DEFINE S == Nodes \cup {Nil}
           climb == CHOOSE f : f = [p \in S |-> IF ~Statement(p) THEN Nil
                                                ELSE IF f[Parent(p)] # Nil THEN f[Parent(p)]
                                                ELSE IF src[p].is \in {"IfStmt", "WhileStmt"} THEN p ELSE Nil]
           stops == {p \in S : ~Statement(p)}
           next == [p \in S |-> Parent(p)]
           drop == {Nil}
           val == [p \in S |-> IF ~Statement(p) THEN Nil
                               ELSE IF src[p].is \in {"IfStmt", "WhileStmt"} THEN p ELSE Nil]
<1>1. S \in SUBSET Nat /\ Nil \in stops /\ Nil \in S
  BY Grown DEF Statement, Nil
<1>2. ASSUME NEW p \in S \ stops PROVE next[p] \in S /\ next[p] < p /\ p \in Nodes
  BY <1>1, <1>2, ParentIs
<1>3. PICK g : Climbs(g, S, stops, drop, val, next)
  <2> HIDE DEF S, stops, next, drop, val
  <2> QED
    BY <1>1, <1>2, Climbing
<1>4. \A p \in S : g[p] = IF p \in stops \/ g[next[p]] \in drop THEN val[p] ELSE g[next[p]]
  <2> HIDE DEF stops, next, drop, val, S
  <2> QED
    BY <1>3 DEF Climbs
<1>5. g = [p \in S |-> g[p]]
  BY <1>3 DEF Climbs
<1>6. \A p \in S : g[p] = IF ~Statement(p) THEN Nil
                          ELSE IF g[Parent(p)] # Nil THEN g[Parent(p)]
                          ELSE IF src[p].is \in {"IfStmt", "WhileStmt"} THEN p ELSE Nil
  <2> SUFFICES ASSUME NEW p \in S
               PROVE g[p] = IF ~Statement(p) THEN Nil
                          ELSE IF g[Parent(p)] # Nil THEN g[Parent(p)]
                          ELSE IF src[p].is \in {"IfStmt", "WhileStmt"} THEN p ELSE Nil
    OBVIOUS
  <2>1. /\ p \in stops <=> ~Statement(p)
        /\ next[p] = Parent(p) /\ (g[next[p]] \in drop <=> g[Parent(p)] = Nil)
        /\ val[p] = IF ~Statement(p) THEN Nil ELSE IF src[p].is \in {"IfStmt", "WhileStmt"} THEN p ELSE Nil
    OBVIOUS
  <2>2. g[p] = IF p \in stops \/ g[next[p]] \in drop THEN val[p] ELSE g[next[p]]
    BY <1>4
  <2> HIDE DEF stops, next, drop, val, S
  <2> QED
    BY <2>1, <2>2
<1>7. \E f : f = [p \in S |-> IF ~Statement(p) THEN Nil
                              ELSE IF f[Parent(p)] # Nil THEN f[Parent(p)]
                              ELSE IF src[p].is \in {"IfStmt", "WhileStmt"} THEN p ELSE Nil]
  <2> HIDE DEF S
  <2> QED
    BY <1>5, <1>6
<1>8. climb = [p \in S |-> IF ~Statement(p) THEN Nil
                           ELSE IF climb[Parent(p)] # Nil THEN climb[Parent(p)]
                           ELSE IF src[p].is \in {"IfStmt", "WhileStmt"} THEN p ELSE Nil]
  BY <1>7
<1>9. Outermost(n) = climb[Parent(n)]
  BY DEF Outermost
<1> HIDE DEF climb
<1>10. \A p \in S : climb[p] = IF ~Statement(p) THEN Nil
                               ELSE IF climb[Parent(p)] # Nil THEN climb[Parent(p)]
                               ELSE IF src[p].is \in {"IfStmt", "WhileStmt"} THEN p ELSE Nil
  <2> HIDE DEF S
  <2> QED
    BY <1>8
<1> DEFINE T == {p \in Nodes : climb[p] \notin S}
<1>11. climb[Nil] = Nil
  BY <1>1, <1>10
<1>12. ASSUME NEW p \in T PROVE src[p].up \in T
  <2>1. p \in S /\ p \in Nodes
    OBVIOUS
  <2>2. Parent(p) \in S /\ (Parent(p) # Nil => Parent(p) = src[p].up)
    BY <2>1, ParentIs
  <2>3. climb[p] = climb[Parent(p)]
    BY <1>1, <1>10, <2>1
  <2>4. Parent(p) # Nil
    BY <1>11, <2>3
  <2> QED
    BY <2>2, <2>3, <2>4
<1>13. T = {}
  <2>1. T \in SUBSET Nodes
    OBVIOUS
  <2> HIDE DEF T
  <2> QED
    BY <1>12, <2>1, Upwards
<1>14. Parent(n) \in S
  BY ParentIs
<1>15. climb[Parent(n)] \in S
  BY <1>11, <1>13, <1>14
<1> QED
  BY <1>9, <1>15
-----------------------------------------------------------------------------
(* The walk with other fields in a node that it has still to leave. *)
LEMMA WalkSame ==
  ASSUME src \in Programs, NEW st, NEW ans, NEW tb, NEW nd, Walking(st, ans, tb, nd),
         st # << >>, ~Mark(st[1]), ~Defining(st[1]), NEW nd2, Touched(nd2, nd, st[1])
  PROVE  Walking(st, ans, tb, nd2)
<1>1. st \in Seq(Tasks) /\ 1 \in DOMAIN st /\ DOMAIN st \subseteq Nat
  BY DEF Walking
<1>2. \A n \in Nodes : ~Inside(n, Root(st[1])) /\ Done(nd, n) => Done(nd2, n)
  BY DEF Touched, Done
<1>3. ASSUME NEW i \in DOMAIN st PROVE Prepared(nd2, st[i])
  <2> DEFINE r == st[i]
  <2>1. Prepared(nd, r) /\ Fine(r)
    BY DEF Walking, Prepared, Fine
  <2>2. r.node \in Nodes /\ r.scope \in Nodes
    BY <2>1 DEF Fine, Tasks
  <2>3. Defining(r) => ~Inside(r.node, Root(st[1]))
    <3>1. Defining(r) => i # 1
      OBVIOUS
    <3>2. Defining(r) => Pair(st[1], r)
      BY <1>1, <3>1 DEF Walking
    <3> QED
      BY <3>2 DEF Pair
  <2> HIDE DEF r
  <2>4. nd[r.scope].outer # Unset => nd2[r.scope].outer # Unset
    BY <2>2 DEF Touched
  <2>5. Defining(r) => Done(nd2, r.node)
    BY <1>2, <2>1, <2>2, <2>3 DEF Prepared
  <2>6. Prepared(nd2, r)
    BY <2>1, <2>4, <2>5 DEF Prepared
  <2> QED
    BY <2>6 DEF r
<1>4. Covered(st, ans, tb, nd2)
  <2> SUFFICES ASSUME NEW n \in Nodes, InItem(n), ~LostIn(ans, n), ~\E i \in DOMAIN st : Inside(n, Root(st[i]))
               PROVE  /\ Done(nd2, n)
                      /\ src[n].is \in Definitions =>
                           (Entered(tb, n) \/ \E i \in DOMAIN st : (Defining(st[i]) /\ st[i].node = n))
    BY DEF Covered
  <2>1. /\ Done(nd, n)
        /\ src[n].is \in Definitions =>
             (Entered(tb, n) \/ \E i \in DOMAIN st : (Defining(st[i]) /\ st[i].node = n))
    BY DEF Walking, Covered
  <2> QED
    BY <1>1, <1>2, <2>1
<1> QED
  BY <1>3, <1>4 DEF Walking

(* set_scope and the statement to leave or to repeat. *)
WithControl(nd2, n, s, c) == nd2 = [node EXCEPT ![n].scope = s, ![n].control_node = c]

(* A break or a continue gets its scope and its statement.                 *)
LEMMA SetsControl ==
  ASSUME Sound, NEW n \in Nodes, NEW s \in Nodes, NEW c \in Nodes \cup {Nil}, NEW nd2, WithControl(nd2, n, s, c)
  PROVE  Sets(nd2, n) /\ nd2[n].scope = s /\ nd2[n].control_node = c
<1>1. node \in [Nodes -> Fields] /\ src \in Programs /\ node[n] \in Fields
  BY DEF Sound
<1>2. nd2 \in [Nodes -> Fields]
  <2>1. [node[n] EXCEPT !.scope = s, !.control_node = c] \in Fields
    BY <1>1 DEF Fields
  <2> QED
    BY <1>1, <2>1 DEF WithControl
<1>3. \A k \in Nodes : k # n => nd2[k] = node[k]
  BY <1>1 DEF WithControl
<1>4. nd2[n] = [node[n] EXCEPT !.scope = s, !.control_node = c]
  BY <1>1 DEF WithControl
<1>5. nd2[n].scope = s /\ nd2[n].control_node = c /\ nd2[n].outer = node[n].outer
      /\ nd2[n].definition = node[n].definition
  BY <1>1, <1>4, FieldsOf DEF Fields
<1> QED
  BY <1>1, <1>2, <1>3, <1>5, InsideSelf DEF Sets

(* BreakStmt: it fails without a parent, and is done otherwise.            *)
LEMMA StepBreakStmt ==
  ASSUME Sound, RegisterBreakStmt
  PROVE  Onward(stack', answer', table', node')
<1>1. Calling("register") /\ Is(this, "BreakStmt") /\ table' = table /\ stack # << >>
  BY DEF RegisterBreakStmt, Calls, Calling, this
<1>2. /\ this \in Nodes /\ owner \in Nodes /\ owner = Container(this) /\ Root(stack[1]) = this /\ src \in Programs
  BY <1>1, TopCall DEF Sound
<1>3. CASE Parent(this) = Nil
  <2>1. Fail /\ node' = node
    BY <1>3 DEF RegisterBreakStmt
  <2>2. Onward(stack', answer', table, node)
    BY <1>1, <2>1, SetsNothing, StepBack
  <2> QED
    BY <1>1, <2>1, <2>2
<1>4. CASE Parent(this) # Nil
  <2>1. WithControl(node', this, owner, Outermost(this)) /\ answer' = answer /\ stack' = << >> \o Tail(stack)
    BY <1>4 DEF RegisterBreakStmt, WithControl, Then
  <2>2. Sets(node', this) /\ node'[this].scope = owner
    <3> DEFINE c == Outermost(this)
    <3>1. c \in Nodes \cup {Nil} /\ WithControl(node', this, owner, c)
      BY <1>2, <2>1, OutermostIs
    <3> HIDE DEF c
    <3> QED
      BY <1>2, <3>1, SetsControl
  <2>3. ASSUME NEW x \in Nodes, Inside(x, this) PROVE Done(node', x) /\ src[x].is \notin Definitions
    <3>1. x = this
      BY <1>1, <1>2, <2>3, Leaf DEF Is
    <3> QED
      BY <1>1, <1>2, <2>2, <3>1 DEF Done, Is, Definitions
  <2>4. Onward(<< >> \o Tail(stack), answer, table, node')
    BY <1>1, <2>2, <2>3, StepDone
  <2> QED
    BY <1>1, <2>1, <2>4
<1> QED
  BY <1>3, <1>4

(* ContinueStmt: it fails outside of statements; if it spins it makes the  *)
(* same call again.                                                        *)
LEMMA StepContinueStmt ==
  ASSUME Sound, RegisterContinueStmt
  PROVE  Onward(stack', answer', table', node')
<1> DEFINE c == IF Statement(Parent(this)) /\ ~Spins(this) THEN Parent(this) ELSE Nil
<1>1. Calling("register") /\ Is(this, "ContinueStmt") /\ table' = table /\ stack # << >>
      /\ WithControl(node', this, owner, c)
  BY DEF RegisterContinueStmt, Calls, Calling, this, WithControl
<1>2. /\ this \in Nodes /\ owner \in Nodes /\ owner = Container(this) /\ Root(stack[1]) = this
      /\ ~Mark(stack[1]) /\ ~Defining(stack[1]) /\ src \in Programs
  BY <1>1, TopCall DEF Sound, Calling, Defining
<1>3. c \in Nodes \cup {Nil}
  BY <1>2, ParentIs
<1>4. Sets(node', this) /\ node'[this].scope = owner /\ node'[this].control_node = c
  <2> HIDE DEF c
  <2> QED
    BY <1>1, <1>2, <1>3, SetsControl
<1>5. CASE Spins(this)
  <2>1. stack' = stack /\ answer' = answer
    BY <1>5 DEF RegisterContinueStmt
  <2>2. Walking(stack, answer, table, node')
    BY <1>1, <1>2, <1>4, SetsTouched, WalkSame DEF Sound
  <2>3. Onward(stack, answer, table, node')
    BY <1>4, <2>2, SetsOuter DEF Onward, Sound, Sets
  <2> QED
    BY <1>1, <2>1, <2>3
<1>6. CASE ~Spins(this) /\ ~Statement(Parent(this))
  <2>1. Fail
    BY <1>6 DEF RegisterContinueStmt
  <2>2. Onward(stack', answer', table, node')
    BY <1>1, <1>2, <1>4, <2>1, StepBack
  <2> QED
    BY <1>1, <2>2
<1>7. CASE ~Spins(this) /\ Statement(Parent(this))
  <2>1. answer' = answer /\ stack' = << >> \o Tail(stack)
    BY <1>7 DEF RegisterContinueStmt, Then
  <2>2. node'[this].control_node # Nil
    BY <1>4, <1>7 DEF Statement
  <2>3. ASSUME NEW x \in Nodes, Inside(x, this) PROVE Done(node', x) /\ src[x].is \notin Definitions
    <3>1. x = this
      BY <1>1, <1>2, <2>3, Leaf DEF Is
    <3> QED
      BY <1>1, <1>2, <1>4, <2>2, <3>1 DEF Done, Is, Definitions
  <2>4. Onward(<< >> \o Tail(stack), answer, table, node')
    BY <1>1, <1>4, <2>3, StepDone
  <2> QED
    BY <1>1, <2>1, <2>4
<1> QED
  BY <1>5, <1>6, <1>7
-----------------------------------------------------------------------------
(* The calls of a variable, one by one. *)
LEMMA Strung ==
  ASSUME NEW a, NEW b, NEW c
  PROVE  << >> \o <<a>> = <<a>> /\ <<a>> \o <<b>> = <<a, b>> /\ <<a, b>> \o <<c>> = <<a, b, c>>
<1> DEFINE S == {a, b, c}
           u == <<a>> \o <<b>>
           v == <<a, b>> \o <<c>>
<1>1. /\ <<a>> \in Seq(S) /\ <<b>> \in Seq(S) /\ <<a, b>> \in Seq(S) /\ <<c>> \in Seq(S) /\ <<a, b, c>> \in Seq(S)
      /\ Len(<<a>>) = 1 /\ Len(<<b>>) = 1 /\ Len(<<c>>) = 1 /\ Len(<<a, b>>) = 2 /\ Len(<<a, b, c>>) = 3
  OBVIOUS
<1>2. u \in Seq(S) /\ Len(u) = 2 /\ u[1] = a /\ u[2] = b
  BY <1>1
<1>3. v \in Seq(S) /\ Len(v) = 3 /\ v[1] = a /\ v[2] = b /\ v[3] = c
  BY <1>1
<1>4. << >> \o <<a>> = <<a>>
  OBVIOUS
<1> HIDE DEF u, v
<1>5. u = <<a, b>> /\ v = <<a, b, c>>
  BY <1>1, <1>2, <1>3
<1> QED
  BY <1>4, <1>5 DEF u, v

(* A single call.                                                          *)
LEMMA OneTask ==
  ASSUME src \in Programs, NEW c \in {"register", "init", "add", "ignored"}, NEW n \in Nodes, n # Unit,
         NEW s \in Nodes
  PROVE  /\ Task(c, n, s) \in Tasks
         /\ Task(c, n, s).call = c /\ Task(c, n, s).node = n /\ Task(c, n, s).scope = s
         /\ Defining(Task(c, n, s)) <=> c \in {"init", "add"}
         /\ Mark(Task(c, n, s)) <=> c = "ignored"
         /\ Root(Task(c, n, s)) = IF c = "register" THEN n ELSE IF c = "init" THEN init_expr(n) ELSE Nil
BY DEF Task, Tasks, Defining, Mark, Root

(* Pairs that have nothing to register, or one call that has.              *)
LEMMA RootlessPair ==
  ASSUME src \in Programs, NEW s, NEW t, Root(s) = Nil \/ Root(t) = Nil,
         Defining(s) => Root(t) = Nil,
         Defining(t) => ~Inside(t.node, Root(s)) /\ Inside(s.node, t.node),
         Mark(s) => Off(t, s.node),
         Mark(t) /\ Inside(t.node, Root(s)) => s.call = "register" /\ s.node = t.node,
         Root(s) \in Nodes \cup {Nil}, Root(t) \in Nodes \cup {Nil}, s.node \in Nodes, t.node \in Nodes,
         Root(s) = Nil => ~Defining(s) \/ Root(t) = Nil
  PROVE  Pair(s, t)
<1>1. /\ \A m : ~Inside(Nil, m)
      /\ \A n \in Nodes \cup {Nil} : ~Inside(n, Nil)
  BY InsideNil
<1>2. ~Inside(Root(s), Root(t)) /\ ~Inside(Root(t), Root(s))
  BY <1>1
<1>3. Defining(s) => ~Inside(s.node, Root(t))
  BY <1>1
<1>4. \A d, x \in Nodes : ToDefine(s, d) /\ Inside(x, Root(t)) => Before(d, x)
  <2>1. ASSUME NEW d \in Nodes, NEW x \in Nodes, ToDefine(s, d), Inside(x, Root(t)) PROVE FALSE
    <3>1. Root(t) # Nil /\ Root(s) = Nil /\ ~Defining(s)
      BY <1>1, <2>1
    <3> QED
      BY <1>1, <2>1, <3>1 DEF ToDefine
  <2> QED
    BY <2>1
<1>5. \A x, d \in Nodes : \A f \in Range(Kids(Unit)) :
       Inside(x, Root(s)) /\ Inside(d, Root(t)) /\ Inside(x, f) /\ Inside(d, f) => x < d
  BY <1>1
<1> QED
  BY <1>2, <1>3, <1>4, <1>5 DEF Pair

(* A child is inside of its parent, and not the other way round. *)
LEMMA ChildOf ==
  ASSUME src \in Programs, NEW n \in Nodes, n # Unit, InItem(n), NEW k \in Nodes, src[k].up = n, ~Scoping(n)
  PROVE  k # Unit /\ k # n /\ Inside(k, n) /\ ~Inside(n, k) /\ InItem(k) /\ Container(k) = Container(n)
<1>1. k # Unit
  BY Grown, InsideNil
<1>2. n < k /\ n \in Nat /\ k \in Nat
  BY <1>1, Grown
<1>3. Inside(k, n)
  BY InsideStep, InsideSelf
<1>4. ~Inside(n, k)
  BY <1>2, InsideNodes
<1>5. InItem(k)
  BY <1>3, InsideTrans DEF InItem
<1>6. Container(k) = Container(n)
  BY <1>1, ContainerUp
<1> QED
  BY <1>1, <1>2, <1>3, <1>4, <1>5, <1>6

(* The initial value, its mark, and the entry of the variable. *)
Valued(n, s) ==
  (IF init_expr(n) = Nil THEN << >> ELSE Ignoring(init_expr(n), s)) \o <<Task("add", n, s)>>

(* The calls that "init" makes: the initial value, whose result is         *)
(* ignored, before the definition is added.                                *)
LEMMA InitCalls ==
  ASSUME Sound, Calling("init")
  PROVE  /\ Valued(this, owner) \in Seq(Tasks) /\ Hands(Valued(this, owner), stack[1], node)
         /\ Adds(Valued(this, owner), stack[1], table, table)
<1> DEFINE n == this
           s == owner
           t == stack[1]
           e == init_expr(n)
           r == Task("register", e, s)
           i == Task("ignored", e, s)
           a == Task("add", n, s)
           ts == Valued(n, s)
<1>1. /\ n \in Nodes /\ n # Unit /\ InItem(n) /\ s \in Nodes /\ s = Container(n) /\ node[s].outer # Unset
      /\ src[n].is \in Definitions /\ src \in Programs /\ Prepared(node, t) /\ t.call = "init" /\ t.node = n
      /\ Defining(t) /\ Root(t) = e
  BY TopCall DEF Sound, Calling, this, Defining, Root
<1>2. /\ e # Nil => e \in Nodes /\ src[e].up = n /\ src[e].is \in Expressions
      /\ ~Scoping(n)
  BY <1>1, DefinitionParts DEF Scoping, Definitions
<1>3. Done(node, n)
  BY <1>1 DEF Prepared
<1> HIDE DEF n, s, t, e
<1>4. /\ a \in Tasks /\ a.call = "add" /\ a.node = n /\ a.scope = s /\ Defining(a) /\ ~Mark(a) /\ Root(a) = Nil
  BY <1>1, OneTask
<1> HIDE DEF a
<1>5. Prepared(node, a) /\ Refines(a, t)
  BY <1>1, <1>3, <1>4, InsideSelf DEF Prepared, Refines
<1>6. \A m \in Nodes : ~Inside(m, Nil)
  BY <1>1, InsideNil
<1>7. CASE e = Nil
  <2>1. ts = <<a>>
    BY <1>7, Strung DEF Valued, e, a
  <2> HIDE DEF ts
  <2>2. ts \in Seq(Tasks) /\ DOMAIN ts = {1} /\ ts[1] = a
    <3> DEFINE S == Tasks
    <3>1. a \in S
      BY <1>4
    <3> HIDE DEF S
    <3>2. ts \in Seq(S) /\ DOMAIN ts = {1} /\ ts[1] = a
      BY <2>1, <3>1
    <3> QED
      BY <3>2 DEF S
  <2>3. Paired(ts) /\ CaughtWithin(ts)
    BY <1>4, <2>2 DEF Paired, CaughtWithin
  <2>4. Hands(ts, t, node)
    BY <1>1, <1>5, <1>6, <1>7, <2>2, <2>3 DEF Hands
  <2>5. Adds(ts, t, table, table)
    BY <1>1, <1>4, <2>2 DEF Adds
  <2> QED
    BY <2>2, <2>4, <2>5 DEF n, s, t, ts
<1>8. CASE e # Nil
  <2>1. ts = <<r, i, a>>
    BY <1>8, Strung DEF Valued, e, a, Ignoring
  <2> HIDE DEF ts
  <2>2. /\ e \in Nodes /\ e # Unit /\ e # n /\ Inside(e, n) /\ ~Inside(n, e) /\ InItem(e) /\ Container(e) = s
        /\ src[e].is \in Expressions
    BY <1>1, <1>2, <1>8, ChildOf
  <2>3. /\ r \in Tasks /\ r.call = "register" /\ r.node = e /\ r.scope = s /\ ~Defining(r) /\ ~Mark(r) /\ Root(r) = e
        /\ i \in Tasks /\ i.call = "ignored" /\ i.node = e /\ ~Defining(i) /\ Mark(i) /\ Root(i) = Nil
    BY <1>1, <2>2, OneTask
  <2> HIDE DEF r, i
  <2>4. ts \in Seq(Tasks) /\ DOMAIN ts = {1, 2, 3} /\ ts[1] = r /\ ts[2] = i /\ ts[3] = a
    <3> DEFINE S == Tasks
    <3>1. r \in S /\ i \in S /\ a \in S
      BY <1>4, <2>3
    <3> HIDE DEF S
    <3>2. ts \in Seq(S) /\ DOMAIN ts = {1, 2, 3} /\ ts[1] = r /\ ts[2] = i /\ ts[3] = a
      BY <2>1, <3>1
    <3> QED
      BY <3>2 DEF S
  <2>5. Inside(e, e)
    BY <1>1, <2>2, InsideSelf
  <2>6. Prepared(node, r) /\ Prepared(node, i)
    BY <1>1, <2>2, <2>3 DEF Prepared, Ignorable
  <2>7. Refines(r, t) /\ Refines(i, t)
    BY <1>1, <2>2, <2>3, <2>5 DEF Refines
  <2>8. Pair(r, i)
    BY <1>1, <2>2, <2>3, RootlessPair
  <2>9. Pair(r, a)
    BY <1>1, <1>4, <2>2, <2>3, RootlessPair
  <2>10. Pair(i, a)
    <3>1. Off(a, e)
      BY <1>4, <1>6, <2>2 DEF Off
    <3>2. ~Inside(n, Nil)
      BY <1>1, <1>6
    <3> QED
      BY <1>1, <1>4, <2>2, <2>3, <3>1, <3>2, RootlessPair
  <2>11. Paired(ts)
    BY <2>4, <2>8, <2>9, <2>10 DEF Paired
  <2>12. CaughtWithin(ts)
    <3>1. CaughtAt(ts, 1, 2) /\ CaughtAt(ts, 2, 2)
      BY <2>3, <2>4, <2>5 DEF CaughtAt
    <3>2. \A l \in DOMAIN ts : 3 <= l => ~Mark(ts[l])
      BY <1>4, <2>4
    <3> QED
      BY <2>4, <3>1, <3>2 DEF CaughtWithin
  <2>13. Hands(ts, t, node)
    <3>1. \A m \in Nodes : Inside(m, Root(t)) => \E j \in DOMAIN ts : Inside(m, Root(ts[j]))
      BY <1>1, <2>3, <2>4
    <3> QED
      BY <1>5, <2>4, <2>6, <2>7, <2>11, <2>12, <3>1 DEF Hands
  <2>14. Adds(ts, t, table, table)
    BY <1>1, <1>4, <2>4 DEF Adds
  <2> QED
    BY <2>4, <2>13, <2>14 DEF n, s, t, ts
<1> QED
  BY <1>7, <1>8
-----------------------------------------------------------------------------
(* Variable, after its dimensions: the initial value and the entry are     *)
(* left.                                                                   *)
LEMMA StepInit ==
  ASSUME Sound, InitVariable
  PROVE  Onward(stack', answer', table', node')
<1> DEFINE ts == Valued(this, owner)
<1>1. Calling("init") /\ stack # << >> /\ table' = table /\ node' = node /\ answer' = answer
      /\ stack' = ts \o Tail(stack)
  BY DEF InitVariable, Calling, Then, InitialValue, Valued
<1>2. ~Mark(stack[1])
  BY <1>1, TopCall
<1>3. ts \in Seq(Tasks) /\ Hands(ts, stack[1], node) /\ Adds(ts, stack[1], table, table)
  BY <1>1, InitCalls
<1> HIDE DEF ts
<1>4. Touched(node, node, stack[1])
  BY DEF Touched
<1>5. Walking(ts \o Tail(stack), answer, table, node)
  BY <1>1, <1>2, <1>3, <1>4, WalkOn DEF Sound
<1>6. Onward(ts \o Tail(stack), answer, table, node)
  BY <1>5 DEF Onward, Sound
<1> QED
  BY <1>1, <1>6

(* The dimensions, and the rest of the registration. *)
Dimensioned(n, s) ==
  (IF array_info(n) = Nil THEN << >> ELSE Register(<<array_info(n)>>, s)) \o <<Task("init", n, s)>>

(* The calls of a Variable or Constant: its dimensions, then "init".       *)
LEMMA VariableCalls ==
  ASSUME Sound, Calling("register"), src[this].is \in Definitions, NEW nd2,
         Done(nd2, this), nd2[owner].outer # Unset
  PROVE  Dimensioned(this, owner) \in Seq(Tasks) /\ Hands(Dimensioned(this, owner), stack[1], nd2)
<1> DEFINE n == this
           s == owner
           t == stack[1]
           e == init_expr(n)
           d == array_info(n)
           r == Task("register", d, s)
           i == Task("init", n, s)
           ts == Dimensioned(n, s)
<1>1. /\ n \in Nodes /\ n # Unit /\ InItem(n) /\ s \in Nodes /\ s = Container(n)
      /\ src[n].is \in Definitions /\ src \in Programs /\ t.call = "register" /\ t.node = n
      /\ ~Defining(t) /\ Root(t) = n /\ Done(nd2, n) /\ nd2[s].outer # Unset
  BY TopCall DEF Sound, Calling, this, Defining, Root
<1>2. /\ e # Nil => e \in Nodes /\ src[e].up = n
      /\ d # Nil => d \in Nodes /\ src[d].up = n
      /\ d # Nil /\ e # Nil => d < e
      /\ e \in Nodes \cup {Nil} /\ d \in Nodes \cup {Nil}
      /\ \A k \in Nodes : src[k].up = n => k = d \/ k = e
      /\ ~Scoping(n)
  BY <1>1, DefinitionParts DEF Scoping, Definitions
<1> HIDE DEF n, s, t, e, d
<1>3. \A m \in Nodes : ~Inside(m, Nil)
  BY <1>1, InsideNil
<1>4. /\ i \in Tasks /\ i.call = "init" /\ i.node = n /\ i.scope = s /\ Defining(i) /\ ~Mark(i) /\ Root(i) = e
  BY <1>1, OneTask DEF e
<1>5. e # Nil => e # Unit /\ e # n /\ Inside(e, n) /\ ~Inside(n, e)
  BY <1>1, <1>2, ChildOf
<1> HIDE DEF i
<1>6. Prepared(nd2, i) /\ Refines(i, t)
  BY <1>1, <1>4, <1>5, InsideSelf DEF Prepared, Refines
<1>7. ASSUME NEW x \in Nodes, Inside(x, n)
      PROVE  x = n \/ Inside(x, d) \/ Inside(x, e)
  <2>1. ASSUME x # n PROVE Inside(x, d) \/ Inside(x, e)
    <3>1. PICK k \in Nodes : src[k].up = n /\ Inside(x, k)
      BY <1>1, <1>7, <2>1, InsideChild
    <3> QED
      BY <1>2, <3>1
  <2> QED
    BY <2>1
<1>8. CASE d = Nil
  <2>1. ts = <<i>>
    BY <1>8, Strung DEF Dimensioned, i, d
  <2> HIDE DEF ts
  <2>2. ts \in Seq(Tasks) /\ DOMAIN ts = {1} /\ ts[1] = i
    <3> DEFINE S == Tasks
    <3>1. i \in S
      BY <1>4
    <3> HIDE DEF S
    <3>2. ts \in Seq(S) /\ DOMAIN ts = {1} /\ ts[1] = i
      BY <2>1, <3>1
    <3> QED
      BY <3>2 DEF S
  <2>3. Paired(ts) /\ CaughtWithin(ts)
    BY <1>4, <2>2 DEF Paired, CaughtWithin
  <2>4. ASSUME NEW x \in Nodes, Inside(x, n) PROVE x = n \/ Inside(x, Root(ts[1]))
    BY <1>3, <1>4, <1>7, <1>8, <2>2, <2>4
  <2>5. Hands(ts, t, nd2)
    BY <1>1, <1>4, <1>6, <2>2, <2>3, <2>4 DEF Hands
  <2> QED
    BY <2>2, <2>5 DEF n, s, t, ts
<1>9. CASE d # Nil
  <2>1. ts = <<r, i>>
    <3>1. Register(<<d>>, s) = <<r>>
      BY DEF Register
    <3>2. ts = Register(<<d>>, s) \o <<i>>
      BY <1>9 DEF Dimensioned, d, i
    <3> HIDE DEF ts, r
    <3> QED
      BY <3>1, <3>2, Strung
  <2> HIDE DEF ts
  <2>2. /\ d \in Nodes /\ d # Unit /\ d # n /\ Inside(d, n) /\ ~Inside(n, d) /\ InItem(d) /\ Container(d) = s
    BY <1>1, <1>2, <1>9, ChildOf
  <2>3. r \in Tasks /\ r.call = "register" /\ r.node = d /\ r.scope = s /\ ~Defining(r) /\ ~Mark(r) /\ Root(r) = d
    BY <1>1, <2>2, OneTask
  <2> HIDE DEF r
  <2>4. ts \in Seq(Tasks) /\ DOMAIN ts = {1, 2} /\ ts[1] = r /\ ts[2] = i
    <3> DEFINE S == Tasks
    <3>1. r \in S /\ i \in S
      BY <1>4, <2>3
    <3> HIDE DEF S
    <3>2. ts \in Seq(S) /\ DOMAIN ts = {1, 2} /\ ts[1] = r /\ ts[2] = i
      BY <2>1, <3>1
    <3> QED
      BY <3>2 DEF S
  <2>5. Prepared(nd2, r) /\ Refines(r, t)
    BY <1>1, <2>2, <2>3 DEF Prepared, Refines
  <2>6. Pair(r, i)
    <3>1. CASE e = Nil
      BY <1>1, <1>4, <2>2, <2>3, <3>1, RootlessPair
    <3>2. CASE e # Nil
      <4>1. e \in Nodes /\ d < e /\ src[d].up = src[e].up /\ src[d].up = n
        BY <1>2, <1>9, <3>2
      <4> QED
        BY <1>1, <1>4, <2>2, <2>3, <4>1, SiblingPair
    <3> QED
      BY <3>1, <3>2
  <2>7. Paired(ts) /\ CaughtWithin(ts)
    BY <1>4, <2>3, <2>4, <2>6 DEF Paired, CaughtWithin
  <2>8. ASSUME NEW x \in Nodes, Inside(x, n) PROVE x = n \/ Inside(x, Root(ts[1])) \/ Inside(x, Root(ts[2]))
    BY <1>4, <1>7, <2>3, <2>4, <2>8
  <2>9. Hands(ts, t, nd2)
    BY <1>1, <1>4, <1>6, <2>4, <2>5, <2>7, <2>8 DEF Hands
  <2> QED
    BY <2>4, <2>9 DEF n, s, t, ts
<1> QED
  BY <1>8, <1>9

WithType(nd2, n, s) == nd2 = [node EXCEPT ![n].scope = s, ![n].base_type = "declared"]

(* A Variable gets its scope and its type.                                 *)
LEMMA SetsType ==
  ASSUME Sound, NEW n \in Nodes, NEW s \in Nodes, NEW nd2, WithType(nd2, n, s)
  PROVE  Sets(nd2, n) /\ nd2[n].scope = s /\ nd2[n].base_type = "declared"
         /\ \A k \in Nodes : nd2[k].outer = node[k].outer
<1>1. node \in [Nodes -> Fields] /\ src \in Programs /\ node[n] \in Fields
  BY DEF Sound
<1>2. nd2 \in [Nodes -> Fields]
  <2>1. [node[n] EXCEPT !.scope = s, !.base_type = "declared"] \in Fields
    BY <1>1 DEF Fields
  <2> QED
    BY <1>1, <2>1 DEF WithType
<1>3. \A k \in Nodes : k # n => nd2[k] = node[k]
  BY <1>1 DEF WithType
<1>4. nd2[n] = [node[n] EXCEPT !.scope = s, !.base_type = "declared"]
  BY <1>1 DEF WithType
<1>5. nd2[n].scope = s /\ nd2[n].base_type = "declared" /\ nd2[n].outer = node[n].outer
      /\ nd2[n].definition = node[n].definition
  BY <1>1, <1>4, FieldsOf DEF Fields
<1> QED
  BY <1>1, <1>2, <1>3, <1>5, InsideSelf DEF Sets

(* Variable and Constant: the dimensions and the rest are left.            *)
LEMMA StepVariable ==
  ASSUME Sound, RegisterVariable
  PROVE  Onward(stack', answer', table', node')
<1> DEFINE ts == Dimensioned(this, owner)
<1>1. Calling("register") /\ src[this].is \in Definitions /\ table' = table /\ answer' = answer
      /\ stack' = ts \o Tail(stack) /\ WithType(node', this, owner)
  BY DEF RegisterVariable, Calls, Calling, Then, Dimensioned, WithType, Is, Definitions, this
<1>2. this \in Nodes /\ owner \in Nodes /\ owner = Container(this) /\ node[owner].outer # Unset
  BY <1>1, TopCall
<1>3. Sets(node', this) /\ node'[this].scope = owner /\ node'[this].base_type = "declared"
      /\ \A k \in Nodes : node'[k].outer = node[k].outer
  BY <1>1, <1>2, SetsType
<1>4. Done(node', this)
  BY <1>1, <1>2, <1>3 DEF Done, Is, Definitions
<1>5. ts \in Seq(Tasks) /\ Hands(ts, stack[1], node')
  BY <1>1, <1>2, <1>3, <1>4, VariableCalls
<1> HIDE DEF ts
<1>6. Onward(ts \o Tail(stack), answer, table, node')
  BY <1>1, <1>3, <1>5, StepOn
<1> QED
  BY <1>1, <1>6

(* The variable is added, or one of its name was there. *)
LEMMA AddedIs ==
  ASSUME Sound, NEW d \in Nodes, src[d].is \in Definitions, NEW s \in Nodes, s = Container(d)
  PROVE  /\ table \subseteq Added(s, d) /\ Entered(Added(s, d), d) /\ TableTyped(Added(s, d))
         /\ \A e \in Added(s, d) \ table : e.def = d
<1> DEFINE map == IF Is(d, "Constant") THEN "constants" ELSE "variables"
           new == Entry(s, map, d)
<1>1. map \in {"constants", "variables"} /\ map = MapOf(d) /\ TableTyped(table) /\ src \in Programs
  BY DEF MapOf, Is, Definitions, Sound
<1>2. Added(s, d) = IF Here(s, map, src[d].name) = Nil THEN table \cup {new} ELSE table
  BY DEF Added
<1> HIDE DEF map
<1>3. new.scope = s /\ new.map = map /\ new.def = d
      /\ new \in [scope : Nodes, map : {"functions", "constants", "variables"}, def : Nodes]
  BY <1>1 DEF Entry
<1> HIDE DEF new
<1>4. Defines(d, src[d].name)
  BY DEF Defines, Definitions
<1>5. CASE Here(s, map, src[d].name) = Nil
  <2>1. Added(s, d) = table \cup {new}
    BY <1>2, <1>5
  <2>2. TableTyped(Added(s, d))
    BY <1>1, <1>3, <2>1 DEF TableTyped, Definitions
  <2>3. Entered(Added(s, d), d)
    BY <1>3, <1>4, <2>1 DEF Entered
  <2> QED
    BY <1>3, <2>1, <2>2, <2>3
<1>6. CASE Here(s, map, src[d].name) # Nil
  <2>1. Added(s, d) = table
    BY <1>2, <1>6
  <2>2. PICK e \in table : e.scope = s /\ src[e.def].name = src[d].name
    BY <1>1, <1>6, HereIs
  <2>3. Defines(e.def, src[d].name)
    BY <1>1, <2>2 DEF TableTyped, Defines
  <2> QED
    BY <1>1, <2>1, <2>2, <2>3 DEF Entered
<1> QED
  BY <1>5, <1>6

(* Variable, at last: it is added to its scope, or the call fails.         *)
LEMMA StepAdd ==
  ASSUME Sound, AddVariable
  PROVE  Onward(stack', answer', table', node')
<1>1. Calling("add") /\ stack # << >> /\ node' = node
  BY DEF AddVariable, Calling
<1>2. /\ this \in Nodes /\ owner \in Nodes /\ owner = Container(this) /\ src[this].is \in Definitions
      /\ ~Mark(stack[1]) /\ stack[1].call = "add" /\ stack[1].node = this /\ src \in Programs
  BY <1>1, TopCall DEF Sound, Calling, this
<1>3. Root(stack[1]) = Nil /\ Defining(stack[1])
  BY <1>2 DEF Root, Defining
<1>4. CASE Addable(owner, this)
  <2> DEFINE ts == << >>
             tb2 == Added(owner, this)
  <2>1. table' = tb2 /\ answer' = answer /\ stack' = ts \o Tail(stack)
    BY <1>4 DEF AddVariable, Then
  <2>2. table \subseteq tb2 /\ Entered(tb2, this) /\ TableTyped(tb2) /\ \A e \in tb2 \ table : e.def = this
    BY <1>2, AddedIs
  <2> HIDE DEF tb2
  <2>3. Adds(ts, stack[1], table, tb2)
    BY <1>2, <1>3, <2>2 DEF Adds
  <2>4. ts \in Seq(Tasks) /\ Hands(ts, stack[1], node)
    <3>1. \A x \in Nodes : ~Inside(x, Root(stack[1]))
      BY <1>2, <1>3, InsideNil
    <3> QED
      BY <3>1, NoCalls
  <2> HIDE DEF ts
  <2>5. Touched(node, node, stack[1])
    BY DEF Touched
  <2>6. Walking(ts \o Tail(stack), answer, tb2, node)
    BY <1>1, <1>2, <2>3, <2>4, <2>5, WalkOn DEF Sound
  <2>7. Onward(ts \o Tail(stack), answer, tb2, node)
    BY <1>2, <2>2, <2>6 DEF Onward, Sound
  <2> QED
    BY <1>1, <2>1, <2>7
<1>5. CASE ~Addable(owner, this)
  <2>1. Fail /\ table' = table
    BY <1>5 DEF AddVariable
  <2>2. Onward(stack', answer', table, node)
    BY <1>1, <2>1, SetsNothing, StepBack
  <2> QED
    BY <1>1, <2>1, <2>2
<1> QED
  BY <1>4, <1>5
-----------------------------------------------------------------------------
(* A call whose result is ignored has returned true.                       *)
LEMMA StepIgnored ==
  ASSUME Sound, Ignored
  PROVE  Onward(stack', answer', table', node')
<1> DEFINE val == "true"
<1>1. stack # << >> /\ Mark(stack[1]) /\ table' = table /\ node' = node
      /\ answer' = [answer EXCEPT ![stack[1].node] = val] /\ stack' = Tail(stack)
  BY DEF Ignored, Mark, this
<1>2. stack \in Seq(Tasks) /\ 1 \in DOMAIN stack /\ DOMAIN stack \subseteq Nat
      /\ \A l \in DOMAIN stack : ~(l < 1)
  BY <1>1 DEF Sound, Walking
<1>3. FirstMark(stack, 1)
  BY <1>1, <1>2 DEF FirstMark
<1>4. stack' = SubSeq(stack, 1 + 1, Len(stack))
  <2> DEFINE S == Tasks
  <2>1. stack \in Seq(S) /\ stack # << >>
    BY <1>1, <1>2
  <2> HIDE DEF S
  <2> QED
    BY <1>1, <2>1
<1>5. val \in {"true", "false"} /\ Touched(node, node, stack[1])
  BY DEF Touched
<1>6. Walking(stack', answer', table, node)
  BY <1>1, <1>3, <1>4, <1>5, WalkBack DEF Sound
<1> QED
  BY <1>1, <1>6 DEF Onward, Sound

(* An identifier means what Lexical says. *)
FunctionsKept ==
  \A e \in table : Is(e.def, "Function") =>
    \A f \in Range(Kids(Unit)) : Is(f, "Function") /\ src[f].name = src[e.def].name => f <= e.def

(* The CompUnit's children are children of the tree's root.                *)
ItemsKept == \A k \in Nodes : Item(k) => k \in Range(Kids(Unit)) /\ src[k].is \in Declarations \cup {"Function"}

(* Only one item of the file is around a node.                             *)
LEMMA SameItem ==
  ASSUME src \in Programs, NEW x \in Nodes, NEW k \in Range(Kids(Unit)), NEW l \in Range(Kids(Unit)),
         Inside(x, k), Inside(x, l)
  PROVE  k = l
<1>1. k \in Nodes /\ l \in Nodes /\ src[k].up = Unit /\ src[l].up = Unit /\ k \in Nat /\ l \in Nat
  BY Grown
<1>2. ~(k < l) /\ ~(l < k)
  BY <1>1, Siblings
<1> QED
  BY <1>1, <1>2

(* Functions are items of the file.                                        *)
LEMMA FunctionGlobal ==
  ASSUME src \in Programs, NEW d \in Nodes, Is(d, "Function")
  PROVE  d # Unit /\ src[d].up = Unit /\ Container(d) = Unit
<1>1. d # Unit
  BY Grown DEF Is
<1>2. src[d].up \in Nodes /\ Is(src[d].up, "CompUnit")
  BY <1>1, Grown DEF Under, Is, Declarations, Definitions, Statements, Expressions
<1>3. src[d].up = Unit
  <2>1. ASSUME src[d].up # Unit PROVE FALSE
    <3>1. Under(src[src[d].up].is, src[src[src[d].up].up].is)
      BY <1>2, <2>1, Grown
    <3> QED
      BY <1>2, <3>1 DEF Under, Is, Declarations, Definitions, Statements, Expressions
  <2> QED
    BY <2>1
<1> QED
  BY <1>1, <1>2, <1>3, ContainerUp DEF Scoping, Is

(* What get_definition finds for an identifier is what it means: the       *)
(* entries in the table are those of the definitions the walk has passed.  *)
LEMMA WhatItMeans ==
  ASSUME Sound, FunctionsKept, ItemsKept, Calling("register"), Is(this, "Identifier"),
         get_definition(owner, src[this].name) # Nil
  PROVE  get_definition(owner, src[this].name) \in Nodes /\ Means(this, get_definition(owner, src[this].name))
<1> DEFINE i == this
           name == src[i].name
           d == get_definition(owner, name)
           t == stack[1]
<1>1. /\ i \in Nodes /\ i # Unit /\ InItem(i) /\ owner \in Nodes /\ owner = Container(i)
      /\ node[owner].outer # Unset /\ src \in Programs /\ Outer(node) /\ TableTyped(table)
      /\ Walking(stack, answer, table, node) /\ 1 \in DOMAIN stack
      /\ t.call = "register" /\ t.node = i /\ Root(t) = i
  BY TopCall DEF Sound, Calling, this
<1>2. owner \in Scopes
  BY <1>1 DEF Scopes
<1>3. PICK e \in table :
        /\ d = e.def /\ src[e.def].name = name /\ Inside(owner, e.scope)
        /\ \A o \in table : Scoping(o.scope) /\ src[o.def].name = name /\ Inside(owner, o.scope)
                            /\ Inside(o.scope, e.scope) => o.scope = e.scope
  BY <1>1, <1>2, FoundDefinition
<1> HIDE DEF d, i, t
<1>4. /\ e.def \in Nodes /\ e.scope = Container(d) /\ e.scope \in Nodes
      /\ src[e.def].is \in {"Function", "Constant", "Variable"}
  BY <1>1, <1>3 DEF TableTyped
<1>5. Defines(d, name)
  BY <1>3, <1>4 DEF Defines
<1>6. Holds(owner, i)
  BY <1>1, ContainerHolds
<1>7. Inside(i, Container(d))
  BY <1>1, <1>3, <1>4, <1>6, InsideTrans DEF Holds
<1>8. Is(d, "Function") => \A f \in Range(Kids(Unit)) : Is(f, "Function") /\ Defines(f, name) => f <= d
  BY <1>3 DEF FunctionsKept, Defines
<1>9. Is(d, "Function") \/ Before(d, i)
  <2>1. Inside(i, Root(stack[1]))
    BY <1>1, InsideSelf DEF t
  <2> QED
    BY <1>1, <1>3, <2>1 DEF Walking, EntriesBefore
<1>10. ASSUME NEW o \in Nodes, Defines(o, name), Within(Container(o), Container(d)), Inside(i, Container(o)),
              Before(o, i)
       PROVE  FALSE
  <2> DEFINE c == Container(o)
  <2>1. c # e.scope /\ Inside(c, e.scope) /\ Inside(i, c)
    BY <1>4, <1>10 DEF Within
  <2>2. c \in Nodes
    BY <1>1, <2>1, InsideNodes
  <2>3. c # Unit
    <3>1. ASSUME c = Unit PROVE FALSE
      <4>1. Inside(e.scope, Unit) /\ Inside(Unit, e.scope) /\ Unit \in Nodes
        BY <1>1, <1>4, <2>1, <3>1, InsideUnit, Grown
      <4>2. e.scope <= Unit /\ Unit <= e.scope /\ e.scope \in Nat /\ Unit \in Nat
        BY <1>1, <1>4, <4>1, InsideNodes
      <4> QED
        BY <2>1, <3>1, <4>2
    <3> QED
      BY <3>1
  <2>4. ~Is(o, "Function") /\ src[o].is \in Definitions
    BY <1>1, <1>10, <2>3, FunctionGlobal DEF Defines, Definitions, Is
  <2>5. o # Unit
    BY <1>1, <2>4, Grown DEF Is, Definitions
  <2>6. Holds(c, o)
    BY <1>1, <2>5, ContainerHolds
  <2> HIDE DEF c
  <2>7. o < i /\ ~Inside(i, o)
    BY <1>10, <2>3 DEF Before, c
  (* Both are in the same item. *)
  <2>8. PICK k \in Range(Kids(Unit)) : Inside(i, k) /\ Inside(o, k) /\ InItem(o)
    <3>1. PICK k1 \in Nodes : Item(k1) /\ Inside(i, k1)
      BY <1>1 DEF InItem
    <3>2. PICK k \in Range(Kids(Unit)) : k \in Nodes /\ Inside(c, k)
      BY <1>1, <2>2, <2>3, InsideItem
    <3>3. Inside(i, k) /\ Inside(o, k)
      BY <1>1, <2>1, <2>6, <3>2, InsideTrans DEF Holds
    <3>4. k1 \in Range(Kids(Unit))
      BY <3>1 DEF ItemsKept
    <3>5. k1 = k
      BY <1>1, <3>1, <3>3, <3>4, SameItem
    <3> QED
      BY <3>1, <3>2, <3>3, <3>5 DEF InItem
  <2>9. ASSUME NEW j \in DOMAIN stack, Inside(o, Root(stack[j])) PROVE FALSE
    <3>1. CASE j = 1
      <4>1. Inside(o, i) /\ Is(i, "Identifier")
        BY <1>1, <2>9, <3>1 DEF t, i
      <4>2. o = i
        BY <1>1, <4>1, Leaf DEF Is
      <4> QED
        BY <2>4, <4>1, <4>2 DEF Is, Definitions
    <3>2. CASE j # 1
      <4>1. 1 < j
        BY <1>1, <3>2 DEF Walking
      <4>2. Pair(t, stack[j])
        BY <1>1, <4>1 DEF Walking, t
      <4>3. i < o
        BY <1>1, <2>8, <2>9, <4>2, InsideSelf DEF Pair
      <4>4. i \in Nat /\ o \in Nat
        BY <1>1, Grown
      <4> QED
        BY <2>7, <4>3, <4>4
    <3> QED
      BY <3>1, <3>2
  <2>10. ASSUME LostIn(answer, o) PROVE FALSE
    <3>1. PICK l \in Nodes : Inside(o, l) /\ answer[l] = "false"
      BY <2>10 DEF LostIn
    <3>2. Ignorable(l) /\ Off(t, l)
      BY <1>1, <3>1 DEF Walking, Answered, t
    <3>3. ~Inside(i, l)
      BY <1>1, <3>2 DEF Off
    <3>4. CASE l \in Range(Kids(Unit))
      <4>1. l = k
        BY <1>1, <2>8, <3>1, <3>4, SameItem
      <4> QED
        BY <2>8, <3>3, <4>1
    <3>5. CASE src[l].is \in Expressions
      <4>1. src[o].is \in Expressions \cup {"CallParam"}
        BY <1>1, <3>1, <3>5, InsideExpression
      <4> QED
        BY <2>4, <4>1 DEF Expressions, Definitions
    <3> QED
      BY <3>2, <3>4, <3>5 DEF Ignorable
  <2>11. Entered(table, o) \/ \E j \in DOMAIN stack : (Defining(stack[j]) /\ stack[j].node = o)
    BY <1>1, <2>4, <2>8, <2>9, <2>10 DEF Walking, Covered
  <2>12. CASE Entered(table, o)
    <3>1. PICK p \in table : p.scope = c /\ Defines(p.def, src[o].name)
      BY <2>12 DEF Entered, c
    <3>2. src[p.def].name = name
      BY <1>10, <3>1 DEF Defines
    <3>3. Scoping(c) /\ Inside(owner, c)
      <4>1. Scoping(c)
        BY <2>6 DEF Holds
      <4>2. c # i
        BY <4>1 DEF Scoping, Is, i
      <4> QED
        BY <1>6, <2>1, <2>2, <4>1, <4>2 DEF Holds
    <3> QED
      BY <1>3, <2>1, <3>1, <3>2, <3>3
  <2>13. ASSUME NEW j \in DOMAIN stack, Defining(stack[j]), stack[j].node = o PROVE FALSE
    <3>1. j # 1
      BY <1>1, <2>13 DEF t, Defining
    <3>2. 1 < j
      BY <1>1, <3>1 DEF Walking
    <3>3. Pair(t, stack[j])
      BY <1>1, <3>2 DEF Walking, t
    <3>4. Inside(i, o)
      BY <1>1, <2>13, <3>3 DEF Pair
    <3> QED
      BY <2>7, <3>4
  <2> QED
    BY <2>11, <2>12, <2>13
<1>11. Means(i, d)
  BY <1>5, <1>7, <1>8, <1>9, <1>10 DEF Means
<1>12. d \in Nodes
  BY <1>3, <1>4
<1> QED
  BY <1>11, <1>12 DEF d, i
-----------------------------------------------------------------------------
(* An identifier with the definition that was found for it. *)
WithDefinition(nd2, n, s, d, b) ==
  nd2 = [node EXCEPT ![n].scope = s, ![n].definition = d, ![n].is_lvalue = b]

(* An identifier gets its scope and its definition.                        *)
LEMMA SetsDefinition ==
  ASSUME Sound, NEW n \in Nodes, NEW s \in Nodes, NEW d \in Nodes, Means(n, d), NEW b \in BOOLEAN,
         NEW nd2, WithDefinition(nd2, n, s, d, b)
  PROVE  Sets(nd2, n) /\ nd2[n].scope = s /\ nd2[n].definition = d
<1>1. node \in [Nodes -> Fields] /\ src \in Programs /\ node[n] \in Fields
  BY DEF Sound
<1>2. nd2 \in [Nodes -> Fields]
  <2>1. [node[n] EXCEPT !.scope = s, !.definition = d, !.is_lvalue = b] \in Fields
    BY <1>1 DEF Fields
  <2> QED
    BY <1>1, <2>1 DEF WithDefinition
<1>3. \A k \in Nodes : k # n => nd2[k] = node[k]
  BY <1>1 DEF WithDefinition
<1>4. nd2[n] = [node[n] EXCEPT !.scope = s, !.definition = d, !.is_lvalue = b]
  BY <1>1 DEF WithDefinition
<1>5. nd2[n].scope = s /\ nd2[n].definition = d /\ nd2[n].outer = node[n].outer
  BY <1>1, <1>4, FieldsOf DEF Fields
<1> QED
  BY <1>1, <1>2, <1>3, <1>5, InsideSelf DEF Sets

(* Identifier: it fails without a definition.                              *)
LEMMA StepIdentifier ==
  ASSUME Sound, FunctionsKept, ItemsKept, RegisterIdentifier
  PROVE  Onward(stack', answer', table', node')
<1> DEFINE d == get_definition(owner, src[this].name)
           b == Is(d, "Variable")
<1>1. Calling("register") /\ Is(this, "Identifier") /\ table' = table /\ stack # << >>
  BY DEF RegisterIdentifier, Calls, Calling, this
<1>2. /\ this \in Nodes /\ owner \in Nodes /\ owner = Container(this) /\ Root(stack[1]) = this /\ src \in Programs
  BY <1>1, TopCall DEF Sound
<1>3. CASE d = Nil
  <2>1. WithScope(node', this, owner) /\ Fail
    BY <1>3 DEF RegisterIdentifier, WithScope
  <2>2. Sets(node', this)
    BY <1>2, <2>1, SetsScope
  <2>3. Onward(stack', answer', table, node')
    BY <1>1, <1>2, <2>1, <2>2, StepBack
  <2> QED
    BY <1>1, <2>3
<1>4. CASE d # Nil
  <2>1. WithDefinition(node', this, owner, d, b) /\ answer' = answer /\ stack' = << >> \o Tail(stack)
    BY <1>4 DEF RegisterIdentifier, WithDefinition, Then
  <2>2. d \in Nodes /\ Means(this, d) /\ b \in BOOLEAN
    BY <1>1, <1>4, WhatItMeans DEF Is
  <2> HIDE DEF d, b
  <2>3. Sets(node', this) /\ node'[this].scope = owner /\ node'[this].definition = d
    BY <1>2, <2>1, <2>2, SetsDefinition
  <2>4. d # Unset
    BY <1>2, <2>2, Grown DEF Unset
  <2>5. ASSUME NEW x \in Nodes, Inside(x, this) PROVE Done(node', x) /\ src[x].is \notin Definitions
    <3>1. x = this
      BY <1>1, <1>2, <2>5, Leaf DEF Is
    <3> QED
      BY <1>1, <1>2, <2>3, <2>4, <3>1 DEF Done, Is, Definitions
  <2>6. Onward(<< >> \o Tail(stack), answer, table, node')
    BY <1>1, <2>3, <2>5, StepDone
  <2> QED
    BY <1>1, <2>1, <2>6
<1> QED
  BY <1>3, <1>4

(* The name of a called function. *)
LEMMA NameMeans ==
  ASSUME Sound, FunctionsKept, NEW i \in Nodes, Callee(i), i # Unit, NEW s, s = Container(i),
         node[s].outer # Unset, get_function(s, src[i].name) # Nil
  PROVE  get_function(s, src[i].name) \in Nodes /\ Means(i, get_function(s, src[i].name))
<1> DEFINE name == src[i].name
           d == get_function(s, name)
<1>1. src \in Programs /\ Outer(node) /\ TableTyped(table) /\ Holds(s, i)
  BY ContainerHolds DEF Sound
<1>2. s \in Scopes
  BY <1>1 DEF Scopes, Holds
<1>3. PICK e \in table : d = e.def /\ src[e.def].name = name /\ Inside(s, e.scope) /\ e.map = "functions"
  BY <1>1, <1>2, FoundFunction
<1> HIDE DEF d
<1>4. /\ d \in Nodes /\ e.scope = Container(d) /\ e.map = MapOf(d)
      /\ src[d].is \in {"Function", "Constant", "Variable"}
  BY <1>1, <1>3 DEF TableTyped
<1>5. Is(d, "Function")
  BY <1>3, <1>4 DEF MapOf
<1>6. Defines(d, name)
  BY <1>3, <1>4 DEF Defines
<1>7. Inside(i, Container(d))
  BY <1>1, <1>3, <1>4, InsideTrans DEF Holds
<1>8. \A f \in Range(Kids(Unit)) : Is(f, "Function") /\ Defines(f, name) => f <= d
  BY <1>3, <1>5 DEF FunctionsKept, Defines
<1>9. Means(i, d)
  BY <1>5, <1>6, <1>7, <1>8 DEF Means
<1> QED
  BY <1>4, <1>9 DEF d

WithName(nd2, n, m, s, d) ==
  nd2 = [node EXCEPT ![n].scope = s, ![m].scope = s, ![m].definition = d]
Scoped(nd2, n, m, s) ==
  /\ Sets(nd2, n) /\ nd2[n].scope = s /\ nd2[m].scope = s
  /\ \A k \in Nodes : nd2[k].outer = node[k].outer

(* A call gets its scope, and its name the function.                       *)
LEMMA SetsName ==
  ASSUME Sound, NEW n \in Nodes, NEW m \in Nodes, m # n, Inside(m, n), NEW s \in Nodes,
         NEW d \in Nodes \cup {Unset}, d = node[m].definition \/ Means(m, d),
         NEW nd2, WithName(nd2, n, m, s, d)
  PROVE  Scoped(nd2, n, m, s)
<1>1. node \in [Nodes -> Fields] /\ src \in Programs /\ node[n] \in Fields /\ node[m] \in Fields
  BY DEF Sound
<1>2. nd2 \in [Nodes -> Fields]
  <2>1. [node[n] EXCEPT !.scope = s] \in Fields /\ [node[m] EXCEPT !.scope = s, !.definition = d] \in Fields
    BY <1>1 DEF Fields
  <2> QED
    BY <1>1, <2>1 DEF WithName
<1>3. \A k \in Nodes : k # n /\ k # m => nd2[k] = node[k]
  BY <1>1 DEF WithName
<1>4. nd2[n] = [node[n] EXCEPT !.scope = s] /\ nd2[m] = [node[m] EXCEPT !.scope = s, !.definition = d]
  BY <1>1 DEF WithName
<1>5. /\ nd2[n].scope = s /\ nd2[n].definition = node[n].definition /\ nd2[n].outer = node[n].outer
      /\ nd2[m].scope = s /\ nd2[m].definition = d /\ nd2[m].outer = node[m].outer
  BY <1>1, <1>4, FieldsOf DEF Fields
<1> QED
  BY <1>1, <1>2, <1>3, <1>5, InsideSelf DEF Sets, Scoped

(* CallExpr: the function is looked up, the parameters are left.           *)
LEMMA StepCallExpr ==
  ASSUME Sound, FunctionsKept, RegisterCallExpr
  PROVE  Onward(stack', answer', table', node')
<1> DEFINE m == Kids(this)[1]
           f == get_function(owner, src[m].name)
           d == IF f = Nil THEN node[m].definition ELSE f
           ks == Tail(Kids(this))
           ts == Register(ks, owner)
<1>1. Calling("register") /\ Is(this, "CallExpr") /\ table' = table /\ answer' = answer
      /\ stack' = ts \o Tail(stack)
      /\ node' = [node EXCEPT ![this].scope = owner, ![m].scope = owner,
                    ![m].definition = IF f = Nil THEN @ ELSE f]
  BY DEF RegisterCallExpr, Calls, Calling, Then, this
<1>2. /\ this \in Nodes /\ owner \in Nodes /\ owner = Container(this) /\ Root(stack[1]) = this
      /\ node[owner].outer # Unset /\ src \in Programs /\ node \in [Nodes -> Fields]
  BY <1>1, TopCall DEF Sound
<1> DEFINE kids == Kids(this)
<1>3. /\ kids \in Seq(Nodes) /\ Ascending(kids) /\ \A i \in DOMAIN kids : src[kids[i]].up = this
      /\ \A k \in Nodes : src[k].up = this => k \in Range(kids)
  BY <1>2, AllKids
<1>4. Len(kids) = 2 /\ src[kids[1]].is = "Identifier"
  <2>1. Shaped(src, this)
    BY <1>2, Grown
  <2> DEFINE class == [k \in DOMAIN src[this].kids |-> src[src[this].kids[k]].is]
  <2>2. class = <<"Identifier", "CallParam">>
    BY <1>1, <2>1 DEF Shaped, Is
  <2>3. DOMAIN class = {1, 2} /\ class[1] = "Identifier"
    <3> HIDE DEF class
    <3> QED
      BY <2>2
  <2>4. DOMAIN kids = {1, 2} /\ src[kids[1]].is = "Identifier"
    BY <2>3 DEF Kids
  <2> HIDE DEF kids
  <2>5. Len(kids) \in Nat /\ DOMAIN kids = 1 .. Len(kids)
    BY <1>3
  <2>6. 1 \in 1 .. Len(kids) /\ 2 \in 1 .. Len(kids) /\ 3 \notin 1 .. Len(kids)
    BY <2>4, <2>5
  <2> QED
    BY <2>4, <2>5, <2>6
<1>5. m = kids[1] /\ ks = Tail(kids) /\ ks \in Seq(Nodes) /\ ks = <<kids[2]>> /\ m \in Nodes
      /\ kids[2] \in Nodes /\ Range(kids) = {m, kids[2]} /\ src[m].up = this /\ src[kids[2]].up = this
  <2> DEFINE k2 == kids[2]
  <2> HIDE DEF kids
  <2>1. DOMAIN kids = {1, 2} /\ kids[1] \in Nodes /\ k2 \in Nodes
    BY <1>3, <1>4
  <2>2. Tail(kids) \in Seq(Nodes) /\ Len(Tail(kids)) = 1 /\ Tail(kids)[1] = k2
    <3> DEFINE S == Nodes
    <3>1. kids \in Seq(S) /\ Len(kids) = 2
      BY <1>3, <1>4
    <3> HIDE DEF S
    <3>2. kids # << >>
      BY <3>1
    <3>3. /\ Tail(kids) \in Seq(S) /\ Len(Tail(kids)) = Len(kids) - 1
          /\ \A i \in 1 .. Len(Tail(kids)) : Tail(kids)[i] = kids[i + 1]
      BY <3>1, <3>2, HeadTailProperties
    <3> QED
      BY <3>1, <3>3 DEF S, k2
  <2>3. Tail(kids) = <<k2>>
    <3> DEFINE v == Tail(kids)
    <3>1. v \in Seq(Nodes) /\ Len(v) = 1 /\ v[1] = k2
      BY <2>2
    <3> HIDE DEF v, k2
    <3>2. v = <<k2>>
      BY <3>1
    <3> QED
      BY <3>2 DEF v
  <2>4. Range(kids) = {kids[1], k2}
    BY <2>1 DEF Range
  <2> QED
    BY <1>3, <2>1, <2>2, <2>3, <2>4 DEF kids
<1> HIDE DEF kids, m, ks
<1>6. Is(m, "Identifier") /\ Callee(m) /\ m # this /\ Inside(m, this) /\ m # Unit /\ Container(m) = owner
  <2>1. Is(m, "Identifier") /\ Callee(m)
    BY <1>1, <1>4, <1>5 DEF Is, Callee
  <2>2. m # Unit /\ m # this
    BY <1>1, <1>2, <2>1, Grown DEF Is
  <2>3. Inside(m, this)
    BY <1>2, <1>5, InsideStep, InsideSelf
  <2>4. ~Scoping(this)
    BY <1>1 DEF Scoping, Is
  <2> QED
    BY <1>2, <1>5, <2>1, <2>2, <2>3, <2>4, ContainerUp
<1>7. WithName(node', this, m, owner, d)
  BY <1>1, <1>2, <1>5, <1>6 DEF WithName
<1>8. d \in Nodes \cup {Unset} /\ (d = node[m].definition \/ Means(m, d))
  <2>1. CASE f = Nil
    BY <1>2, <1>5, <2>1, FieldsOf
  <2>2. CASE f # Nil
    BY <1>2, <1>5, <1>6, <2>2, NameMeans
  <2> QED
    BY <2>1, <2>2
<1> HIDE DEF d
<1>9. Sets(node', this) /\ node'[this].scope = owner /\ node'[m].scope = owner
      /\ \A k \in Nodes : node'[k].outer = node[k].outer
  <2> DEFINE n == this
             s == owner
  <2>1. /\ n \in Nodes /\ m \in Nodes /\ m # n /\ Inside(m, n) /\ s \in Nodes /\ WithName(node', n, m, s, d)
    BY <1>2, <1>5, <1>6, <1>7
  <2> HIDE DEF n, s
  <2>2. Scoped(node', n, m, s)
    BY <1>8, <2>1, SetsName
  <2> QED
    BY <2>2 DEF Scoped, n, s
<1>10. Done(node', this) /\ Done(node', m) /\ src[this].is \notin Definitions /\ src[m].is \notin Definitions
  BY <1>1, <1>2, <1>6, <1>9 DEF Done, Is, Definitions
<1>11. ~Scoping(this) /\ node'[owner].outer # Unset
  BY <1>1, <1>2, <1>9 DEF Scoping, Is
<1>12. Ascending(ks) /\ Range(ks) = {kids[2]} /\ \A i \in DOMAIN ks : src[ks[i]].up = this
  <2> DEFINE k2 == kids[2]
  <2>0. ks = <<k2>>
    BY <1>5
  <2> HIDE DEF k2
  <2>1. DOMAIN ks = {1} /\ ks[1] = k2
    BY <2>0
  <2> QED
    BY <1>5, <2>1 DEF Ascending, Range, k2
<1>13. ASSUME NEW k \in Nodes, src[k].up = this
       PROVE  k \in Range(ks) \/ \A x \in Nodes : Inside(x, k) => Done(node', x) /\ src[x].is \notin Definitions
  <2>1. k = m \/ k \in Range(ks)
    BY <1>3, <1>5, <1>12, <1>13
  <2>2. \A x \in Nodes : Inside(x, m) => x = m
    BY <1>2, <1>5, <1>6, Leaf DEF Is
  <2> QED
    BY <1>10, <2>1, <2>2
<1>14. ts \in Seq(Tasks) /\ Hands(ts, stack[1], node')
  BY <1>1, <1>5, <1>10, <1>11, <1>12, <1>13, HandsOver
<1> HIDE DEF ts
<1>15. Onward(ts \o Tail(stack), answer, table, node')
  BY <1>1, <1>9, <1>14, StepOn
<1> QED
  BY <1>1, <1>15
-----------------------------------------------------------------------------
(* The items of the CompUnit in the order in which they are registered.    *)
InOrder(a, b) ==
  a # b /\ (a < b \/ (src[a].is \in Declarations /\ Is(b, "Function")))
Listed(items) ==
  /\ items \in Seq(Nodes)
  /\ \A p \in DOMAIN items : Item(items[p])
  /\ \A p, q \in DOMAIN items : p < q => InOrder(items[p], items[q])
  /\ \A k : Item(k) => \E p \in DOMAIN items : items[p] = k

(* The children of the CompUnit are items of the file.                     *)
LEMMA ItemsKeptIs ==
  ASSUME Parsed
  PROVE  ItemsKept
<1>1. /\ \A k \in Range(decls) : k \in Range(Kids(Unit)) /\ src[k].is \in Declarations
      /\ \A k \in Range(funcdefs) : k \in Range(Kids(Unit)) /\ src[k].is = "Function"
  BY DEF Parsed, Is
<1> QED
  BY <1>1 DEF ItemsKept, Item

(* The order of registration: declarations before functions, each in the   *)
(* order of the source.                                                    *)
LEMMA ItemsListed ==
  ASSUME src \in Programs, Parsed
  PROVE  Listed(decls \o funcdefs)
<1> DEFINE items == decls \o funcdefs
           m == Len(decls)
           n == Len(funcdefs)
<1>1. /\ decls \in Seq(Nodes) /\ funcdefs \in Seq(Nodes) /\ m \in Nat /\ n \in Nat
      /\ DOMAIN decls = 1 .. m /\ DOMAIN funcdefs = 1 .. n
  BY DEF Parsed
<1>2. items \in Seq(Nodes) /\ Len(items) = m + n /\ DOMAIN items = 1 .. m + n
      /\ \A i \in 1 .. m + n : items[i] = IF i <= m THEN decls[i] ELSE funcdefs[i - m]
  <2>1. items \in Seq(Nodes) /\ Len(items) = m + n
    BY <1>1, ConcatProperties
  <2>2. \A i \in 1 .. m + n : items[i] = IF i <= m THEN decls[i] ELSE funcdefs[i - m]
    BY <1>1, ConcatProperties
  <2> HIDE DEF items
  <2> QED
    BY <2>1, <2>2
<1> HIDE DEF items, m, n
<1>3. ASSUME NEW i \in 1 .. m + n
      PROVE  \/ i <= m /\ i \in DOMAIN decls /\ items[i] = decls[i]
             \/ i > m /\ i - m \in DOMAIN funcdefs /\ items[i] = funcdefs[i - m]
  BY <1>1, <1>2
<1>4. /\ \A i \in DOMAIN decls : decls[i] \in Range(decls)
      /\ \A i \in DOMAIN funcdefs : funcdefs[i] \in Range(funcdefs)
  BY DEF Range
<1>5. \A p \in DOMAIN items : Item(items[p])
  BY <1>2, <1>3, <1>4 DEF Item
<1>6. ASSUME NEW p \in DOMAIN items, NEW q \in DOMAIN items, p < q PROVE InOrder(items[p], items[q])
  <2>1. p \in Nat /\ q \in Nat /\ p \in 1 .. m + n /\ q \in 1 .. m + n
    BY <1>1, <1>2
  <2>2. CASE q <= m
    <3>1. p \in DOMAIN decls /\ q \in DOMAIN decls /\ items[p] = decls[p] /\ items[q] = decls[q]
      BY <1>1, <1>3, <1>6, <2>1, <2>2
    <3>2. decls[p] < decls[q] /\ decls[p] \in Nodes /\ decls[q] \in Nodes
      BY <1>1, <1>6, <3>1 DEF Parsed, Ascending
    <3>3. decls[p] # decls[q]
      BY <3>2, Grown
    <3> QED
      BY <3>1, <3>2, <3>3 DEF InOrder
  <2>3. CASE p > m
    <3>1. p - m \in DOMAIN funcdefs /\ q - m \in DOMAIN funcdefs /\ p - m < q - m
          /\ items[p] = funcdefs[p - m] /\ items[q] = funcdefs[q - m]
      BY <1>1, <1>3, <1>6, <2>1, <2>3
    <3>2. funcdefs[p - m] < funcdefs[q - m] /\ funcdefs[p - m] \in Nodes /\ funcdefs[q - m] \in Nodes
      BY <1>1, <3>1 DEF Parsed, Ascending
    <3>3. funcdefs[p - m] # funcdefs[q - m]
      BY <3>2, Grown
    <3> QED
      BY <3>1, <3>2, <3>3 DEF InOrder
  <2>4. CASE p <= m /\ q > m
    <3>1. items[p] \in Range(decls) /\ items[q] \in Range(funcdefs)
      BY <1>1, <1>3, <1>4, <2>1, <2>4
    <3>2. src[items[p]].is \in Declarations /\ Is(items[q], "Function")
      BY <3>1 DEF Parsed
    <3>3. items[p] # items[q]
      BY <3>2 DEF Is, Declarations
    <3> QED
      BY <3>2, <3>3 DEF InOrder
  <2> QED
    BY <1>1, <2>1, <2>2, <2>3, <2>4
<1>7. ASSUME NEW k, Item(k) PROVE \E p \in DOMAIN items : items[p] = k
  <2>1. CASE k \in Range(decls)
    <3>1. PICK i \in DOMAIN decls : decls[i] = k
      BY <2>1 DEF Range
    <3>2. i \in DOMAIN items /\ i <= m
      BY <1>1, <1>2, <3>1
    <3>3. items[i] = k
      BY <1>2, <3>1, <3>2
    <3> QED
      BY <3>2, <3>3
  <2>2. CASE k \in Range(funcdefs)
    <3>1. PICK i \in DOMAIN funcdefs : funcdefs[i] = k
      BY <2>2 DEF Range
    <3>2. i + m \in DOMAIN items /\ ~(i + m <= m) /\ (i + m) - m = i
      BY <1>1, <1>2, <3>1
    <3>3. items[i + m] = funcdefs[(i + m) - m]
      BY <1>2, <3>2
    <3> QED
      BY <3>1, <3>2, <3>3
  <2> QED
    BY <1>7, <2>1, <2>2 DEF Item
<1>8. Listed(items)
  BY <1>2, <1>5, <1>6, <1>7 DEF Listed
<1> QED
  BY <1>8 DEF items

(* Two items: nothing of one is in the other, and what the first defines   *)
(* is known in the second.                                                 *)
LEMMA Apart ==
  ASSUME src \in Programs, ItemsKept, NEW a, NEW b, Item(a), Item(b), a # b, a \in Nodes, b \in Nodes
  PROVE  ~Inside(a, b) /\ ~Inside(b, a)
<1>1. a \in Range(Kids(Unit)) /\ b \in Range(Kids(Unit))
  BY DEF ItemsKept
<1>2. Inside(a, a) /\ Inside(b, b)
  BY InsideSelf
<1> QED
  BY <1>1, <1>2, SameItem

(* What is defined in an item is known in the items that are registered    *)
(* later.                                                                  *)
LEMMA Earlier ==
  ASSUME src \in Programs, ItemsKept, NEW a \in Nodes, NEW b \in Nodes, Item(a), Item(b), InOrder(a, b),
         NEW d \in Nodes, Inside(d, a), NEW x \in Nodes, Inside(x, b)
  PROVE  Before(d, x)
<1>1. /\ a \in Range(Kids(Unit)) /\ b \in Range(Kids(Unit)) /\ src[a].up = Unit /\ src[b].up = Unit
  <2>1. a \in Range(Kids(Unit)) /\ b \in Range(Kids(Unit))
    BY DEF ItemsKept
  <2>2. Range(Kids(Unit)) = {k \in Nodes : src[k].up = Unit}
    BY Grown
  <2> QED
    BY <2>1, <2>2
<1>2. CASE src[a].is \in Declarations /\ Is(b, "Function")
  <2>1. Container(d) = Unit
    BY <1>1, <1>2, GlobalContainer
  <2> QED
    BY <1>1, <1>2, <2>1 DEF Before
<1>3. CASE a < b
  <2>1. d < x
    BY <1>1, <1>3, Siblings
  <2>2. ~Inside(x, d)
    <3>1. ASSUME Inside(x, d) PROVE FALSE
      <4>1. Inside(x, a)
        BY <3>1, InsideTrans
      <4>2. a = b
        BY <1>1, <4>1, SameItem
      <4> QED
        BY <4>2 DEF InOrder
    <3> QED
      BY <3>1
  <2> QED
    BY <2>1, <2>2 DEF Before
<1> QED
  BY <1>2, <1>3 DEF InOrder
-----------------------------------------------------------------------------
(* The first calls: every item, and after each the mark of its result.     *)
Half(i) == (i + 1) \div 2

(* Two calls for each item: the item's and its mark.                       *)
LEMMA Halves ==
  ASSUME NEW n \in Nat, NEW i \in 1 .. 2 * n
  PROVE  /\ i \in Nat /\ Half(i) \in 1 .. n
         /\ (i % 2 = 1 /\ i + 1 \in 1 .. 2 * n /\ (i + 1) % 2 = 0 /\ Half(i + 1) = Half(i)) \/ i % 2 = 0
         /\ \A j \in 1 .. 2 * n : i < j => Half(i) < Half(j) \/ (Half(i) = Half(j) /\ i % 2 = 1 /\ j % 2 = 0)
<1>1. i \in Nat /\ i \in 1 .. 2 * n
  OBVIOUS
<1>2. Half(i) \in 1 .. n
  BY <1>1 DEF Half
<1>3. (i % 2 = 1 /\ i + 1 \in 1 .. 2 * n /\ (i + 1) % 2 = 0 /\ Half(i + 1) = Half(i)) \/ i % 2 = 0
  BY <1>1 DEF Half
<1>4. ASSUME NEW j \in 1 .. 2 * n, i < j
      PROVE  Half(i) < Half(j) \/ (Half(i) = Half(j) /\ i % 2 = 1 /\ j % 2 = 0)
  BY <1>1, <1>4 DEF Half
<1> QED
  BY <1>1, <1>2, <1>3, <1>4

Started(items) == [i \in 1 .. 2 * Len(items) |-> Ignoring(items[Half(i)], Unit)[2 - (i % 2)]]
Alternating(u, items) ==
  /\ u \in Seq(Tasks) /\ DOMAIN u = 1 .. 2 * Len(items)
  /\ \A i \in DOMAIN u :
       /\ Half(i) \in DOMAIN items /\ u[i].node = items[Half(i)] /\ u[i].scope = Unit /\ ~Defining(u[i])
       /\ i % 2 = 1 => u[i].call = "register" /\ ~Mark(u[i]) /\ Root(u[i]) = items[Half(i)]
       /\ i % 2 = 0 => Mark(u[i]) /\ Root(u[i]) = Nil

(* The calls that the CompUnit makes, one by one.                          *)
LEMMA StartedIs ==
  ASSUME src \in Programs, ItemsKept, NEW items, Listed(items)
  PROVE  Alternating(Started(items), items)
<1> DEFINE u == Started(items)
           n == Len(items)
<1>1. items \in Seq(Nodes) /\ n \in Nat /\ DOMAIN items = 1 .. n
  BY DEF Listed
<1>2. \A p \in DOMAIN items : items[p] \in Nodes /\ items[p] # Unit
  <2>1. ASSUME NEW p \in DOMAIN items PROVE items[p] \in Nodes /\ items[p] # Unit
    <3>1. items[p] \in Nodes /\ Item(items[p])
      BY <1>1 DEF Listed
    <3> QED
      BY <3>1, Grown DEF ItemsKept, Is, Declarations
  <2> QED
    BY <2>1
<1> HIDE DEF n
<1>3. Unit \in Nodes
  BY Grown
<1>4. ASSUME NEW i \in 1 .. 2 * n
      PROVE  /\ Half(i) \in DOMAIN items
             /\ i % 2 = 1 => Ignoring(items[Half(i)], Unit)[2 - (i % 2)] = Task("register", items[Half(i)], Unit)
             /\ i % 2 = 0 => Ignoring(items[Half(i)], Unit)[2 - (i % 2)] = Task("ignored", items[Half(i)], Unit)
             /\ i % 2 \in {0, 1}
  <2>1. i \in Nat /\ Half(i) \in 1 .. n /\ i % 2 \in {0, 1}
    BY <1>1, Halves
  <2>2. i % 2 = 1 => 2 - (i % 2) = 1
    OBVIOUS
  <2>3. i % 2 = 0 => 2 - (i % 2) = 2
    OBVIOUS
  <2> QED
    BY <1>1, <2>1, <2>2, <2>3 DEF Ignoring
<1>5. u = [i \in 1 .. 2 * n |-> Ignoring(items[Half(i)], Unit)[2 - (i % 2)]]
  BY DEF Started, n
<1> DEFINE f(i) == Ignoring(items[Half(i)], Unit)[2 - (i % 2)]
<1>6. u = [i \in 1 .. 2 * n |-> f(i)]
  BY <1>5
<1>7. ASSUME NEW i \in 1 .. 2 * n
      PROVE  /\ f(i) \in Tasks
             /\ Half(i) \in DOMAIN items /\ f(i).node = items[Half(i)] /\ f(i).scope = Unit /\ ~Defining(f(i))
             /\ i % 2 = 1 => f(i).call = "register" /\ ~Mark(f(i)) /\ Root(f(i)) = items[Half(i)]
             /\ i % 2 = 0 => Mark(f(i)) /\ Root(f(i)) = Nil
  <2> DEFINE k == items[Half(i)]
  <2>1. k \in Nodes /\ k # Unit /\ Half(i) \in DOMAIN items
    BY <1>2, <1>4
  <2>2. CASE i % 2 = 1
    <3>1. f(i) = Task("register", k, Unit)
      BY <1>4, <2>2
    <3> HIDE DEF f, k
    <3> DEFINE t == Task("register", k, Unit)
    <3>2. t \in Tasks /\ t.node = k /\ t.scope = Unit /\ ~Defining(t) /\ t.call = "register" /\ ~Mark(t) /\ Root(t) = k
      BY <1>3, <2>1, OneTask
    <3> HIDE DEF t
    <3>3. f(i) = t
      BY <3>1 DEF t
    <3> QED
      BY <2>1, <2>2, <3>2, <3>3 DEF k
  <2>3. CASE i % 2 = 0
    <3>1. f(i) = Task("ignored", k, Unit)
      BY <1>4, <2>3
    <3> HIDE DEF f, k
    <3> DEFINE t == Task("ignored", k, Unit)
    <3>2. t \in Tasks /\ t.node = k /\ t.scope = Unit /\ ~Defining(t) /\ Mark(t) /\ Root(t) = Nil
      BY <1>3, <2>1, OneTask
    <3> HIDE DEF t
    <3>3. f(i) = t
      BY <3>1 DEF t
    <3> QED
      BY <2>1, <2>3, <3>2, <3>3 DEF k
  <2> QED
    BY <1>4, <2>2, <2>3
<1> HIDE DEF f, u
<1>8. DOMAIN u = 1 .. 2 * n /\ \A i \in DOMAIN u : u[i] = f(i)
  BY <1>6
<1>9. u \in Seq(Tasks)
  <2> DEFINE S == Tasks
  <2>1. \A i \in 1 .. 2 * n : f(i) \in S
    BY <1>7
  <2>2. 2 * n \in Nat
    BY <1>1
  <2> HIDE DEF S
  <2>3. u \in Seq(S)
    BY <1>6, <2>1, <2>2
  <2> QED
    BY <2>3 DEF S
<1>10. Alternating(u, items)
  BY <1>7, <1>8, <1>9 DEF Alternating, n
<1> QED
  BY <1>10 DEF u
-----------------------------------------------------------------------------
(* They are in order.                                                      *)
LEMMA StartedPairs ==
  ASSUME src \in Programs, ItemsKept, NEW items, Listed(items), NEW u, Alternating(u, items),
         NEW i \in DOMAIN u, NEW j \in DOMAIN u, i < j
  PROVE  Pair(u[i], u[j])
<1> DEFINE n == Len(items)
           s == u[i]
           t == u[j]
           a == items[Half(i)]
           b == items[Half(j)]
<1>1. items \in Seq(Nodes) /\ n \in Nat /\ DOMAIN items = 1 .. n /\ DOMAIN u = 1 .. 2 * n
  BY DEF Listed, Alternating
<1>2. /\ Half(i) \in DOMAIN items /\ Half(j) \in DOMAIN items /\ i % 2 \in {0, 1} /\ j % 2 \in {0, 1}
      /\ Half(i) < Half(j) \/ (Half(i) = Half(j) /\ i % 2 = 1 /\ j % 2 = 0)
  <2> HIDE DEF n
  <2> QED
    BY <1>1, Halves
<1>3. /\ s.node = a /\ ~Defining(s) /\ (i % 2 = 1 => s.call = "register" /\ ~Mark(s) /\ Root(s) = a)
      /\ i % 2 = 0 => Mark(s) /\ Root(s) = Nil
      /\ t.node = b /\ ~Defining(t) /\ (j % 2 = 1 => t.call = "register" /\ ~Mark(t) /\ Root(t) = b)
      /\ j % 2 = 0 => Mark(t) /\ Root(t) = Nil
  BY DEF Alternating
<1>4. a \in Nodes /\ b \in Nodes /\ Item(a) /\ Item(b) /\ (Half(i) < Half(j) => InOrder(a, b))
  BY <1>1, <1>2 DEF Listed
<1> HIDE DEF n, s, t, a, b
<1>5. \A m \in Nodes : ~Inside(m, Nil)
  BY InsideNil
<1>6. CASE Half(i) = Half(j) /\ i % 2 = 1 /\ j % 2 = 0
  <2>1. a = b
    BY <1>6 DEF a, b
  <2>2. Pair(s, t)
    BY <1>3, <1>4, <1>6, <2>1, RootlessPair
  <2> QED
    BY <2>2 DEF s, t
<1>7. CASE Half(i) < Half(j)
  <2>1. InOrder(a, b) /\ a # b
    BY <1>4, <1>7 DEF InOrder
  <2>2. ~Inside(a, b) /\ ~Inside(b, a)
    BY <1>4, <2>1, Apart
  <2>3. CASE i % 2 = 1 /\ j % 2 = 1
    <3>1. \A d, x \in Nodes : ToDefine(s, d) /\ Inside(x, Root(t)) => Before(d, x)
      <4>1. ASSUME NEW d \in Nodes, NEW x \in Nodes, ToDefine(s, d), Inside(x, Root(t)) PROVE Before(d, x)
        <5>1. Inside(d, a) /\ Inside(x, b)
          BY <1>3, <2>3, <4>1 DEF ToDefine
        <5> QED
          BY <1>4, <2>1, <5>1, Earlier
      <4> QED
        BY <4>1
    <3>2. ASSUME NEW x \in Nodes, NEW d \in Nodes, NEW f \in Range(Kids(Unit)),
                 Inside(x, a), Inside(d, b), Inside(x, f), Inside(d, f)
          PROVE  FALSE
      <4>1. a \in Range(Kids(Unit)) /\ b \in Range(Kids(Unit))
        BY <1>4 DEF ItemsKept
      <4>2. a = f /\ b = f
        BY <3>2, <4>1, SameItem
      <4> QED
        BY <2>1, <4>2
    <3>3. Pair(s, t)
      BY <1>3, <2>2, <2>3, <3>1, <3>2 DEF Pair
    <3> QED
      BY <3>3 DEF s, t
  <2>4. CASE i % 2 = 1 /\ j % 2 = 0
    <3>1. Pair(s, t)
      BY <1>3, <1>4, <2>2, <2>4, RootlessPair
    <3> QED
      BY <3>1 DEF s, t
  <2>5. CASE i % 2 = 0
    <3>1. Off(t, a)
      BY <1>2, <1>3, <1>4, <1>5, <2>2 DEF Off
    <3>2. Root(t) \in Nodes \cup {Nil} /\ ~(Mark(t) /\ Inside(t.node, Root(s)))
      BY <1>2, <1>3, <1>4, <1>5, <2>5
    <3>3. Pair(s, t)
      BY <1>3, <1>4, <2>5, <3>1, <3>2, RootlessPair
    <3> QED
      BY <3>3 DEF s, t
  <2> QED
    BY <1>2, <2>3, <2>4, <2>5
<1> QED
  BY <1>2, <1>6, <1>7

(* They make the invariant of the walk true: nothing is done, and          *)
(* everything in an item is left.                                          *)
LEMMA WalkStarts ==
  ASSUME src \in Programs, ItemsKept, Outer(node), Untouched, NEW items, Listed(items),
         NEW u, Alternating(u, items), NEW nd2, nd2[Unit].outer # Unset
  PROVE  Walking(u, answer, table, nd2)
<1> DEFINE n == Len(items)
<1>1. items \in Seq(Nodes) /\ n \in Nat /\ DOMAIN items = 1 .. n /\ DOMAIN u = 1 .. 2 * n /\ u \in Seq(Tasks)
  BY DEF Listed, Alternating
<1> HIDE DEF n
<1>2. Unit \in Nodes /\ \A m \in Nodes : ~Inside(m, Nil)
  BY Grown, InsideNil
<1>3. ASSUME NEW k \in Nodes, Item(k)
      PROVE  k # Unit /\ Container(k) = Unit /\ InItem(k) /\ Ignorable(k) /\ Inside(k, k)
  <2>1. k \in Range(Kids(Unit))
    BY <1>3 DEF ItemsKept
  <2>2. src[k].up = Unit
    BY <1>2, <2>1, Grown
  <2>3. k # Unit
    BY <1>2, <2>2, Grown, InsideNil
  <2>4. Scoping(Unit)
    BY Grown DEF Scoping, Is
  <2>5. Container(k) = Unit
    BY <2>2, <2>3, <2>4, ContainerUp
  <2> QED
    BY <1>3, <2>1, <2>3, <2>5, InsideSelf DEF InItem, Ignorable
<1>4. ASSUME NEW i \in DOMAIN u
      PROVE  u[i].node \in Nodes /\ Item(u[i].node) /\ u[i].scope = Unit /\ ~Defining(u[i]) /\ u[i] \in Tasks
  BY <1>1, <1>4 DEF Listed, Alternating
<1>5. \A i \in DOMAIN u : Prepared(nd2, u[i])
  BY <1>3, <1>4 DEF Prepared
<1>6. \A i, j \in DOMAIN u : i < j => Pair(u[i], u[j])
  BY StartedPairs
<1>7. Caught(u)
  <2> SUFFICES ASSUME NEW i \in DOMAIN u PROVE \E j \in DOMAIN u : CaughtAt(u, i, j)
    BY DEF Caught
  <2>1. i \in Nat /\ DOMAIN u \subseteq Nat
    BY <1>1
  <2>2. Inside(u[i].node, u[i].node)
    BY <1>4, InsideSelf
  <2>3. CASE i % 2 = 0
    <3>1. Mark(u[i]) /\ i <= i /\ \A l \in DOMAIN u : ~(i <= l /\ l < i)
      BY <2>1, <2>3 DEF Alternating
    <3>2. CaughtAt(u, i, i)
      BY <2>2, <3>1 DEF CaughtAt
    <3> QED
      BY <3>2
  <2>4. CASE i % 2 = 1 /\ i + 1 \in 1 .. 2 * n /\ (i + 1) % 2 = 0 /\ Half(i + 1) = Half(i)
    <3>1. i + 1 \in DOMAIN u /\ Mark(u[i + 1]) /\ u[i + 1].node = u[i].node /\ ~Mark(u[i])
      BY <1>1, <2>4 DEF Alternating
    <3>2. i <= i + 1 /\ \A l \in DOMAIN u : i <= l /\ l < i + 1 => l = i
      BY <2>1
    <3>3. CaughtAt(u, i, i + 1)
      BY <2>2, <3>1, <3>2 DEF CaughtAt
    <3> QED
      BY <3>1, <3>3
  <2> QED
    BY <1>1, <2>3, <2>4, Halves
<1>8. /\ answer \in [Nodes -> {"none", "true", "false"}] /\ Answered(u, answer)
  BY DEF Untouched, Answered
<1>9. EntriesBefore(u, table)
  BY DEF Untouched, EntriesBefore
<1>10. Covered(u, answer, table, nd2)
  <2> SUFFICES ASSUME NEW m \in Nodes, InItem(m) PROVE \E i \in DOMAIN u : Inside(m, Root(u[i]))
    BY DEF Covered
  <2>1. PICK k \in Nodes : Item(k) /\ Inside(m, k)
    BY DEF InItem
  <2>2. PICK p \in DOMAIN items : items[p] = k
    BY <2>1 DEF Listed
  <2>3. 2 * p - 1 \in DOMAIN u /\ Half(2 * p - 1) = p /\ (2 * p - 1) % 2 = 1
    BY <1>1 DEF Half
  <2>4. Root(u[2 * p - 1]) = k
    BY <2>2, <2>3 DEF Alternating
  <2> QED
    BY <2>1, <2>3, <2>4
<1> QED
  BY <1>1, <1>5, <1>6, <1>7, <1>8, <1>9, <1>10 DEF Walking

(* CompUnit: it makes the first calls of the walk.                         *)
LEMMA StepStart ==
  ASSUME src \in Programs, node \in [Nodes -> Fields], Outer(node), TableTyped(table), Parsed, Starting,
         RegisterCompUnit
  PROVE  Onward(stack', answer', table', node')
<1> DEFINE items == decls \o funcdefs
           u == Started(items)
<1>1. stack[1] = Task("register", Unit, Predefined) /\ Tail(stack) = << >> /\ Untouched
  BY DEF Starting
<1>2. this = Unit /\ owner = Predefined
  BY <1>1 DEF this, owner, Task
<1>3. /\ node' = [node EXCEPT ![Unit].scope = Predefined] /\ table' = table /\ answer' = answer
      /\ stack' = u \o Tail(stack)
  BY <1>2 DEF RegisterCompUnit, Then, Started, Half
<1>4. ItemsKept /\ Listed(items)
  BY ItemsKeptIs, ItemsListed
<1> HIDE DEF items
<1>5. Alternating(u, items)
  BY <1>4, StartedIs
<1> HIDE DEF u
<1>6. u \o Tail(stack) = u
  <2> DEFINE S == Tasks
  <2>1. u \in Seq(S)
    BY <1>5 DEF Alternating
  <2> HIDE DEF S
  <2>2. u \o << >> = u
    BY <2>1
  <2> QED
    BY <1>1, <2>2
<1>7. Unit \in Nodes
  BY Grown
<1>8. /\ node' \in [Nodes -> Fields]
      /\ \A k \in Nodes : node'[k].outer = node[k].outer /\ node'[k].definition = node[k].definition
  <2>1. node[Unit] \in Fields
    BY <1>7
  <2>2. [node[Unit] EXCEPT !.scope = Predefined] \in Fields
    BY <2>1 DEF Fields
  <2>3. node' \in [Nodes -> Fields]
    BY <1>3, <1>7, <2>2
  <2>4. \A k \in Nodes : k # Unit => node'[k] = node[k]
    BY <1>3
  <2>5. node'[Unit] = [node[Unit] EXCEPT !.scope = Predefined]
    BY <1>3, <1>7
  <2>6. node'[Unit].outer = node[Unit].outer /\ node'[Unit].definition = node[Unit].definition
    BY <1>7, <2>5, FieldsOf DEF Fields
  <2> QED
    BY <2>3, <2>4, <2>6
<1>9. Outer(node')
  <2>1. \A s \in Nodes : s # Unit => Container(s) \in Nodes
    BY ContainerInNodes
  <2> QED
    BY <1>7, <1>8, <2>1 DEF Outer
<1>10. node'[Unit].outer # Unset
  BY <1>9 DEF Outer, Unset, Nil
<1>11. Walking(u, answer, table, node')
  BY <1>1, <1>4, <1>5, <1>10, WalkStarts
<1> QED
  BY <1>3, <1>6, <1>8, <1>9, <1>11 DEF Onward
-----------------------------------------------------------------------------
(* The parser takes the last item that is left. *)
LEMMA LastLeft ==
  ASSUME src \in Programs, Parsed, left # << >>
  PROVE  /\ Last(left) \in Nodes /\ Last(left) \in Range(left) /\ Last(left) \in Range(Kids(Unit))
         /\ Front(left) = SubSeq(Kids(Unit), 1, Len(Front(left))) /\ Len(Front(left)) <= Len(Kids(Unit))
         /\ Front(left) \in Seq(Nodes)
         /\ Range(left) = Range(Front(left)) \cup {Last(left)}
         /\ \A k \in Range(Front(left)) : k < Last(left)
         /\ \A k \in Range(left) : k <= Last(left)
<1> DEFINE K == Kids(Unit)
           n == Len(left)
           f == Front(left)
           l == Last(left)
<1>1. K \in Seq(Nodes) /\ Ascending(K) /\ Unit \in Nodes
  BY Grown DEF Ascending
<1>2. Nodes \subseteq Nat
  BY Grown
<1> HIDE DEF K
<1>3. left = SubSeq(K, 1, n) /\ n <= Len(K)
  BY DEF Parsed, K
<1>4. left \in Seq(Nodes)
  <2>1. SubSeq(K, 1, n) \in Seq(Nodes)
    BY <1>1, <1>3
  <2> QED
    BY <1>3, <2>1
<1>5. n \in Nat /\ n >= 1 /\ DOMAIN left = 1 .. n
  BY <1>4
<1>6. \A i \in 1 .. n : left[i] = K[i] /\ i \in DOMAIN K
  <2> HIDE DEF n
  <2>1. \A i \in 1 .. n : SubSeq(K, 1, n)[i] = K[i]
    BY <1>1, <1>3, <1>5
  <2>2. DOMAIN K = 1 .. Len(K) /\ Len(K) \in Nat
    BY <1>1
  <2> QED
    BY <1>3, <1>5, <2>1, <2>2
<1>7. l = left[n] /\ l = K[n]
  BY <1>5, <1>6 DEF Last
<1>8. /\ f = SubSeq(left, 1, n - 1) /\ f \in Seq(Nodes) /\ Len(f) = n - 1 /\ DOMAIN f = 1 .. n - 1
      /\ \A i \in 1 .. n - 1 : f[i] = left[i]
  <2>1. f = SubSeq(left, 1, n - 1)
    BY DEF Front
  <2> HIDE DEF f, n
  <2>2. n = Len(left)
    BY DEF n
  <2>3. f \in Seq(Nodes) /\ Len(f) = n - 1 /\ \A i \in 1 .. n - 1 : f[i] = left[i]
    BY <1>4, <1>5, <2>1, <2>2
  <2> QED
    BY <2>1, <2>3
<1>9. f = SubSeq(K, 1, n - 1)
  <2> DEFINE g == SubSeq(K, 1, n - 1)
  <2> HIDE DEF n, f
  <2>1. g \in Seq(Nodes) /\ Len(g) = n - 1 /\ \A i \in 1 .. n - 1 : g[i] = K[i]
    BY <1>1, <1>3, <1>5
  <2> HIDE DEF g
  <2>2. \A i \in 1 .. n - 1 : f[i] = K[i]
    BY <1>5, <1>6, <1>8
  <2>3. f = g
    BY <1>5, <1>8, <2>1, <2>2
  <2> QED
    BY <2>3 DEF g
<1> HIDE DEF n, f, l
<1>10. l \in Nodes /\ l \in Range(left) /\ l \in Range(K)
  BY <1>1, <1>4, <1>5, <1>6, <1>7 DEF Range
<1>11. \A i \in 1 .. n : i < n => left[i] < l /\ left[i] \in Nodes
  BY <1>1, <1>4, <1>5, <1>6, <1>7 DEF Ascending
<1>12. \A k \in Range(f) : k < l
  BY <1>5, <1>8, <1>11 DEF Range
<1>13. Range(left) = Range(f) \cup {l}
  <2>1. ASSUME NEW x \in Range(left) PROVE x \in Range(f) \cup {l}
    <3>1. PICK i \in 1 .. n : left[i] = x
      BY <1>5 DEF Range
    <3>2. CASE i = n
      BY <1>7, <3>1, <3>2
    <3>3. CASE i # n
      <4>1. i \in 1 .. n - 1
        BY <1>5, <3>3
      <4>2. i \in DOMAIN f /\ f[i] = x
        BY <1>8, <3>1, <4>1
      <4> QED
        BY <4>2 DEF Range
    <3> QED
      BY <3>2, <3>3
  <2>2. ASSUME NEW x \in Range(f) PROVE x \in Range(left)
    <3>1. PICK i \in 1 .. n - 1 : f[i] = x
      BY <1>8 DEF Range
    <3>2. i \in DOMAIN left /\ left[i] = x
      BY <1>5, <1>8, <3>1
    <3> QED
      BY <3>2 DEF Range
  <2> QED
    BY <1>10, <2>1, <2>2
<1>14. \A k \in Range(left) : k <= l
  <2>1. ASSUME NEW k \in Range(f) PROVE k \in Nat
    <3>1. PICK i \in DOMAIN f : f[i] = k
      BY DEF Range
    <3>2. f \in Seq(Nodes)
      BY <1>8
    <3>3. k \in Nodes
      BY <3>1, <3>2
    <3> QED
      BY <1>2, <3>3
  <2>2. l \in Nat
    BY <1>2, <1>10
  <2> QED
    BY <1>12, <1>13, <2>1, <2>2
<1>15. f = SubSeq(K, 1, Len(f)) /\ Len(f) <= Len(K)
  BY <1>1, <1>3, <1>5, <1>8, <1>9
<1> QED
  BY <1>8, <1>10, <1>12, <1>13, <1>14, <1>15 DEF f, l, K

(* A lesser number before an ascending sequence.                           *)
LEMMA Prepended ==
  ASSUME NEW N \in SUBSET Nat, NEW s \in Seq(N), Ascending(s), NEW l \in N, \A k \in Range(s) : l < k
  PROVE  <<l>> \o s \in Seq(N) /\ Ascending(<<l>> \o s) /\ Range(<<l>> \o s) = {l} \cup Range(s)
<1> DEFINE u == <<l>> \o s
           n == Len(s)
<1>1. n \in Nat /\ DOMAIN s = 1 .. n /\ <<l>> \in Seq(N) /\ Len(<<l>>) = 1 /\ <<l>>[1] = l
  OBVIOUS
<1>2. /\ u \in Seq(N) /\ Len(u) = 1 + n
      /\ \A i \in 1 .. 1 + n : u[i] = IF i <= 1 THEN <<l>>[i] ELSE s[i - 1]
  <2>1. u \in Seq(N) /\ Len(u) = Len(<<l>>) + Len(s)
    BY <1>1, ConcatProperties
  <2>2. \A i \in 1 .. Len(<<l>>) + Len(s) : u[i] = IF i <= Len(<<l>>) THEN <<l>>[i] ELSE s[i - Len(<<l>>)]
    BY <1>1, ConcatProperties
  <2> HIDE DEF u
  <2> QED
    BY <1>1, <2>1, <2>2
<1> HIDE DEF u, n
<1>3. DOMAIN u = 1 .. 1 + n /\ u[1] = l /\ 1 \in DOMAIN u
  BY <1>1, <1>2
<1>4. ASSUME NEW i \in DOMAIN u, i # 1 PROVE i \in Nat /\ i - 1 \in DOMAIN s /\ u[i] = s[i - 1]
  BY <1>1, <1>2, <1>3, <1>4
<1>5. ASSUME NEW i \in DOMAIN s PROVE i + 1 \in DOMAIN u /\ u[i + 1] = s[i]
  <2>1. i + 1 \in DOMAIN u /\ i + 1 # 1 /\ (i + 1) - 1 = i
    BY <1>1, <1>3, <1>5
  <2> QED
    BY <1>4, <2>1
<1>6. Ascending(u)
  <2>1. ASSUME NEW i \in DOMAIN u, NEW j \in DOMAIN u, i < j PROVE u[i] < u[j]
    <3>1. j # 1 /\ i \in Nat /\ j \in Nat
      BY <1>1, <1>3, <2>1
    <3>2. j - 1 \in DOMAIN s /\ u[j] = s[j - 1] /\ s[j - 1] \in Range(s)
      BY <1>4, <3>1 DEF Range
    <3>3. CASE i = 1
      BY <1>3, <3>2, <3>3
    <3>4. CASE i # 1
      <4>1. i - 1 \in DOMAIN s /\ u[i] = s[i - 1] /\ i - 1 < j - 1
        BY <1>4, <2>1, <3>1, <3>4
      <4> QED
        BY <3>2, <4>1 DEF Ascending
    <3> QED
      BY <3>3, <3>4
  <2> QED
    BY <2>1 DEF Ascending
<1>7. Range(u) = {l} \cup Range(s)
  <2>1. ASSUME NEW x \in Range(u) PROVE x \in {l} \cup Range(s)
    <3>1. PICK i \in DOMAIN u : u[i] = x
      BY DEF Range
    <3> QED
      BY <1>3, <1>4, <3>1 DEF Range
  <2>2. ASSUME NEW x \in {l} \cup Range(s) PROVE x \in Range(u)
    <3>1. CASE x = l
      BY <1>3, <3>1 DEF Range
    <3>2. CASE x \in Range(s)
      <4>1. PICK i \in DOMAIN s : s[i] = x
        BY <3>2 DEF Range
      <4> QED
        BY <1>5, <4>1 DEF Range
    <3> QED
      BY <3>1, <3>2
  <2> QED
    BY <2>1, <2>2
<1> QED
  BY <1>2, <1>6, <1>7 DEF u
-----------------------------------------------------------------------------
(* The inductive invariant: what holds in every phase, and what in one.    *)
Phases == {"parse", "register", "visit"} \cup Ended
Typed ==
  /\ src \in Programs /\ node \in [Nodes -> Fields] /\ Outer(node) /\ TableTyped(table)
  /\ answer \in [Nodes -> {"none", "true", "false"}] /\ phase \in Phases
InPhase ==
  /\ phase = "parse" => stack = << >> /\ Untouched
  /\ phase # "parse" => left = << >>
  /\ phase = "register" => Starting \/ Walking(stack, answer, table, node)
  /\ phase \in {"visit"} \cup Ended => Walked
  /\ phase = "visit" => Visiting
  /\ phase \in Ended => stack = << >>
IInv == Typed /\ FunctionsLast /\ Parsed /\ InPhase /\ Lexical /\ AcceptsWhatRegistered

(* Lexical says of every identifier what Means says of one.                *)
LEMMA LexicalMeans ==
  Lexical <=> \A i \in Nodes : node[i].definition # Unset => Means(i, node[i].definition)
BY DEF Lexical, Means

(* What an identifier means does not depend on the state.                  *)
LEMMA SameMeans ==
  ASSUME src' = src
  PROVE  /\ \A i, d : Means(i, d)' <=> Means(i, d)
         /\ Fields' = Fields
<1>1. \A d, x : Before(d, x)' <=> Before(d, x)
  BY SameInside DEF Before
<1>2. \A i : Callee(i)' <=> Callee(i)
  BY SameInside DEF Callee
<1>3. \A d, n : Defines(d, n)' <=> Defines(d, n)
  BY DEF Defines
<1>4. \A i : src'[i] = src[i]
  OBVIOUS
<1>5. \A i, d : Means(i, d)' <=> Means(i, d)
  BY SameInside, <1>1, <1>2, <1>3, <1>4 DEF Means, Within
<1>6. Fields' = Fields
  BY SameInside DEF Fields
<1> QED
  BY <1>5, <1>6

(* Lexical, of the next state.                                             *)
LEMMA LexicalKept ==
  ASSUME src' = src, \A i \in Nodes : node'[i].definition # Unset => Means(i, node'[i].definition)
  PROVE  Lexical'
<1>1. \A i \in Nodes' : (node[i].definition)' # Unset => Means(i, node[i].definition)'
  BY SameInside, SameMeans
<1> QED
  BY <1>1 DEF Lexical, Means

(* The invariant holds before the first reduction.                         *)
LEMMA Initially ==
  ASSUME Init
  PROVE  IInv
<1> USE ProgramsAssumption
<1>1. src \in Programs /\ Unit \in Nodes /\ Kids(Unit) \in Seq(Nodes)
  BY Grown DEF Init
<1>2. ASSUME NEW n \in Nodes PROVE Fresh(n) \in Fields /\ Fresh(n).definition = Unset
                                     /\ Fresh(n).outer = IF n = Unit THEN Nil ELSE Unset
  <2> DEFINE o == IF n = Unit THEN Nil ELSE Unset
             v == Is(n, "Identifier")
             b == IF Is(n, "Variable") \/ (Is(n, "Constant") /\ ~Is(src[n].up, "FuncParam")) THEN "void" ELSE "declared"
  <2>1. o \in {Nil, Unset} /\ v \in BOOLEAN /\ b \in {"void", "declared"}
    BY DEF Is
  <2>2. Fresh(n) = [scope |-> Nil, outer |-> o, definition |-> Unset, is_lvalue |-> v, control_node |-> Nil,
                    base_type |-> b]
    BY DEF Fresh
  <2> HIDE DEF o, v, b
  <2>3. Fresh(n) \in Fields /\ Fresh(n).definition = Unset /\ Fresh(n).outer = o
    BY <2>1, <2>2 DEF Fields
  <2> QED
    BY <2>3 DEF o
<1>3. node = [n \in Nodes |-> Fresh(n)]
  BY DEF Init
<1>4. node \in [Nodes -> Fields] /\ Lexical
  BY <1>2, <1>3 DEF Lexical
<1>5. Outer(node)
  BY <1>1, <1>2, <1>3 DEF Outer
<1>6. Typed
  BY <1>1, <1>4, <1>5 DEF Init, Typed, TableTyped, Phases
<1>7. FunctionsLast
  BY DEF Init, FunctionsLast
<1>8. Parsed
  <2> DEFINE K == Kids(Unit)
  <2>1. left = K /\ decls = << >> /\ funcdefs = << >>
    BY DEF Init
  <2> HIDE DEF K
  <2>2. SubSeq(K, 1, Len(K)) = K /\ Len(K) \in Nat
    BY <1>1 DEF K
  <2>3. left = SubSeq(Kids(Unit), 1, Len(left)) /\ Len(left) <= Len(Kids(Unit))
    BY <2>1, <2>2 DEF K
  <2>4. decls \in Seq(Nodes) /\ funcdefs \in Seq(Nodes) /\ Range(decls) = {} /\ Range(funcdefs) = {}
        /\ Ascending(decls) /\ Ascending(funcdefs)
    BY <2>1 DEF Range, Ascending
  <2> QED
    BY <2>3, <2>4 DEF Parsed
<1>9. InPhase
  BY DEF Init, InPhase, Untouched, Ended
<1>10. AcceptsWhatRegistered
  BY DEF Init, AcceptsWhatRegistered, Ended
<1> QED
  BY <1>4, <1>6, <1>7, <1>8, <1>9, <1>10 DEF IInv

(* The parser. *)
LEMMA ParseDeclaration ==
  ASSUME IInv, PutDeclaration
  PROVE  IInv'
<1> DEFINE l == Last(left)
<1>0. /\ phase = "parse" /\ left # << >> /\ src[l].is \in Declarations /\ decls' = <<l>> \o decls
      /\ node' = [node EXCEPT ![l].scope = Unit] /\ left' = Front(left)
      /\ src' = src /\ funcdefs' = funcdefs /\ table' = table /\ stack' = stack /\ answer' = answer /\ phase' = phase
  BY DEF PutDeclaration
<1>1. src \in Programs /\ Parsed /\ node \in [Nodes -> Fields] /\ Outer(node)
  BY DEF IInv, Typed
<1>2. /\ l \in Nodes /\ l \in Range(left) /\ l \in Range(Kids(Unit))
      /\ left' = SubSeq(Kids(Unit), 1, Len(left')) /\ Len(left') <= Len(Kids(Unit))
      /\ Range(left) = Range(left') \cup {l}
      /\ \A k \in Range(left') : k < l
  BY <1>0, <1>1, LastLeft
<1> HIDE DEF l
<1>3. Unit \in Nodes /\ Nodes \subseteq Nat
  BY <1>1, Grown
<1>5. node' \in [Nodes -> Fields] /\ \A k \in Nodes : node'[k].outer = node[k].outer /\ node'[k].definition = node[k].definition
  <2>1. node[l] \in Fields
    BY <1>1, <1>2
  <2>2. [node[l] EXCEPT !.scope = Unit] \in Fields
    BY <1>3, <2>1 DEF Fields
  <2>3. node' \in [Nodes -> Fields] /\ node'[l] = [node[l] EXCEPT !.scope = Unit]
    BY <1>0, <1>1, <1>2, <2>2
  <2>4. \A k \in Nodes : k # l => node'[k] = node[k]
    BY <1>0, <1>1
  <2>5. node'[l].outer = node[l].outer /\ node'[l].definition = node[l].definition
    BY <1>1, <1>2, <2>3, FieldsOf DEF Fields
  <2> QED
    BY <2>3, <2>4, <2>5
<1>6. decls' \in Seq(Nodes) /\ Ascending(decls') /\ Range(decls') = {l} \cup Range(decls)
  <2>1. decls \in Seq(Nodes) /\ Ascending(decls) /\ \A k \in Range(decls) : l < k
    BY <1>1, <1>2 DEF Parsed
  <2> QED
    BY <1>0, <1>2, <1>3, <2>1, Prepended
<1>7. Outer(node')
  <2>1. \A s \in Nodes : s # Unit => Container(s) \in Nodes
    BY <1>1, ContainerInNodes
  <2> QED
    BY <1>1, <1>3, <1>5, <2>1 DEF Outer
<1>8. Typed'
  BY <1>0, <1>5, <1>7, SameInside, SameState, SameMeans DEF IInv, Typed
<1>9. Parsed'
  <2>1. \A k \in Range(decls') \cup Range(funcdefs), m \in Range(left') : m < k
    BY <1>1, <1>2, <1>6 DEF Parsed
  <2>2. \A k \in Range(decls') : k \in Range(Kids(Unit)) /\ src[k].is \in Declarations
    BY <1>0, <1>1, <1>2, <1>6 DEF Parsed, l
  <2>3. /\ funcdefs \in Seq(Nodes) /\ Ascending(funcdefs)
        /\ \A k \in Range(funcdefs) : k \in Range(Kids(Unit)) /\ Is(k, "Function")
    BY <1>1 DEF Parsed
  <2> QED
    BY <1>0, <1>2, <1>6, <2>1, <2>2, <2>3, SameInside DEF Parsed, Ascending
<1>10. FunctionsLast'
  <2>1. ~Is(l, "Function")
    BY <1>0 DEF Is, Declarations, l
  <2>2. \A f \in Range(Kids(Unit)) \ Range(left') : Is(f, "Function") => f \notin Range(left)
    BY <1>2, <2>1
  <2> QED
    BY <1>0, <2>2, SameInside DEF IInv, FunctionsLast
<1>11. InPhase'
  BY <1>0, SameInside DEF IInv, InPhase, Untouched, Ended
<1>12. Lexical'
  <2>1. \A i \in Nodes : node'[i].definition # Unset => Means(i, node'[i].definition)
    BY <1>5, LexicalMeans DEF IInv
  <2> QED
    BY <1>0, <2>1, LexicalKept
<1>13. AcceptsWhatRegistered'
  BY <1>0 DEF AcceptsWhatRegistered, Ended
<1> QED
  BY <1>8, <1>9, <1>10, <1>11, <1>12, <1>13 DEF IInv
-----------------------------------------------------------------------------
(* A function's entry in the CompUnit's scope, and when its name is taken. *)
LEMMA FunctionPut ==
  ASSUME src \in Programs, TableTyped(table), NEW l \in Nodes, Is(l, "Function"),
         NEW e, e = Entry(Unit, "functions", l)
  PROVE  /\ e.def = l /\ e.scope = Unit /\ TableTyped(table \cup {e})
         /\ Here(Unit, "functions", src[l].name) # Nil <=>
              \E o \in table : Is(o.def, "Function") /\ src[o.def].name = src[l].name
<1>1. e.scope = Unit /\ e.map = "functions" /\ e.def = l /\ Unit \in Nodes
  BY Grown DEF Entry
<1>2. e \in [scope : Nodes, map : {"functions", "constants", "variables"}, def : Nodes]
  BY <1>1 DEF Entry
<1>3. Container(l) = Unit /\ MapOf(l) = "functions"
  BY FunctionGlobal DEF MapOf
<1>4. TableTyped(table \cup {e})
  BY <1>1, <1>2, <1>3 DEF TableTyped, Is
<1>5. ASSUME Here(Unit, "functions", src[l].name) # Nil
      PROVE  \E o \in table : Is(o.def, "Function") /\ src[o.def].name = src[l].name
  <2>1. PICK o \in table : o.scope = Unit /\ o.map = "functions" /\ src[o.def].name = src[l].name
    BY <1>5, HereIs
  <2>2. o.map = MapOf(o.def)
    BY DEF TableTyped
  <2> QED
    BY <2>1, <2>2 DEF MapOf
<1>6. ASSUME NEW o \in table, Is(o.def, "Function"), src[o.def].name = src[l].name
      PROVE  Here(Unit, "functions", src[l].name) # Nil
  <2>1. o.def \in Nodes /\ o.scope = Container(o.def) /\ o.map = MapOf(o.def)
    BY DEF TableTyped
  <2>2. o.scope = Unit /\ o.map = "functions"
    BY <1>6, <2>1, FunctionGlobal DEF MapOf
  <2> QED
    BY <1>6, <2>2, HereIs
<1> QED
  BY <1>1, <1>4, <1>5, <1>6

(* PutFunction: of the functions of one name the last one is kept, since   *)
(* the items come from the last to the first.                              *)
LEMMA ParseFunction ==
  ASSUME IInv, PutFunction
  PROVE  IInv'
<1> DEFINE l == Last(left)
           e == Entry(Unit, "functions", l)
           taken == Here(Unit, "functions", src[l].name) # Nil
<1>0. /\ phase = "parse" /\ left # << >> /\ Is(l, "Function") /\ left' = Front(left)
      /\ src' = src /\ decls' = decls /\ stack' = stack /\ answer' = answer /\ phase' = phase
      /\ taken => funcdefs' = funcdefs /\ table' = table /\ node' = node
      /\ ~taken => funcdefs' = <<l>> \o funcdefs /\ table' = table \cup {e}
                   /\ node' = [node EXCEPT ![l].scope = Unit]
  BY DEF PutFunction
<1>1. src \in Programs /\ Parsed /\ node \in [Nodes -> Fields] /\ Outer(node) /\ TableTyped(table)
      /\ stack = << >> /\ Untouched /\ FunctionsLast
  BY <1>0 DEF IInv, Typed, InPhase
<1>2. /\ l \in Nodes /\ l \in Range(left) /\ l \in Range(Kids(Unit))
      /\ left' = SubSeq(Kids(Unit), 1, Len(left')) /\ Len(left') <= Len(Kids(Unit))
      /\ Range(left) = Range(left') \cup {l}
      /\ \A k \in Range(left') : k < l
      /\ \A k \in Range(left) : k <= l
  BY <1>0, <1>1, LastLeft
<1> HIDE DEF l
<1>3. Unit \in Nodes /\ Nodes \subseteq Nat
  BY <1>1, Grown
<1>4. /\ e.def = l /\ e.scope = Unit /\ TableTyped(table \cup {e})
      /\ taken <=> \E o \in table : Is(o.def, "Function") /\ src[o.def].name = src[l].name
  <2> HIDE DEF e
  <2>1. e = Entry(Unit, "functions", l)
    BY DEF e
  <2> QED
    BY <1>0, <1>1, <1>2, <2>1, FunctionPut
<1> HIDE DEF e, taken
<1>5. /\ node' \in [Nodes -> Fields]
      /\ \A k \in Nodes : node'[k].outer = node[k].outer /\ node'[k].definition = node[k].definition
  <2>1. CASE taken
    BY <1>0, <1>1, <2>1
  <2>2. CASE ~taken
    <3>1. node[l] \in Fields
      BY <1>1, <1>2
    <3>2. [node[l] EXCEPT !.scope = Unit] \in Fields
      BY <1>3, <3>1 DEF Fields
    <3>3. node' \in [Nodes -> Fields] /\ node'[l] = [node[l] EXCEPT !.scope = Unit]
      BY <1>0, <1>1, <1>2, <2>2, <3>2
    <3>4. \A k \in Nodes : k # l => node'[k] = node[k]
      BY <1>0, <1>1, <2>2
    <3>5. node'[l].outer = node[l].outer /\ node'[l].definition = node[l].definition
      BY <1>1, <1>2, <3>3, FieldsOf DEF Fields
    <3> QED
      BY <3>3, <3>4, <3>5
  <2> QED
    BY <2>1, <2>2
<1>6. /\ funcdefs' \in Seq(Nodes) /\ Ascending(funcdefs') /\ Range(funcdefs') \subseteq {l} \cup Range(funcdefs)
  <2>1. funcdefs \in Seq(Nodes) /\ Ascending(funcdefs) /\ \A k \in Range(funcdefs) : l < k
    BY <1>1, <1>2 DEF Parsed
  <2>2. CASE taken
    BY <1>0, <2>1, <2>2
  <2>3. CASE ~taken
    <3> DEFINE u == <<l>> \o funcdefs
    <3>1. u \in Seq(Nodes) /\ Ascending(u) /\ Range(u) = {l} \cup Range(funcdefs)
      BY <1>2, <1>3, <2>1, Prepended
    <3>2. funcdefs' = u
      BY <1>0, <2>3
    <3> HIDE DEF u
    <3> QED
      BY <3>1, <3>2
  <2> QED
    BY <2>2, <2>3
<1>7. Outer(node')
  <2>1. \A s \in Nodes : s # Unit => Container(s) \in Nodes
    BY <1>1, ContainerInNodes
  <2> QED
    BY <1>1, <1>3, <1>5, <2>1 DEF Outer
<1>8. Typed'
  <2>1. TableTyped(table')
    BY <1>0, <1>1, <1>4
  <2> QED
    BY <1>0, <1>5, <1>7, <2>1, SameInside, SameState, SameMeans DEF IInv, Typed
<1>9. Parsed'
  <2>1. \A k \in Range(decls) \cup Range(funcdefs'), m \in Range(left') : m < k
    BY <1>1, <1>2, <1>6 DEF Parsed
  <2>2. \A k \in Range(funcdefs') : k \in Range(Kids(Unit)) /\ Is(k, "Function")
    BY <1>0, <1>1, <1>2, <1>6 DEF Parsed
  <2>3. /\ decls \in Seq(Nodes) /\ Ascending(decls)
        /\ \A k \in Range(decls) : k \in Range(Kids(Unit)) /\ src[k].is \in Declarations
    BY <1>1 DEF Parsed
  <2> QED
    BY <1>0, <1>2, <1>6, <2>1, <2>2, <2>3, SameInside DEF Parsed, Ascending
<1>10. /\ \A o \in table' : Is(o.def, "Function") =>
            \A f \in Range(Kids(Unit)) : Is(f, "Function") /\ src[f].name = src[o.def].name => f <= o.def
       /\ \A f \in Range(Kids(Unit)) \ Range(left') : Is(f, "Function") =>
            \E o \in table' : Is(o.def, "Function") /\ src[o.def].name = src[f].name
  <2>1. /\ table \subseteq table' /\ (taken => table' = table) /\ (~taken => table' = table \cup {e})
    BY <1>0
  <2>2. ASSUME ~taken, NEW f \in Range(Kids(Unit)), Is(f, "Function"), src[f].name = src[l].name
        PROVE  f <= l
    <3>1. CASE f \in Range(left)
      BY <1>2, <3>1
    <3>2. CASE f \notin Range(left)
      <4>1. \E o \in table : Is(o.def, "Function") /\ src[o.def].name = src[f].name
        BY <1>1, <2>2, <3>2 DEF FunctionsLast
      <4> QED
        BY <1>4, <2>2, <4>1
    <3> QED
      BY <3>1, <3>2
  <2>3. \A o \in table' : Is(o.def, "Function") =>
            \A f \in Range(Kids(Unit)) : Is(f, "Function") /\ src[f].name = src[o.def].name => f <= o.def
    BY <1>1, <1>4, <2>1, <2>2 DEF FunctionsLast
  <2>4. ASSUME NEW f \in Range(Kids(Unit)) \ Range(left'), Is(f, "Function")
        PROVE  \E o \in table' : Is(o.def, "Function") /\ src[o.def].name = src[f].name
    <3>1. CASE f # l
      <4>1. f \notin Range(left)
        BY <1>2, <3>1
      <4> QED
        BY <1>1, <2>1, <2>4, <4>1 DEF FunctionsLast
    <3>2. CASE f = l
      <4>1. CASE taken
        BY <1>4, <2>1, <3>2, <4>1
      <4>2. CASE ~taken
        BY <1>0, <1>4, <2>1, <3>2, <4>2
      <4> QED
        BY <4>1, <4>2
    <3> QED
      BY <3>1, <3>2
  <2> QED
    BY <2>3, <2>4
<1>11. FunctionsLast'
  BY <1>0, <1>10, SameInside DEF FunctionsLast
<1>12. InPhase'
  <2>1. \A o \in table' : Is(o.def, "Function")
    BY <1>0, <1>1, <1>4 DEF Untouched
  <2> QED
    BY <1>0, <1>1, <2>1, SameInside DEF InPhase, Untouched, Ended
<1>13. Lexical'
  <2>1. \A i \in Nodes : node'[i].definition # Unset => Means(i, node'[i].definition)
    BY <1>5, LexicalMeans DEF IInv
  <2> QED
    BY <1>0, <2>1, LexicalKept
<1>14. AcceptsWhatRegistered'
  BY <1>0 DEF AcceptsWhatRegistered, Ended
<1> QED
  BY <1>8, <1>9, <1>11, <1>12, <1>13, <1>14 DEF IInv

(* What does not depend on the phase stays. *)
LEMMA SameRest ==
  ASSUME IInv, src' = src, left' = left, decls' = decls, funcdefs' = funcdefs, node' = node,
         table' = table, answer' = answer, phase' \in Phases
  PROVE  Typed' /\ FunctionsLast' /\ Parsed' /\ Lexical' /\ (Walked => Walked') /\ (Untouched => Untouched')
<1>1. Typed'
  BY SameInside, SameState, SameMeans DEF IInv, Typed, Phases, Ended
<1>2. FunctionsLast'
  BY SameInside DEF IInv, FunctionsLast
<1>3. Parsed'
  BY SameInside DEF IInv, Parsed, Ascending
<1>4. Lexical'
  BY LexicalMeans, LexicalKept DEF IInv
<1>5. Walked => Walked'
  BY SameInside, SameParts DEF Walked, LostIn, Done, Entered, Defines
<1>6. Untouched => Untouched'
  BY SameInside DEF Untouched
<1> QED
  BY <1>1, <1>2, <1>3, <1>4, <1>5, <1>6

(* Reduced: nothing has been registered so far.                            *)
LEMMA ParseEnds ==
  ASSUME IInv, Reduced
  PROVE  IInv'
<1>1. /\ phase = "parse" /\ left = << >> /\ stack' = <<Task("register", Unit, Predefined)>> /\ phase' = "register"
      /\ src' = src /\ left' = left /\ decls' = decls /\ funcdefs' = funcdefs /\ node' = node
      /\ table' = table /\ answer' = answer
  BY DEF Reduced, parsed
<1>2. Typed' /\ FunctionsLast' /\ Parsed' /\ Lexical' /\ Untouched'
  BY <1>1, SameRest DEF IInv, InPhase, Phases
<1>3. Starting'
  BY <1>1, <1>2 DEF Starting, Task
<1> QED
  BY <1>1, <1>2, <1>3 DEF IInv, InPhase, Ended, AcceptsWhatRegistered

(* Registered: nothing is left to walk, so everything is lost or done.     *)
LEMMA RegisterEnds ==
  ASSUME IInv, Registered
  PROVE  IInv'
<1>1. /\ phase = "register" /\ stack = << >> /\ stack' = <<Task("accept", Unit, Nil)>> /\ phase' = "visit"
      /\ src' = src /\ left' = left /\ decls' = decls /\ funcdefs' = funcdefs /\ node' = node
      /\ table' = table /\ answer' = answer
  BY DEF Registered, parsed
<1>2. Walking(stack, answer, table, node)
  <2>1. ~Starting
    BY <1>1 DEF Starting
  <2> QED
    BY <1>1, <2>1 DEF IInv, InPhase
<1>3. Walked
  BY <1>1, <1>2 DEF Walking, Covered, Walked
<1>4. Typed' /\ FunctionsLast' /\ Parsed' /\ Lexical' /\ Walked'
  BY <1>1, <1>3, SameRest DEF Phases
<1>5. Visiting'
  <2>1. Unit \in Nodes' /\ Task("accept", Unit, Nil) \in Visits'
    BY <1>1, Grown, SameInside DEF Visits, Task, IInv, Typed
  <2> QED
    BY <1>1, <2>1 DEF Visiting, Task, Reached
<1> QED
  BY <1>1, <1>4, <1>5 DEF IInv, InPhase, Ended, AcceptsWhatRegistered
-----------------------------------------------------------------------------
(* A step of the walk keeps the invariant.                                 *)
LEMMA OnwardKept ==
  ASSUME IInv, phase = "register", Frame, Onward(stack', answer', table', node')
  PROVE  IInv'
<1>1. /\ src' = src /\ left' = left /\ decls' = decls /\ funcdefs' = funcdefs /\ phase' = "register"
      /\ left = << >>
  BY DEF Frame, parsed, IInv, InPhase
<1>2. /\ Walking(stack', answer', table', node') /\ node' \in [Nodes -> Fields] /\ Outer(node')
      /\ TableTyped(table') /\ answer' \in [Nodes -> {"none", "true", "false"}]
  BY DEF Onward, Walking
<1>3. Typed'
  BY <1>1, <1>2, SameInside, SameState, SameMeans DEF IInv, Typed
<1>4. FunctionsLast'
  <2>1. table \subseteq table' /\ \A e \in table' \ table : ~Is(e.def, "Function")
    BY DEF Onward, Is, Definitions
  <2> QED
    BY <1>1, <2>1, SameInside DEF IInv, FunctionsLast
<1>5. Parsed'
  BY <1>1, SameInside DEF IInv, Parsed, Ascending
<1>6. InPhase'
  <2>1. Walking(stack, answer, table, node)'
    BY <1>1, <1>2, SameWalk
  <2> QED
    BY <1>1, <2>1 DEF InPhase, Ended
<1>7. Lexical'
  <2>1. \A i \in Nodes : node'[i].definition # Unset => Means(i, node'[i].definition)
    BY LexicalMeans DEF IInv, Onward
  <2> QED
    BY <1>1, <2>1, LexicalKept
<1>8. AcceptsWhatRegistered'
  BY <1>1 DEF AcceptsWhatRegistered, Ended
<1> QED
  BY <1>3, <1>4, <1>5, <1>6, <1>7, <1>8 DEF IInv

(* When a register_this is to be called, the walk is under way or starts.  *)
LEMMA WhenRegistering ==
  ASSUME IInv, stack # << >>, stack[1].call \in {"register", "init", "add", "ignored"}
  PROVE  phase = "register" /\ (Starting \/ (Sound /\ FunctionsKept /\ ItemsKept))
<1>1. phase # "parse" /\ phase \notin Ended
  BY DEF IInv, InPhase
<1>2. phase # "visit"
  <2>1. ASSUME phase = "visit" PROVE FALSE
    <3>1. Visiting
      BY <2>1 DEF IInv, InPhase
    <3>2. \A i \in DOMAIN stack : stack[i].call = "accept"
      <4>1. \A i \in DOMAIN stack : stack[i] \in Visits
        BY <3>1 DEF Visiting
      <4> QED
        BY <4>1 DEF Visits
    <3>4. 1 \in DOMAIN stack
      BY <3>1 DEF Visiting
    <3> QED
      BY <3>2, <3>4
  <2> QED
    BY <2>1
<1>3. phase = "register"
  BY <1>1, <1>2 DEF IInv, Typed, Phases
<1>4. Starting \/ Walking(stack, answer, table, node)
  BY <1>3 DEF IInv, InPhase
<1>5. FunctionsKept /\ ItemsKept
  BY ItemsKeptIs DEF IInv, FunctionsLast, FunctionsKept
<1> QED
  BY <1>3, <1>4, <1>5 DEF IInv, Typed, Sound

(* It starts with the CompUnit, and comes to no other.                     *)
LEMMA StepClass ==
  ASSUME IInv, NEW class, Calls("register", class)
  PROVE  /\ phase = "register"
         /\ class # "CompUnit" => Sound /\ FunctionsKept /\ ItemsKept
         /\ class = "CompUnit" => Starting
<1>1. stack # << >> /\ stack[1].call = "register" /\ Is(this, class)
  BY DEF Calls, this
<1>2. phase = "register" /\ (Starting \/ (Sound /\ FunctionsKept /\ ItemsKept))
  BY <1>1, WhenRegistering
<1>3. src \in Programs
  BY DEF IInv, Typed
<1>4. Starting => class = "CompUnit"
  <2>1. Starting => this = Unit
    BY DEF Starting, Task, this
  <2> QED
    BY <1>1, <1>3, <2>1, Grown DEF Is
<1>5. Sound => class # "CompUnit"
  <2>1. Sound => this \in Nodes /\ this # Unit
    BY <1>1, TopCall DEF Calling
  <2>2. Sound => Under(src[this].is, src[src[this].up].is)
    BY <1>3, <2>1, Grown
  <2> QED
    BY <1>1, <2>2 DEF Under, Is, Declarations, Statements, Expressions
<1> QED
  BY <1>2, <1>4, <1>5

(* All register_this, by class.                                            *)
LEMMA RegisterSteps ==
  ASSUME IInv, RegisterDefinition \/ RegisterStatement \/ RegisterExpression \/ Ignored
  PROVE  IInv'
<1> DEFINE Goal == phase = "register" /\ Frame /\ Onward(stack', answer', table', node')
<1>0. (phase = "register" /\ Frame /\ Onward(stack', answer', table', node')) => Goal
  OBVIOUS
<1> HIDE DEF Goal
<1>1. ASSUME NEW class \in Plainly, RegisterWithChildren(class) PROVE Goal
  <2>1. Calls("register", class) /\ Frame /\ class # "CompUnit"
    BY <1>1 DEF RegisterWithChildren, Plainly
  <2>2. phase = "register" /\ Sound
    BY <2>1, StepClass
  <2>3. Onward(stack', answer', table', node')
    BY <1>1, <2>2, StepWithChildren
  <2> QED
    BY <1>0, <2>1, <2>2, <2>3
<1>2. ASSUME RegisterCompUnit PROVE Goal
  <2>1. Calls("register", "CompUnit") /\ Frame
    BY <1>2 DEF RegisterCompUnit
  <2>2. phase = "register" /\ Starting
    BY <2>1, StepClass
  <2>3. Onward(stack', answer', table', node')
    BY <1>2, <2>2, StepStart DEF IInv, Typed
  <2> QED
    BY <1>0, <2>1, <2>2, <2>3
<1>3. ASSUME RegisterFunction \/ RegisterBlock PROVE Goal
  <2>1. (Calls("register", "Function") \/ Calls("register", "Block")) /\ Frame
    BY <1>3 DEF RegisterFunction, RegisterBlock
  <2>2. phase = "register" /\ Sound
    BY <2>1, StepClass
  <2>3. Onward(stack', answer', table', node')
    BY <1>3, <2>2, StepScope
  <2> QED
    BY <1>0, <2>1, <2>2, <2>3
<1>4. ASSUME RegisterVariable PROVE Goal
  <2>1. (Calls("register", "Variable") \/ Calls("register", "Constant")) /\ Frame
    BY <1>4 DEF RegisterVariable
  <2>2. phase = "register" /\ Sound
    BY <2>1, StepClass
  <2>3. Onward(stack', answer', table', node')
    BY <1>4, <2>2, StepVariable
  <2> QED
    BY <1>0, <2>1, <2>2, <2>3
<1>5. ASSUME InitVariable \/ AddVariable \/ Ignored PROVE Goal
  <2>1. stack # << >> /\ stack[1].call \in {"init", "add", "ignored"} /\ Frame
    BY <1>5 DEF InitVariable, AddVariable, Ignored, Frame
  <2>2. phase = "register" /\ (Starting \/ Sound)
    BY <2>1, WhenRegistering
  <2>3. ~Starting
    BY <2>1 DEF Starting, Task
  <2>4. Onward(stack', answer', table', node')
    BY <1>5, <2>2, <2>3, StepInit, StepAdd, StepIgnored
  <2> QED
    BY <1>0, <2>1, <2>2, <2>4
<1>6. ASSUME RegisterEmptyStmt \/ RegisterBreakStmt \/ RegisterContinueStmt PROVE Goal
  <2>1. /\ Calls("register", "EmptyStmt") \/ Calls("register", "BreakStmt") \/ Calls("register", "ContinueStmt")
        /\ Frame
    BY <1>6 DEF RegisterEmptyStmt, RegisterBreakStmt, RegisterContinueStmt
  <2>2. phase = "register" /\ Sound
    BY <2>1, StepClass
  <2>3. Onward(stack', answer', table', node')
    BY <1>6, <2>2, StepEmptyStmt, StepBreakStmt, StepContinueStmt
  <2> QED
    BY <1>0, <2>1, <2>2, <2>3
<1>7. ASSUME RegisterCallExpr \/ RegisterIdentifier PROVE Goal
  <2>1. (Calls("register", "CallExpr") \/ Calls("register", "Identifier")) /\ Frame
    BY <1>7 DEF RegisterCallExpr, RegisterIdentifier
  <2>2. phase = "register" /\ Sound /\ FunctionsKept /\ ItemsKept
    BY <2>1, StepClass
  <2>3. Onward(stack', answer', table', node')
    BY <1>7, <2>2, StepCallExpr, StepIdentifier
  <2> QED
    BY <1>0, <2>1, <2>2, <2>3
<1>8. Goal
  <2>1. CASE RegisterDefinition
    <3>1. RegisterFuncParam \/ RegisterArrayInfo => Goal
      BY <1>1 DEF RegisterFuncParam, RegisterArrayInfo, Plainly
    <3> QED
      BY <1>2, <1>3, <1>4, <1>5, <2>1, <3>1 DEF RegisterDefinition
  <2>2. CASE RegisterStatement
    <3>1. RegisterIfStmt \/ RegisterWhileStmt \/ RegisterReturnStmt \/ RegisterExprStmt \/ RegisterVarDecl
            \/ RegisterConstDecl => Goal
      BY <1>1 DEF RegisterIfStmt, RegisterWhileStmt, RegisterReturnStmt, RegisterExprStmt, RegisterVarDecl,
                  RegisterConstDecl, Plainly
    <3> QED
      BY <1>3, <1>6, <2>2, <3>1 DEF RegisterStatement
  <2>3. CASE RegisterExpression
    <3>1. RegisterUnaryExpr \/ RegisterBinaryExpr \/ RegisterCallParam \/ RegisterInitList \/ RegisterIndexExpr
            \/ RegisterAssignExpr \/ RegisterValue => Goal
      BY <1>1 DEF RegisterUnaryExpr, RegisterBinaryExpr, RegisterCallParam, RegisterInitList, RegisterIndexExpr,
                  RegisterAssignExpr, RegisterValue, Plainly
    <3> QED
      BY <1>7, <2>3, <3>1 DEF RegisterExpression
  <2>4. CASE Ignored
    BY <1>5, <2>4
  <2> QED
    BY <2>1, <2>2, <2>3, <2>4
<1> QED
  BY <1>8, OnwardKept DEF Goal
-----------------------------------------------------------------------------
(* The visit goes to the children of what it has reached. *)
LEMMA PrintedIs ==
  ASSUME NEW n
  PROVE  /\ Is(n, "CompUnit") => Printed(n) = decls \o funcdefs
         /\ Is(n, "CallExpr") => Printed(n) = Tail(Kids(n))
         /\ ~Is(n, "CompUnit") =>
              Printed(n) = Kids(n) \/ Printed(n) = Tail(Kids(n)) \/ Printed(n) = Reverse(Kids(n))
         /\ ~Is(n, "CompUnit") /\ ~Is(n, "CallExpr") /\ ~Is(n, "IndexExpr") /\ ~Is(n, "AssignExpr") =>
              Printed(n) = Kids(n)
<1> DEFINE a == Is(n, "CompUnit")
           b == Is(n, "CallExpr")
           c == Is(n, "IndexExpr")
           d == Is(n, "AssignExpr")
           A == decls \o funcdefs
           B == Tail(Kids(n))
           C == Reverse(Kids(n))
           K == Kids(n)
<1>1. Printed(n) = CASE a -> A [] b -> B [] c -> B [] d -> C [] OTHER -> K
  BY DEF Printed
<1>2. (a => ~b /\ ~c /\ ~d) /\ (b => ~c /\ ~d) /\ (c => ~d)
  BY DEF Is
<1> HIDE DEF a, b, c, d, A, B, C, K
<1>3. /\ a => Printed(n) = A
      /\ b => Printed(n) = B
      /\ c => Printed(n) = B
      /\ d => Printed(n) = C
      /\ ~a /\ ~b /\ ~c /\ ~d => Printed(n) = K
  BY <1>1, <1>2, Zenon
<1> QED
  BY <1>2, <1>3 DEF a, b, c, d, A, B, C, K

(* There is one CompUnit.                                                  *)
LEMMA NotUnit ==
  ASSUME src \in Programs, NEW n \in Nodes, n # Unit
  PROVE  ~Is(n, "CompUnit")
<1>1. Under(src[n].is, src[src[n].up].is)
  BY Grown
<1> QED
  BY <1>1 DEF Under, Is, Declarations, Definitions, Statements, Expressions

(* The visitor goes from a node to children of it, from a call to its      *)
(* parameters only.                                                        *)
LEMMA PrintedKids ==
  ASSUME src \in Programs, NEW n \in Nodes, n # Unit
  PROVE  /\ Printed(n) \in Seq(Nodes)
         /\ \A i \in DOMAIN Printed(n) : src[Printed(n)[i]].up = n
         /\ Is(n, "CallExpr") => \A i \in DOMAIN Printed(n) : ~Is(Printed(n)[i], "Identifier")
<1> DEFINE K == Kids(n)
<1>1. K \in Seq(Nodes) /\ (\A i \in DOMAIN K : src[K[i]].up = n) /\ Shaped(src, n)
  <2>1. K \in Seq(Nodes) /\ Range(K) = {k \in Nodes : src[k].up = n} /\ Shaped(src, n)
    BY Grown
  <2>2. \A i \in DOMAIN K : K[i] \in Range(K)
    BY DEF Range
  <2> QED
    BY <2>1, <2>2
<1>2. /\ Printed(n) = K \/ Printed(n) = Tail(K) \/ Printed(n) = Reverse(K)
      /\ Is(n, "CallExpr") => Printed(n) = Tail(K)
  BY NotUnit, PrintedIs
<1>3. Is(n, "CallExpr") => Len(K) = 2 /\ Is(K[2], "CallParam")
  <2>1. ASSUME Is(n, "CallExpr") PROVE Len(K) = 2 /\ Is(K[2], "CallParam")
    <3>1. [k \in DOMAIN K |-> src[K[k]].is] = <<"Identifier", "CallParam">>
      BY <1>1, <2>1 DEF Shaped, Is, Kids
    <3>2. DOMAIN K = 1 .. 2
      BY <3>1
    <3>3. src[K[2]].is = "CallParam"
      BY <3>1, <3>2
    <3>4. Len(K) = 2
      BY <1>1, <3>2
    <3> QED
      BY <3>3, <3>4 DEF Is
  <2> QED
    BY <2>1
<1> HIDE DEF K
<1>4. CASE Printed(n) = K /\ ~Is(n, "CallExpr")
  BY <1>1, <1>4
<1>5. CASE Printed(n) = Tail(K)
  <2>1. CASE K = << >>
    <3>1. ~Is(n, "CallExpr")
      BY <1>3, <2>1
    <3> QED
      BY <1>5, <2>1, <3>1
  <2>2. CASE K # << >>
    <3>1. Tail(K) \in Seq(Nodes) /\ \A i \in DOMAIN Tail(K) : Tail(K)[i] = K[i + 1] /\ i + 1 \in DOMAIN K
      BY <1>1, <2>2
    <3>2. Is(n, "CallExpr") => \A i \in DOMAIN Tail(K) : i = 1
      <4>1. Len(Tail(K)) = Len(K) - 1 /\ DOMAIN Tail(K) = 1 .. Len(Tail(K))
        BY <1>1, <2>2
      <4>2. Is(n, "CallExpr") => Len(Tail(K)) = 1
        BY <1>3, <4>1
      <4>3. Len(Tail(K)) = 1 => DOMAIN Tail(K) = 1 .. 1
        BY <4>1
      <4>4. \A i \in 1 .. 1 : i = 1
        OBVIOUS
      <4> QED
        BY <4>2, <4>3, <4>4
    <3>3. Is(n, "CallExpr") => \A i \in DOMAIN Tail(K) : Is(Tail(K)[i], "CallParam")
      BY <1>3, <3>1, <3>2
    <3> QED
      BY <1>1, <1>5, <3>1, <3>3 DEF Is
  <2> QED
    BY <2>1, <2>2
<1>6. CASE Printed(n) = Reverse(K) /\ ~Is(n, "CallExpr")
  <2>1. Reverse(K) = [i \in 1 .. Len(K) |-> K[(Len(K) - i) + 1]]
    BY DEF Reverse
  <2>2. Len(K) \in Nat /\ DOMAIN K = 1 .. Len(K)
    BY <1>1
  <2>3. \A i \in 1 .. Len(K) : (Len(K) - i) + 1 \in DOMAIN K /\ K[(Len(K) - i) + 1] \in Nodes
    BY <1>1, <2>2
  <2>4. Reverse(K) \in Seq(Nodes) /\ DOMAIN Reverse(K) = 1 .. Len(K)
    BY <2>1, <2>2, <2>3
  <2>5. \A i \in 1 .. Len(K) : Reverse(K)[i] = K[(Len(K) - i) + 1]
    BY <2>1
  <2> QED
    BY <1>1, <1>6, <2>3, <2>4, <2>5
<1> QED
  BY <1>2, <1>4, <1>5, <1>6

(* What it goes to from a reached node is reached.                         *)
LEMMA PrintedReached ==
  ASSUME src \in Programs, Parsed, NEW n \in Nodes, Reached(n)
  PROVE  Printed(n) \in Seq(Nodes) /\ \A i \in DOMAIN Printed(n) : Reached(Printed(n)[i])
<1>1. CASE n = Unit
  <2>1. Printed(n) = decls \o funcdefs
    BY <1>1, Grown, PrintedIs
  <2>3. \A i \in DOMAIN decls : decls[i] \in Range(decls)
    BY DEF Range
  <2>4. \A i \in DOMAIN funcdefs : funcdefs[i] \in Range(funcdefs)
    BY DEF Range
  <2>5. decls \in Seq(Nodes) /\ funcdefs \in Seq(Nodes)
    BY DEF Parsed
  <2>6. \A i \in DOMAIN Printed(n) : Item(Printed(n)[i]) /\ Printed(n)[i] \in Nodes
    BY <2>1, <2>3, <2>4, <2>5 DEF Item
  <2>7. \A k \in Nodes : Item(k) => ~Is(k, "Identifier")
    BY DEF Item, Parsed, Is, Declarations
  <2> QED
    BY <2>1, <2>5, <2>6, <2>7, InsideSelf DEF Reached, InItem
<1>2. CASE n # Unit
  <2>1. /\ Printed(n) \in Seq(Nodes)
        /\ \A i \in DOMAIN Printed(n) : src[Printed(n)[i]].up = n
        /\ Is(n, "CallExpr") => \A i \in DOMAIN Printed(n) : ~Is(Printed(n)[i], "Identifier")
    BY <1>2, PrintedKids
  <2>2. ASSUME NEW i \in DOMAIN Printed(n) PROVE Reached(Printed(n)[i])
    <3> DEFINE k == Printed(n)[i]
    <3>1. k \in Nodes /\ src[k].up = n
      BY <2>1
    <3>2. Inside(k, n)
      BY <3>1, InsideStep, InsideSelf
    <3>3. PICK m \in Nodes : Item(m) /\ Inside(n, m)
      BY <1>2 DEF Reached, InItem
    <3>4. InItem(k)
      BY <3>1, <3>2, <3>3, InsideTrans DEF InItem
    <3>5. ~(Is(k, "Identifier") /\ Callee(k))
      BY <2>1, <3>1 DEF Callee, Is
    <3> QED
      BY <3>4, <3>5 DEF Reached
  <2> QED
    BY <2>1, <2>2
<1> QED
  BY <1>1, <1>2

(* A step of the visit changes the stack and the phase only.               *)
SameButVisit ==
  /\ src' = src /\ left' = left /\ decls' = decls /\ funcdefs' = funcdefs
  /\ node' = node /\ table' = table /\ answer' = answer

(* A visit that goes on keeps the invariant.                               *)
LEMMA AcceptKept ==
  ASSUME IInv, phase = "visit", stack # << >>, SameButVisit,
         NEW ks \in Seq(Nodes), \A i \in DOMAIN ks : Reached(ks[i]), Accept(ks)
  PROVE  IInv'
<1> DEFINE ts == [i \in DOMAIN ks |-> Task("accept", ks[i], Nil)]
           rest == Tail(stack)
<1>1. stack' = ts \o rest /\ phase' = "visit"
  BY DEF Accept
<1>2. Typed' /\ FunctionsLast' /\ Parsed' /\ Lexical' /\ Walked'
  BY <1>1, SameRest DEF SameButVisit, Phases, IInv, InPhase
<1>3. stack \in Seq(Visits) /\ \A i \in DOMAIN stack : Reached(stack[i].node)
  BY DEF IInv, InPhase, Visiting
<1>4. ts \in Seq(Visits) /\ \A i \in DOMAIN ts : Reached(ts[i].node)
  <2>1. DOMAIN ks = 1 .. Len(ks) /\ Len(ks) \in Nat
    OBVIOUS
  <2>2. \A i \in DOMAIN ks : Task("accept", ks[i], Nil) \in Visits /\ Task("accept", ks[i], Nil).node = ks[i]
    BY DEF Task, Visits
  <2> DEFINE S == Visits
             task(i) == Task("accept", ks[i], Nil)
  <2>3. ts = [i \in 1 .. Len(ks) |-> task(i)] /\ \A i \in 1 .. Len(ks) : task(i) \in S /\ task(i).node = ks[i]
    BY <2>1, <2>2
  <2> HIDE DEF S, task, ts
  <2>4. ts \in Seq(S) /\ DOMAIN ts = DOMAIN ks /\ \A i \in DOMAIN ks : ts[i].node = ks[i]
    BY <2>1, <2>3
  <2> QED
    BY <2>4 DEF S
<1>5. rest \in Seq(Visits) /\ \A i \in DOMAIN rest : Reached(rest[i].node)
  <2> DEFINE S == Visits
  <2>1. stack \in Seq(S)
    BY <1>3
  <2> HIDE DEF S
  <2>2. rest \in Seq(S) /\ \A i \in DOMAIN rest : rest[i] = stack[i + 1] /\ i + 1 \in DOMAIN stack
    BY <2>1
  <2> QED
    BY <1>3, <2>2 DEF S
<1> HIDE DEF ts, rest
<1>6. stack' \in Seq(Visits) /\ \A i \in DOMAIN stack' : Reached(stack'[i].node)
  <2> DEFINE S == Visits
  <2>1. ts \in Seq(S) /\ rest \in Seq(S)
    BY <1>4, <1>5
  <2> HIDE DEF S
  <2>2. stack' \in Seq(S) /\ \A i \in DOMAIN stack' :
           (i \in DOMAIN ts /\ stack'[i] = ts[i]) \/ (i - Len(ts) \in DOMAIN rest /\ stack'[i] = rest[i - Len(ts)])
    BY <1>1, <2>1
  <2> QED
    BY <1>4, <1>5, <2>2 DEF S
<1>7. Visiting'
  <2>1. /\ Nodes' = Nodes /\ Visits' = Visits
        /\ \A n : Reached(n)' <=> Reached(n)
    BY SameInside, SameParts DEF SameButVisit, Visits, Reached
  <2> QED
    BY <1>6, <2>1 DEF Visiting
<1>8. AcceptsWhatRegistered'
  BY <1>1 DEF AcceptsWhatRegistered, Ended
<1>9. left' = << >>
  BY DEF SameButVisit, IInv, InPhase
<1> QED
  BY <1>1, <1>2, <1>7, <1>8, <1>9 DEF IInv, InPhase, Ended

(* So does one that ends, if it ends at the end or with an excuse.         *)
LEMMA EndKept ==
  ASSUME IInv, phase = "visit", SameButVisit, NEW how \in Ended, End(how),
         \/ how = "accepted"
         \/ \E n \in Nodes : answer[n] = "false"
         \/ how = "refused" /\ \E n \in Nodes : Is(n, "BreakStmt") /\ node[n].control_node = Nil
  PROVE  IInv'
<1>1. stack' = << >> /\ phase' = how
  BY DEF End
<1>2. Typed' /\ FunctionsLast' /\ Parsed' /\ Lexical' /\ Walked'
  BY <1>1, SameRest DEF SameButVisit, Phases, IInv, InPhase
<1>3. AcceptsWhatRegistered'
  BY <1>1, SameInside DEF AcceptsWhatRegistered, SameButVisit
<1>4. left' = << >>
  BY DEF SameButVisit, IInv, InPhase
<1> QED
  BY <1>1, <1>2, <1>3, <1>4 DEF IInv, InPhase, Ended
-----------------------------------------------------------------------------
(* Something has failed.                                                   *)
Excused == \E n \in Nodes : answer[n] = "false"

(* A node that is visited has been done unless something is lost.          *)
LEMMA AcceptingIs ==
  ASSUME IInv, NEW class, Calls("accept", class)
  PROVE  /\ phase = "visit" /\ stack # << >> /\ src \in Programs /\ this \in Nodes /\ Reached(this) /\ Is(this, class)
         /\ class # "CompUnit" => Excused \/ (this # Unit /\ Done(node, this))
<1>1. stack # << >> /\ stack[1].call = "accept" /\ Is(this, class)
  BY DEF Calls, this
<1>2. src \in Programs
  BY DEF IInv, Typed
<1>3. phase # "parse" /\ phase \notin Ended
  BY <1>1 DEF IInv, InPhase
<1>4. phase # "register"
  <2>1. ~Starting
    BY <1>1 DEF Starting, Task
  <2>2. ~Walking(stack, answer, table, node)
    <3>1. ASSUME Walking(stack, answer, table, node) PROVE FALSE
      <4>1. stack \in Seq(Tasks)
        BY <3>1 DEF Walking
      <4>2. stack[1] \in Tasks
        BY <1>1, <4>1
      <4> QED
        BY <1>1, <4>2 DEF Tasks
    <3> QED
      BY <3>1
  <2> QED
    BY <2>1, <2>2 DEF IInv, InPhase
<1>5. phase = "visit" /\ Visiting /\ Walked
  BY <1>3, <1>4 DEF IInv, InPhase, Typed, Phases
<1>6. this \in Nodes /\ Reached(this)
  <2>1. stack[1] \in Visits /\ 1 \in DOMAIN stack
    BY <1>1, <1>5 DEF Visiting
  <2> QED
    BY <1>5, <2>1 DEF Visiting, Visits, this
<1>7. ASSUME class # "CompUnit" PROVE Excused \/ (this # Unit /\ Done(node, this))
  <2>1. this # Unit
    BY <1>1, <1>2, <1>7, Grown DEF Is
  <2>2. InItem(this)
    BY <1>6, <2>1 DEF Reached
  <2>3. LostIn(answer, this) \/ Done(node, this)
    BY <1>5, <1>6, <2>2 DEF Walked
  <2> QED
    BY <2>1, <2>3 DEF LostIn, Excused
<1> QED
  BY <1>1, <1>2, <1>5, <1>6, <1>7

(* A step of the visit either goes on or has a reason to end. *)
Goes ==
  \/ Accept(Printed(this)) \/ Accept(<< >>)
  \/ \E how \in Ended : End(how) /\ (Excused \/ (how = "refused" /\ Is(this, "BreakStmt") /\ node[this].control_node = Nil))

(* Either way the invariant is kept.                                       *)
LEMMA GoesKept ==
  ASSUME IInv, NEW class, Calls("accept", class), SameButVisit, Goes
  PROVE  IInv'
<1>1. phase = "visit" /\ stack # << >> /\ src \in Programs /\ this \in Nodes /\ Reached(this)
  BY AcceptingIs
<1>2. CASE Accept(Printed(this))
  <2>1. Printed(this) \in Seq(Nodes) /\ \A i \in DOMAIN Printed(this) : Reached(Printed(this)[i])
    BY <1>1, PrintedReached DEF IInv
  <2> QED
    BY <1>1, <1>2, <2>1, AcceptKept
<1>3. CASE Accept(<< >>)
  <2>1. << >> \in Seq(Nodes)
    OBVIOUS
  <2> DEFINE ks == << >>
  <2>2. ks \in Seq(Nodes) /\ DOMAIN ks = {}
    OBVIOUS
  <2>3. Accept(ks)
    BY <1>3
  <2> HIDE DEF ks
  <2> QED
    BY <1>1, <2>2, <2>3, AcceptKept
<1>4. ASSUME NEW how \in Ended, End(how),
             Excused \/ (how = "refused" /\ Is(this, "BreakStmt") /\ node[this].control_node = Nil)
      PROVE  IInv'
  BY <1>1, <1>4, EndKept DEF Excused
<1> QED
  BY <1>2, <1>3, <1>4 DEF Goes

(* AcceptOr, if it ends the visit with an excuse only.                     *)
LEMMA AcceptOrKept ==
  ASSUME IInv, NEW how \in Ended, NEW class, NEW unregistered \in BOOLEAN, AcceptOr(how, class, unregistered),
         unregistered => Excused
  PROVE  IInv'
<1>1. Calls("accept", class) /\ SameButVisit
  BY DEF AcceptOr, SameButVisit, parsed
<1>2. Goes
  BY DEF AcceptOr, Goes
<1> QED
  BY <1>1, <1>2, GoesKept

(* Without a scope something was lost. *)
LEMMA UnscopedIs ==
  ASSUME IInv, NEW class, Calls("accept", class), class \notin {"CompUnit", "EmptyStmt"}, Unscoped
  PROVE  Excused
<1>1. Excused \/ (this # Unit /\ Done(node, this))
  BY AcceptingIs
<1>2. this \in Nodes /\ Is(this, class) /\ src \in Programs
  BY AcceptingIs
<1>3. this # Unit => Container(this) \in Nodes
  BY <1>2, ContainerInNodes
<1>4. Nil \notin Nodes
  BY <1>2, Grown DEF Nil
<1> QED
  BY <1>1, <1>2, <1>3, <1>4 DEF Done, Is, Unscoped

(* The classes that throw or refuse without a scope.                       *)
LEMMA ThrowingKept ==
  ASSUME IInv, NEW class, class \notin {"CompUnit", "EmptyStmt"}, Throwing(class) \/ Refusing(class)
  PROVE  IInv'
<1> DEFINE u == Unscoped
<1>1. Calls("accept", class)
  BY DEF Throwing, Refusing, AcceptOr
<1>2. u \in BOOLEAN /\ (u => Excused)
  BY <1>1, UnscopedIs DEF Unscoped
<1>3. AcceptOr("thrown", class, u) \/ AcceptOr("refused", class, u)
  BY DEF Throwing, Refusing
<1>4. "thrown" \in Ended /\ "refused" \in Ended
  BY DEF Ended
<1> HIDE DEF u
<1> QED
  BY <1>2, <1>3, <1>4, AcceptOrKept

(* The classes that are visited in any case.                               *)
LEMMA PlainKept ==
  ASSUME IInv, NEW class, AcceptOr("thrown", class, FALSE)
  PROVE  IInv'
<1> DEFINE u == FALSE
<1>1. AcceptOr("thrown", class, u) /\ u \in BOOLEAN /\ ~u
  OBVIOUS
<1>2. "thrown" \in Ended
  BY DEF Ended
<1> HIDE DEF u
<1> QED
  BY <1>1, <1>2, AcceptOrKept

(* Function: a function that has been done has a scope of its own.         *)
LEMMA FunctionKept ==
  ASSUME IInv, AcceptFunction
  PROVE  IInv'
<1> DEFINE u == Unscoped \/ node[this].outer = Unset
<1>1. Calls("accept", "Function") /\ AcceptOr("thrown", "Function", u)
  BY DEF AcceptFunction, AcceptOr
<1>2. Excused \/ (Is(this, "Function") /\ Done(node, this))
  BY <1>1, AcceptingIs
<1>3. u \in BOOLEAN /\ (u => Excused)
  BY <1>1, <1>2, UnscopedIs DEF Unscoped, Done
<1>4. "thrown" \in Ended
  BY DEF Ended
<1> HIDE DEF u
<1> QED
  BY <1>1, <1>3, <1>4, AcceptOrKept

(* FuncParam: its parent is the function, which has adopted it.            *)
LEMMA FuncParamKept ==
  ASSUME IInv, AcceptFuncParam
  PROVE  IInv'
<1> DEFINE u == Unscoped \/ Parent(this) = Nil
<1>1. Calls("accept", "FuncParam") /\ AcceptOr("thrown", "FuncParam", u)
  BY DEF AcceptFuncParam, AcceptOr
<1>2. this \in Nodes /\ Is(this, "FuncParam") /\ src \in Programs
  BY <1>1, AcceptingIs
<1>3. this # Unit
  BY <1>2, Grown DEF Is
<1> DEFINE f == src[this].up
<1>4. f \in Nodes /\ Is(f, "Function") /\ this \in Range(Kids(f)) /\ f # Nil
  <2>1. f \in Nodes /\ Under(src[this].is, src[f].is)
    BY <1>2, <1>3, Grown
  <2>2. Is(f, "Function")
    BY <1>2, <2>1 DEF Under, Is, Declarations, Definitions, Statements, Expressions
  <2>3. Range(Kids(f)) = {k \in Nodes : src[k].up = f} /\ Nil \notin Nodes
    BY <1>2, <2>1, Grown DEF Nil
  <2> QED
    BY <1>2, <2>1, <2>2, <2>3
<1>5. Adopted(f) = Range(Kids(f))
  <2> DEFINE a == else_branch(f)
             b == Is(f, "IndexExpr")
             c == Is(f, "AssignExpr")
             A == {Kids(f)[1], Kids(f)[2]}
             B == Range(Tail(Kids(f)))
             C == {}
             D == Range(Kids(f))
  <2>1. Adopted(f) = CASE a -> A [] b -> B [] c -> C [] OTHER -> D
    BY DEF Adopted
  <2>2. ~a /\ ~b /\ ~c
    BY <1>4 DEF else_branch, Is
  <2> HIDE DEF a, b, c, A, B, C, D
  <2>3. Adopted(f) = D
    BY <2>1, <2>2, Zenon
  <2> QED
    BY <2>3 DEF D
<1>6. Parent(this) # Nil
  BY <1>3, <1>4, <1>5 DEF Parent
<1>7. u \in BOOLEAN /\ (u => Excused)
  BY <1>1, <1>6, UnscopedIs DEF Unscoped
<1>8. "thrown" \in Ended
  BY DEF Ended
<1> HIDE DEF u
<1> QED
  BY <1>1, <1>7, <1>8, AcceptOrKept

(* BreakStmt and ContinueStmt: a continue that has been done has its       *)
(* statement, a break need not have one.                                   *)
LEMMA JumpKept ==
  ASSUME IInv, AcceptBreakStmt \/ AcceptContinueStmt
  PROVE  IInv'
<1>1. ASSUME NEW class \in {"BreakStmt", "ContinueStmt"}, AcceptJump(class) PROVE IInv'
  <2>1. Calls("accept", class) /\ SameButVisit
    BY <1>1 DEF AcceptJump, SameButVisit, parsed
  <2>2. Is(this, class) /\ (Excused \/ Done(node, this))
    BY <1>1, <2>1, AcceptingIs
  <2>3. Unscoped => Excused
    BY <1>1, <2>1, UnscopedIs
  <2>4. "thrown" \in Ended /\ "refused" \in Ended
    BY DEF Ended
  <2>5. CASE Unscoped
    <3>1. End("thrown")
      BY <1>1, <2>5 DEF AcceptJump
    <3>2. Goes
      BY <2>3, <2>4, <2>5, <3>1 DEF Goes
    <3> QED
      BY <2>1, <3>2, GoesKept
  <2>6. CASE ~Unscoped /\ node[this].control_node = Nil
    <3>1. End("refused")
      BY <1>1, <2>6 DEF AcceptJump
    <3>2. Excused \/ Is(this, "BreakStmt")
      BY <1>1, <2>2, <2>6 DEF Done, Is
    <3>3. Goes
      BY <2>4, <2>6, <3>1, <3>2 DEF Goes
    <3> QED
      BY <2>1, <3>3, GoesKept
  <2>7. CASE ~Unscoped /\ node[this].control_node # Nil
    <3>1. Goes
      BY <1>1, <2>7 DEF AcceptJump, Goes
    <3> QED
      BY <2>1, <3>1, GoesKept
  <2> QED
    BY <2>5, <2>6, <2>7
<1> QED
  BY <1>1 DEF AcceptBreakStmt, AcceptContinueStmt

(* Identifier: the visitor never reaches the name of a call, and every     *)
(* other identifier that has been done has a definition.                   *)
LEMMA IdentifierKept ==
  ASSUME IInv, AcceptIdentifier
  PROVE  IInv'
<1>1. Calls("accept", "Identifier") /\ SameButVisit
  BY DEF AcceptIdentifier, SameButVisit, parsed
<1>2. Is(this, "Identifier") /\ Reached(this) /\ (Excused \/ (this # Unit /\ Done(node, this)))
  BY <1>1, AcceptingIs
<1>3. Unscoped => Excused
  BY <1>1, UnscopedIs
<1>4. node[this].definition = Unset => Excused
  BY <1>2 DEF Done, Reached
<1>5. "thrown" \in Ended /\ "crashed" \in Ended
  BY DEF Ended
<1>6. Goes
  BY <1>3, <1>4, <1>5 DEF AcceptIdentifier, Goes
<1> QED
  BY <1>1, <1>6, GoesKept

(* All classes.                                                            *)
LEMMA VisitKept ==
  ASSUME IInv, Visit
  PROVE  IInv'
<1>1. AcceptCompUnit \/ AcceptArrayInfo \/ AcceptEmptyStmt \/ AcceptValue \/ AcceptCallParam => IInv'
  BY PlainKept DEF AcceptCompUnit, AcceptArrayInfo, AcceptEmptyStmt, AcceptValue, AcceptCallParam
<1>2. AcceptVariable \/ AcceptBlock \/ AcceptIfStmt \/ AcceptWhileStmt \/ AcceptReturnStmt \/ AcceptExprStmt
        \/ AcceptVarDecl \/ AcceptConstDecl \/ AcceptUnaryExpr \/ AcceptBinaryExpr \/ AcceptAssignExpr
        \/ AcceptCallExpr \/ AcceptInitList \/ AcceptIndexExpr => IInv'
  BY ThrowingKept DEF AcceptVariable, AcceptBlock, AcceptIfStmt, AcceptWhileStmt, AcceptReturnStmt, AcceptExprStmt,
     AcceptVarDecl, AcceptConstDecl, AcceptUnaryExpr, AcceptBinaryExpr, AcceptAssignExpr, AcceptCallExpr,
     AcceptInitList, AcceptIndexExpr
<1> QED
  BY <1>1, <1>2, FunctionKept, FuncParamKept, JumpKept, IdentifierKept DEF Visit

(* A step that changes nothing.                                            *)
LEMMA Stays ==
  ASSUME IInv, UNCHANGED vars
  PROVE  IInv'
<1>1. SameButVisit /\ stack' = stack /\ phase' = phase
  BY DEF vars, SameButVisit
<1>2. Typed' /\ FunctionsLast' /\ Parsed' /\ Lexical' /\ (Walked => Walked') /\ (Untouched => Untouched')
  BY <1>1, SameRest DEF SameButVisit, IInv, Typed
<1>3. left' = left /\ src' = src /\ answer' = answer /\ node' = node /\ table' = table
      /\ decls' = decls /\ funcdefs' = funcdefs
  BY <1>1 DEF SameButVisit
<1>4. Starting => Starting'
  BY <1>1, <1>2 DEF Starting
<1>5. Walking(stack, answer, table, node) => Walking(stack, answer, table, node)'
  BY <1>1, <1>3, SameWalk
<1>6. Visiting => Visiting'
  <2>1. /\ Nodes' = Nodes /\ Visits' = Visits
        /\ \A n : Reached(n)' <=> Reached(n)
    BY <1>3, SameInside, SameParts DEF Visits, Reached
  <2> QED
    BY <1>1, <2>1 DEF Visiting
<1>7. AcceptsWhatRegistered'
  BY <1>1, <1>3, SameInside DEF IInv, AcceptsWhatRegistered
<1>8. InPhase'
  BY <1>1, <1>2, <1>3, <1>4, <1>5, <1>6 DEF IInv, InPhase, Ended
<1> QED
  BY <1>2, <1>7, <1>8 DEF IInv

(* The invariant is inductive.                                             *)
LEMMA Steps ==
  ASSUME IInv, [Next]_vars
  PROVE  IInv'
<1>1. ASSUME Accepted PROVE IInv'
  <2>1. phase = "visit" /\ End("accepted") /\ SameButVisit
    BY <1>1 DEF Accepted, SameButVisit, parsed
  <2>2. "accepted" \in Ended
    BY DEF Ended
  <2> QED
    BY <2>1, <2>2, EndKept
<1> QED
  BY <1>1, ParseDeclaration, ParseFunction, ParseEnds, RegisterEnds, RegisterSteps, VisitKept, Stays DEF Next, Parse
-----------------------------------------------------------------------------
(* The invariant implies the types.                                        *)
LEMMA ThenTypeOK ==
  ASSUME IInv
  PROVE  TypeOK
<1>1. Typed /\ Parsed /\ src \in Programs
  BY DEF IInv, Typed
<1>2. decls \in Seq(Nodes) /\ funcdefs \in Seq(Nodes)
  BY <1>1 DEF Parsed
<1>3. left \in Seq(Nodes)
  <2> DEFINE K == Kids(Unit)
  <2>1. K \in Seq(Nodes) /\ left = SubSeq(K, 1, Len(left)) /\ Len(left) <= Len(K)
    BY <1>1, Grown DEF Parsed
  <2> HIDE DEF K
  <2>2. CASE left = << >>
    BY <2>2
  <2>3. CASE left # << >>
    BY <2>1
  <2> QED
    BY <2>2, <2>3
<1>4. ASSUME NEW n \in Nodes
      PROVE  /\ node[n].scope \in Nodes \cup {Nil, Predefined}
             /\ node[n].outer \in Nodes \cup {Nil, Unset}
             /\ node[n].definition \in Nodes \cup {Unset}
             /\ node[n].is_lvalue \in BOOLEAN
             /\ node[n].control_node \in Nodes \cup {Nil}
             /\ node[n].base_type \in {"void", "declared"}
             /\ answer[n] \in {"none", "true", "false"}
  <2>1. node[n] \in Fields /\ answer[n] \in {"none", "true", "false"}
    BY <1>1 DEF Typed
  <2> QED
    BY <2>1 DEF Fields
<1>5. \A e \in table : e \in [scope : Nodes, map : {"functions", "constants", "variables"}, def : Nodes]
  BY <1>1 DEF Typed, TableTyped
<1>6. phase \in {"parse", "register", "visit"} \cup Ended
  BY <1>1 DEF Typed, Phases
<1> QED
  BY <1>2, <1>3, <1>4, <1>5, <1>6 DEF TypeOK

(* No call is left for a node that is in an item with a result. *)
LEMMA NoneLeft ==
  ASSUME IInv, Walking(stack, answer, table, node), NEW k \in Nodes, Item(k), answer[k] # "none",
         NEW n \in Nodes, Inside(n, k), NEW i \in DOMAIN stack
  PROVE  ~Inside(n, Root(stack[i])) /\ ~(Defining(stack[i]) /\ stack[i].node = n)
<1> DEFINE t == stack[i]
           r == Root(t)
<1>1. src \in Programs /\ ItemsKept
  BY ItemsKeptIs DEF IInv, Typed
<1>2. Off(t, k) /\ Prepared(node, t)
  BY DEF Walking, Answered
<1>3. ~Inside(t.node, k) /\ ~Inside(k, r) /\ t.node \in Nodes /\ InItem(t.node)
  BY <1>2 DEF Off, Prepared, Tasks
<1>4. ASSUME Inside(n, r) PROVE FALSE
  <2>1. Inside(r, k)
    BY <1>1, <1>3, <1>4, InsideBoth
  <2>2. r \in Nodes /\ Inside(r, t.node)
    <3>1. Fine(t)
      BY <1>2 DEF Prepared, Fine
    <3>2. r # Nil
      BY <1>1, <1>4, InsideStep, InsideNil
    <3> HIDE DEF t
    <3> QED
      BY <1>1, <3>1, <3>2, RootIs
  <2>4. PICK l \in Nodes : Item(l) /\ Inside(t.node, l)
    BY <1>3 DEF InItem
  <2>5. Inside(r, l)
    BY <1>1, <1>3, <2>2, <2>4, InsideTrans
  <2>6. k = l
    BY <1>1, <2>1, <2>2, <2>4, <2>5, SameItem DEF ItemsKept
  <2> QED
    BY <1>3, <2>4, <2>6
<1>5. ~(Defining(t) /\ t.node = n)
  BY <1>3
<1> QED
  BY <1>4, <1>5

(* An item with a result is walked: the invariant says of everything in it *)
(* that it is lost or done.                                                *)
LEMMA ThenComplete ==
  ASSUME IInv
  PROVE  RegisteredComplete
<1>1. ASSUME NEW n \in Nodes, ~Lost(n), NEW k \in Range(decls \o funcdefs), Inside(n, k), answer[k] = "true"
      PROVE  Done(node, n) /\ (src[n].is \in Definitions => Entered(table, n))
  <2>1. k \in Nodes /\ Item(k) /\ src \in Programs
    <3>1. decls \in Seq(Nodes) /\ funcdefs \in Seq(Nodes) /\ src \in Programs
      BY DEF IInv, Parsed, Typed
    <3>2. PICK i \in DOMAIN (decls \o funcdefs) : k = (decls \o funcdefs)[i]
      BY DEF Range
    <3>3. \/ i \in DOMAIN decls /\ k = decls[i]
          \/ i - Len(decls) \in DOMAIN funcdefs /\ k = funcdefs[i - Len(decls)]
      BY <3>1, <3>2
    <3> QED
      BY <3>1, <3>3 DEF Item, Range
  <2>2. InItem(n) /\ ~LostIn(answer, n)
    BY <1>1, <2>1 DEF InItem, Lost, LostIn
  <2>3. ~Untouched
    BY <1>1, <2>1 DEF Untouched
  <2>4. CASE phase = "register"
    <3>1. Walking(stack, answer, table, node)
      BY <2>3, <2>4 DEF IInv, InPhase, Starting
    <3>2. \A i \in DOMAIN stack : ~Inside(n, Root(stack[i])) /\ ~(Defining(stack[i]) /\ stack[i].node = n)
      BY <1>1, <2>1, <3>1, NoneLeft
    <3> QED
      BY <2>2, <3>1, <3>2 DEF Walking, Covered
  <2>5. CASE phase # "register"
    <3>1. Walked
      BY <2>3, <2>5 DEF IInv, InPhase, Typed, Phases
    <3> QED
      BY <2>2, <3>1 DEF Walked
  <2> QED
    BY <2>4, <2>5
<1> QED
  BY <1>1 DEF RegisteredComplete, Done, Entered, Definitions

(* The inductive invariant of parsing, registration and visit.             *)
THEOREM SpecIInv == Spec => []IInv
<1>1. Init => IInv
  BY Initially
<1>2. IInv /\ [Next]_vars => IInv'
  BY Steps
<1> QED
  BY <1>1, <1>2, PTL DEF Spec

(* The fields have their types, for every program (ast-node.hxx).          *)
THEOREM Typing == Spec => []TypeOK
BY SpecIInv, ThenTypeOK, PTL

(* A function or global declaration whose registration returned true is    *)
(* registered completely, whatever failed elsewhere: every node in it that *)
(* is not under a failed initial value has the scope of the block around   *)
(* it, every identifier its definition, every variable its type and its    *)
(* entry (the register_this functions of ast-node-*.cpp).                  *)
THEOREM RegistrationComplete == Spec => []RegisteredComplete
BY SpecIInv, ThenComplete, PTL

(* The printer throws, refuses or follows a pointer that nobody has set    *)
(* only after a register_this that returned false, or at a break outside   *)
(* of if and while (Node::accept, Printer::visit).                         *)
THEOREM VisitEndsWell == Spec => []AcceptsWhatRegistered
<1>1. IInv => AcceptsWhatRegistered
  BY DEF IInv
<1> QED
  BY <1>1, SpecIInv, PTL

(* Whatever the walk has defined an identifier to be is its lexical        *)
(* definition: in the innermost scope around it that declares the name     *)
(* before it, a function being the last of its name                        *)
(* (Scope::get_definition, CompUnit::prepend).                             *)
THEOREM LexicalScoping == Spec => []Lexical
<1>1. IInv => Lexical
  BY DEF IInv
<1> QED
  BY <1>1, SpecIInv, PTL
=============================================================================
