----------------------------- MODULE ExprCheck -----------------------------
(***************************************************************************)
(* ExprChecker, the visitor that calculates constant expressions over a    *)
(* registered tree, and AstIndexer, which finds the element of an          *)
(* initializer list that an index of a constant array means.               *)
(*                                                                         *)
(* The checker changes nothing in the tree; what it answers is a function  *)
(* of the expression: a value, "no" when it is not constant, "thrown", or  *)
(* "wild" when it follows a pointer that is null or was never set, indexes *)
(* past the dimensions or divides by a step of zero.  A value is a         *)
(* fraction with its class; integers are unbounded here.  A float whose    *)
(* denominator is zero is infinite, or no number.                          *)
(***************************************************************************)
EXTENDS Ast

IntVal(v) == [is |-> "IntValue", num |-> v, den |-> 1]
FloatVal(n, d) == [is |-> "FloatValue", num |-> n, den |-> d]
Answer(what) == [is |-> what, num |-> 0, den |-> 1]
No == Answer("no")
Wild == Answer("wild")
Thrown == Answer("thrown")

IsValue(v) == v.is \in {"IntValue", "FloatValue"}
IsInt(v) == v.is = "IntValue"
True(v) == v.num # 0 \/ v.den = 0

(* Integer division of C, towards zero. *)
Abs(v) == IF v < 0 THEN -v ELSE v
Quotient(l, r) == (IF (l < 0) = (r < 0) THEN 1 ELSE -1) * (Abs(l) \div Abs(r))

Negated(v) == [v EXCEPT !.num = -@]
Not(v) == IntVal(IF True(v) THEN 0 ELSE 1)

(* Two integers give an integer, anything else a float. *)
Result(l, r, num, den) == IF IsInt(l) /\ IsInt(r) THEN IntVal(num) ELSE FloatVal(num, den)
calc_add(l, r) == Result(l, r, l.num * r.den + r.num * l.den, l.den * r.den)
calc_sub(l, r) == Result(l, r, l.num * r.den - r.num * l.den, l.den * r.den)
calc_mul(l, r) == Result(l, r, l.num * r.num, l.den * r.den)
calc_div(l, r) ==
  IF ~(IsInt(l) /\ IsInt(r)) THEN FloatVal(l.num * r.den, l.den * r.num)
  ELSE IF r.num = 0 THEN No ELSE IntVal(Quotient(l.num, r.num))
calc_mod(l, r) ==
  IF IsInt(l) /\ IsInt(r) /\ r.num # 0
  THEN IntVal(l.num - r.num * Quotient(l.num, r.num)) ELSE No
calc_and(l, r) == IntVal(IF True(l) /\ True(r) THEN 1 ELSE 0)
calc_or(l, r) == IntVal(IF True(l) \/ True(r) THEN 1 ELSE 0)

Unary(op, v) ==
  CASE op = "+" -> v [] op = "-" -> Negated(v) [] op = "!" -> Not(v)
(* Comparisons are not calculated. *)
Binary(op, l, r) ==
  CASE op = "+" -> calc_add(l, r) [] op = "-" -> calc_sub(l, r)
    [] op = "*" -> calc_mul(l, r) [] op = "/" -> calc_div(l, r)
    [] op = "%" -> calc_mod(l, r) [] op = "&&" -> calc_and(l, r)
    [] op = "||" -> calc_or(l, r) [] OTHER -> No
-----------------------------------------------------------------------------
(***************************************************************************)
(* AstIndexer.  The indices and dimensions are sequences of numbers; depth *)
(* is that of a list in the initializer.  What is found is an element, Nil *)
(* for the zero after the end of a list, or an answer.                     *)
(***************************************************************************)
(* Mutant: a dimension counts in its own step. *)
step_listOwn(dims, depth) ==
  FoldLeft(LAMBDA x, y : x * y, 1, SubSeq(dims, depth + 1, Len(dims)))

step_list(dims, depth) ==
  FoldLeft(LAMBDA x, y : x * y, 1, SubSeq(dims, depth + 2, Len(dims)))
max_step(dims, index) ==
  FoldLeft(LAMBDA x, y : x + y, 0,
           [i \in DOMAIN index |-> index[i] * step_list(dims, i - 1)])

do_calculate(init_list, dims, index) ==
  LET goal == max_step(dims, index)
      from[list \in Nodes, i \in Nat, cur_step \in Nat, depth \in Nat] ==
        IF depth >= Len(dims) THEN [found |-> Nil, answer |-> Wild]
        ELSE IF i > Len(Kids(list)) THEN [found |-> Nil, answer |-> IntVal(0)]
        ELSE
        LET kid == Kids(list)[i]
            step == step_list(dims, depth)
        IN  IF ~Is(kid, "InitList")
            THEN IF cur_step = goal THEN [found |-> kid, answer |-> IntVal(0)]
                 ELSE from[list, i + 1, cur_step + 1, depth]
            ELSE IF step = 0 THEN [found |-> Nil, answer |-> Wild]
            ELSE IF cur_step % step # 0 THEN [found |-> Nil, answer |-> Thrown]
            ELSE IF cur_step + step < goal THEN from[list, i + 1, cur_step + step, depth]
            ELSE from[kid, 1, cur_step, depth + 1]
  IN  from[init_list, 1, 0, 0]
-----------------------------------------------------------------------------
(***************************************************************************)
(* visit, for every class of expression.  Without a scope a call, list or  *)
(* index refuses and the others throw, before they are visited.            *)
(***************************************************************************)
sizes(d) == IF array_info(d) = Nil THEN << >> ELSE Kids(array_info(d))

visit_unary(n, value) == IF IsValue(value) THEN Unary(src[n].value, value) ELSE value
visit_binary(n, lhs, rhs) ==
  IF ~IsValue(lhs) THEN lhs ELSE IF ~IsValue(rhs) THEN rhs ELSE Binary(src[n].value, lhs, rhs)

(* The first dimension or index that is not an integer decides. *)
FirstNotInt(values) ==
  IF \A i \in DOMAIN values : IsInt(values[i]) THEN IntVal(0)
  ELSE LET v == values[Min({i \in DOMAIN values : ~IsInt(values[i])})]
       IN  IF IsValue(v) THEN No ELSE v

calculate ==
  LET of[n \in Nodes] ==
        LET kids == Kids(n)
            d == node[n].definition
            unscoped == node[n].scope = Nil
            all(ks) == [i \in DOMAIN ks |-> of[ks[i]]]
            nums(ks) == [i \in DOMAIN ks |-> of[ks[i]].num]
            visit_identifier ==
              CASE d = Unset \/ (Is(d, "Constant") /\ init_expr(d) = Nil) -> Wild
                [] d # Unset /\ ~Is(d, "Constant") -> No
                [] OTHER -> of[init_expr(d)]
            visit_index ==
              LET a == node[kids[1]].definition
                  element == do_calculate(init_expr(a), nums(sizes(a)), nums(Tail(kids)))
              IN  CASE a = Unset -> Wild
                    [] a # Unset /\ (~Is(a, "Constant") \/ Len(sizes(a)) # Len(Tail(kids))) -> No
                    [] OTHER ->
                         IF sizes(a) = << >> THEN No
                         ELSE IF init_expr(a) = Nil THEN IntVal(0)
                         ELSE IF ~IsInt(FirstNotInt(all(sizes(a) \o Tail(kids))))
                         THEN FirstNotInt(all(sizes(a) \o Tail(kids)))
                         ELSE IF ~Is(init_expr(a), "InitList") THEN Wild
                         ELSE IF element.found = Nil THEN element.answer ELSE of[element.found]
        IN  CASE Is(n, "IntValue")   -> IntVal(src[n].value)
              [] Is(n, "FloatValue") -> FloatVal(src[n].value, 1)
              [] Is(n, "UnaryExpr")  -> IF unscoped THEN Thrown ELSE visit_unary(n, of[kids[1]])
              [] Is(n, "BinaryExpr") -> IF unscoped THEN Thrown
                                        ELSE visit_binary(n, of[kids[1]], of[kids[2]])
              [] Is(n, "Identifier") -> IF unscoped THEN Thrown ELSE visit_identifier
              [] Is(n, "IndexExpr")  -> IF unscoped THEN No ELSE visit_index
              [] OTHER -> No
  IN  of
-----------------------------------------------------------------------------
(***************************************************************************)
(* What an expression is worth when the program runs: a variable,          *)
(* parameter, element of one or call is worth any e, and the element of a  *)
(* constant array is the one that C's rule for nested lists puts there: a  *)
(* list in a list fills the next part of as many places as its depth says. *)
(* With miss, every indexed element is zero instead.                       *)
(***************************************************************************)
RowMajor(dims, index) ==
  FoldLeft(LAMBDA x, i : x * dims[i] + index[i], 0, [i \in DOMAIN index |-> i])
Element(init_list, dims, goal) ==
  LET size(k, depth) ==
        IF Is(k, "InitList") THEN FoldLeft(LAMBDA x, y : x * y, 1, SubSeq(dims, depth + 2, Len(dims)))
        ELSE 1
      at[list \in Nodes, base \in Nat, depth \in Nat] ==
        LET kids == Kids(list)
            place(i) == base + FoldLeft(LAMBDA x, k : x + size(k, depth), 0, SubSeq(kids, 1, i - 1))
        IN  UNION {IF Is(kids[i], "InitList") THEN at[kids[i], place(i), depth + 1] ELSE {kids[i]} :
                   i \in {i \in DOMAIN kids : place(i) <= goal /\ goal < place(i) + size(kids[i], depth)}}
  IN  at[init_list, 0, 0]

Worth(e, miss) ==
  LET of[n \in Nodes] ==
        LET kids == Kids(n)
            Known(d) == d # Unset /\ Is(d, "Constant") /\ init_expr(d) # Nil
            nums(ks) == [i \in DOMAIN ks |-> of[ks[i]].num]
            d == node[IF Is(n, "IndexExpr") THEN kids[1] ELSE n].definition
            found == Element(init_expr(d), nums(sizes(d)), RowMajor(nums(sizes(d)), nums(Tail(kids))))
        IN  CASE Is(n, "IntValue")   -> IntVal(src[n].value)
              [] Is(n, "FloatValue") -> FloatVal(src[n].value, 1)
              [] Is(n, "UnaryExpr")  -> Unary(src[n].value, of[kids[1]])
              [] Is(n, "BinaryExpr") -> Binary(src[n].value, of[kids[1]], of[kids[2]])
              [] Is(n, "Identifier") -> IF Known(d) THEN of[init_expr(d)] ELSE IntVal(e)
              [] Is(n, "IndexExpr")  ->
                   IF miss THEN IntVal(0)
                   ELSE IF ~Known(d) THEN IntVal(e)
                   ELSE IF found = {} THEN IntVal(0) ELSE of[CHOOSE k \in found : TRUE]
              [] OTHER -> IntVal(e)
  IN  of

Folds(e, misses) ==
  LET folded == calculate IN
  \A n \in Nodes : IsValue(folded[n]) =>
    \E miss \in misses : folded[n] = Worth(e, miss)[n]

(***************************************************************************)
(* What the checker calculates is what the program would calculate,        *)
(* whatever the variables hold: it never takes an element for another, and *)
(* never calls constant what depends on a variable or a call.  Indexed     *)
(* elements may be taken for zero: those of parameters and those at the    *)
(* start of a nested list are.                                             *)
(***************************************************************************)
Folded == phase \in Ended => \A e \in {0, 5} : Folds(e, BOOLEAN)

(* expr-checker.cpp says that where a variable or a call occurs the answer *)
(* is false.                                                               *)
FoldsConstantsOnly == phase \in Ended => \A e \in {0, 5} : Folds(e, {FALSE})
=============================================================================
