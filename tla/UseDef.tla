------------------------------- MODULE UseDef -------------------------------
(***************************************************************************)
(* The use-def relation of MYGL-IR (irbase-use-def) as the instruction     *)
(* classes keep it.                                                        *)
(*                                                                         *)
(* An instruction owns one Use per operand, in list_as_user; the value an  *)
(* operand refers to keeps the uses registered on it in list_as_usee.  The *)
(* operand is a field of the instruction class: a Use reaches it through a *)
(* pair of closures, and every class writes its own setter, which has to   *)
(* move the registration and to check the type of the new value.           *)
(*                                                                         *)
(* Calls names the calls, or circumstances of calls, after which the code  *)
(* leaves a registration behind or loses one; with Calls = {} the clients  *)
(* make every other call.                                                  *)
(***************************************************************************)
EXTENDS Integers, Sequences

CONSTANTS
  Leaves,      \* constants, global variables, functions, arguments
  LeafType,    \* their types
  Insts,       \* instructions
  Kinds,       \* the classes an instruction is constructed of
  Null,
  Calls        \* see above

Values == Leaves \cup Insts
Slots  == 1 .. 3                  \* position of a Use in list_as_user
Uses   == Insts \X Slots          \* the Use objects

(* Types: the only pointer and array types are those of int, and arrays    *)
(* have two elements.                                                      *)
Types == {"int", "bool", "float", "ptr", "arr", "fun", "void"}
IsNumber(t) == t \in {"int", "bool", "float"}
Integer     == {"int", "bool"}
Bits        == [bool |-> 1, int |-> 32, float |-> 32, ptr |-> 64, arr |-> 64,
                fun |-> 0, void |-> 0]

(* How a setter treats the old registration.  "check": the new value is    *)
(* checked before anything changes, and refused by an exception.  "answer":*)
(* refused by returning false.  "late": the old use is removed first.      *)
Checked(r)  == [demand |-> r, order |-> "check"]
Answered(r) == [demand |-> r, order |-> "answer"]
Late(r)     == [demand |-> r, order |-> "late"]
Other(r, o) == [demand |-> r, order |-> o]

(* The operands of each class, in the order of list_as_user.  "fixed" is a *)
(* type the instance remembers since its construction.                     *)
StoreUses      == <<Checked("int"), Checked("ptr")>>           \* source, target
SelectUses     == <<Checked("fixed"), Checked("fixed"), Checked("bool")>> \* if_false, if_true, condition
BinaryUses     == <<Checked("fixed"), Checked("fixed")>>       \* lhs, rhs
ShiftUses      == <<Checked("fixed"), Checked("integer")>>
CompareUses    == <<Checked("fixed"), Checked("fixed")>>       \* lhs, rhs
LoadUses       == <<Checked("ptr")>>                           \* operand
UnaryOpUses    == <<Answered("fixed")>>                        \* operand
CastUses(r)    == <<Answered(r)>>                              \* operand
AllocaUses     == << >>
GetElemPtrUses == <<Late("ptr"), Checked("integer")>>          \* collection, index
ExtractUses    == <<Late("arr"), Late("integer")>>             \* array, index
InsertUses     == <<Late("arr"), Late("int"), Late("integer")>> \* array, element, index
CallUses       == <<Other("fun", "callee"), Other("fixed", "argument")>> \* callee, argument
ReturnUses     == <<Other("fixed", "result")>>                 \* result
BranchUses     == <<Other("any", "condition")>>                \* condition
SwitchUses     == <<Checked("bool")>>                          \* condition
PhiUses        == <<Other("fixed", "incoming"), Other("fixed", "incoming")>> \* one for each incoming block

Layout ==
  [Store |-> StoreUses, Select |-> SelectUses, Binary |-> BinaryUses, Shift |-> ShiftUses,
   Compare |-> CompareUses, Load |-> LoadUses, UnaryOp |-> UnaryOpUses, Alloca |-> AllocaUses,
   GetElemPtr |-> GetElemPtrUses, Extract |-> ExtractUses, Insert |-> InsertUses,
   Call |-> CallUses, Return |-> ReturnUses, Branch |-> BranchUses, Switch |-> SwitchUses,
   Phi |-> PhiUses, IToF |-> CastUses("integer"), FToI |-> CastUses("float"),
   ZExt |-> CastUses("narrower"), Trunc |-> CastUses("wider"), BitCast |-> CastUses("same bits")]

Result ==
  [Store |-> "void", Select |-> "fixed", Binary |-> "fixed", Shift |-> "fixed",
   Compare |-> "bool", Load |-> "int", UnaryOp |-> "fixed", Alloca |-> "ptr",
   GetElemPtr |-> "ptr", Extract |-> "int", Insert |-> "arr", Call |-> "int",
   Return |-> "void", Branch |-> "void", Switch |-> "void", Phi |-> "fixed",
   IToF |-> "fixed", FToI |-> "fixed", ZExt |-> "fixed", Trunc |-> "fixed", BitCast |-> "fixed"]

Classes  == DOMAIN Layout

(* The check of a CastSSA goes by its opcode: SEXT and FPEXT stand with    *)
(* ZEXT, FPTRUNC with TRUNC and UTOF with ITOF.                            *)
Casts    == {"IToF", "FToI", "ZExt", "Trunc", "BitCast"}
UnarySSA == {"Load", "UnaryOp"} \cup Casts

ASSUME UseDefAssumption ==
  /\ Null \notin Values /\ Leaves \cap Insts = {}
  /\ LeafType \in [Leaves -> Types]
  /\ Kinds \in [Insts -> SUBSET Classes]

VARIABLES
  life,      \* where an instruction is: "none", "built", "placed" in a block,
             \* "finalized", "released" from its block without that status,
             \* "destroyed"
  class,     \* its class
  fixed,     \* the type it remembers
  operand,   \* the fields the uses refer to
  users      \* Value::_list_as_usee, with multiplicities

vars == <<life, class, fixed, operand, users>>

TypeOK ==
  /\ life \in [Insts -> {"none", "built", "placed", "finalized", "released", "destroyed"}]
  /\ class \in [Insts -> Classes]
  /\ fixed \in [Insts -> Types]
  /\ operand \in [Uses -> Values \cup {Null}]
  /\ users \in [Values -> [Uses -> Nat]]

Init ==
  /\ life = [i \in Insts |-> "none"]
  /\ class \in {c \in [Insts -> Classes] : \A i \in Insts : c[i] \in Kinds[i]}
  /\ fixed = [i \in Insts |-> "void"]
  /\ operand = [u \in Uses |-> Null]
  /\ users = [v \in Values |-> [u \in Uses |-> 0]]

-----------------------------------------------------------------------------
TypeOf(v) == IF v \in Leaves THEN LeafType[v]
             ELSE IF Result[class[v]] = "fixed" THEN fixed[v] ELSE Result[class[v]]

SlotsOf(i) == DOMAIN Layout[class[i]]
Operand(u) == Layout[class[u[1]]][u[2]]

Meets(demand, known, t) ==
  \/ demand = "any"
  \/ demand = "integer" /\ t \in Integer
  \/ demand = "fixed" /\ t = known
  \/ demand = "narrower" /\ {t, known} \subseteq Integer /\ Bits[t] < Bits[known]
  \/ demand = "wider" /\ {t, known} \subseteq Integer /\ Bits[t] > Bits[known]
  \/ demand = "same bits" /\ Bits[t] = Bits[known]
  \/ t = demand

Fits(u, v) == Meets(Operand(u).demand, fixed[u[1]], TypeOf(v))

Editable(i) == life[i] \in {"built", "placed"}
Alive       == Leaves \cup {i \in Insts : Editable(i)}

(* A use is on the list of the value its operand refers to.                *)
Registered(u) == operand[u] # Null /\ users[operand[u]][u] > 0

-----------------------------------------------------------------------------
(* The setters work on the fields and the lists together; an exception     *)
(* stops what is left of a call.                                           *)
Now == [operand |-> operand, users |-> users, thrown |-> FALSE]

Throw(s)        == [s EXCEPT !.thrown = TRUE]
Assign(s, u, v) == [s EXCEPT !.operand[u] = v]

(* removeUseAsUsee takes every copy of the use off the list. *)
Enlist(s, v, u)    == IF v = Null THEN s ELSE [s EXCEPT !.users[v][u] = @ + 1]
Unlist(s, v, u) == IF v = Null THEN s ELSE [s EXCEPT !.users[v][u] = 0]

(* Mutants: the old value keeps the use; the new one does not get it. *)
MoveNoRemove(s, u, v) == Assign(Enlist(s, v, u), u, v)
MoveNoAdd(s, u, v)    == Assign(Unlist(s, s.operand[u], u), u, v)

Move(s, u, v) == Assign(Enlist(Unlist(s, s.operand[u], u), v, u), u, v)

(* The setters return at once when nothing changes: set_rhs of a binary    *)
(* instruction compares with the left operand, setIndex does not compare.  *)
Unchanged(s, u, v) ==
  CASE class[u[1]] \in {"Binary", "Shift"} -> v = s.operand[<<u[1], 1>>]
    [] class[u[1]] = "GetElemPtr" /\ u[2] = 2 -> FALSE
    [] OTHER -> v = s.operand[u]

Set(s, u, v) ==
  LET order == Operand(u).order
      ok    == v = Null \/ Fits(u, v)
      bare  == Unlist(s, s.operand[u], u)
  IN IF Unchanged(s, u, v) \/ (order = "result" /\ fixed[u[1]] = "void") THEN s
     ELSE IF v = Null /\ order \in {"result", "argument"} THEN bare
     ELSE IF v = Null /\ class[u[1]] = "Switch" THEN Throw(s)
     ELSE IF ok \/ order = "callee" THEN IF order = "incoming" THEN Assign(s, u, v)
                                         ELSE Move(s, u, v)
     ELSE IF order = "answer" THEN s
     ELSE IF order \in {"late", "result"} THEN Throw(bare) ELSE Throw(s)

(* The closure a Use holds: the setter of the property, except for the     *)
(* arguments of a call, whose closure registers the use on the old value   *)
(* again, and for a phi and a callee, which ignore a value that does not   *)
(* fit.                                                                    *)
Handle(s, u, v) ==
  CASE Operand(u).order = "argument" ->
         IF v = s.operand[u] THEN s
         ELSE Enlist(Unlist(s, s.operand[u], u), s.operand[u], u)
    [] Operand(u).order = "incoming" -> IF Fits(u, v) THEN Assign(s, u, v) ELSE s
    [] Operand(u).order = "callee" /\ ~Fits(u, v) -> s
    [] OTHER -> Set(s, u, v)

(* Mutant: the closure is trusted to register the use. *)
SwapTrusting(s, u, v) ==
  IF v = s.operand[u] THEN s ELSE Handle(Unlist(s, s.operand[u], u), u, v)

Swap(s, u, v) ==
  IF v = s.operand[u] THEN s
  ELSE LET t == Handle(Unlist(s, s.operand[u], u), u, v)
       IN IF t.thrown \/ t.users[v][u] > 0 THEN t ELSE Enlist(t, v, u)

(* Mutant: the first matching operand only. *)
ReplaceFirst(s, i, p, v) ==
  LET match == {k \in SlotsOf(i) : s.operand[<<i, k>>] = p}
  IN IF match = {} THEN s
     ELSE Swap(s, <<i, CHOOSE k \in match : \A j \in match : k <= j>>, v)

ReplaceOperands(s, i, p, v) ==
  LET Step(t, k) == IF t.thrown \/ k \notin SlotsOf(i) \/ t.operand[<<i, k>>] # p
                    THEN t ELSE Swap(t, <<i, k>>, v)
  IN IF class[i] \notin UnarySSA THEN Step(Step(Step(s, 1), 2), 3)
     ELSE IF s.operand[<<i, 1>>] = p THEN Set(s, <<i, 1>>, v) ELSE s

Become(s) == operand' = s.operand /\ users' = s.users

-----------------------------------------------------------------------------
(* What the clients keep to when a call is not in Calls.                   *)
IsLate(u)  == Operand(u).order \in {"late", "result"}
Frees(u)   == class[u[1]] = "Phi" => (Registered(u) => "phi_edit" \in Calls)
NoNull(u)  == \/ class[u[1]] = "Select" /\ u[2] = 3
              \/ class[u[1]] \in {"UnaryOp", "Phi"} \cup Casts

(* Setting the right operand of a binary instruction to its left operand.  *)
RhsAsLhs(u, v) ==
  class[u[1]] \in {"Binary", "Shift"} /\ u[2] = 2 /\ v = operand[<<u[1], 1>>]

MaySet(u, v) ==
  /\ v = Null => ~NoNull(u)
  /\ Operand(u).order = "callee" => (v # Null => Fits(u, v))  \* takes a Function
  /\ v # operand[u] =>
       /\ RhsAsLhs(u, v) => "rhs_as_lhs" \in Calls
       /\ (v # Null /\ IsLate(u) /\ ~Fits(u, v)) => "refused_late" \in Calls
       /\ (v = Null /\ Operand(u).order \in {"result", "argument"}) => "clear_kept" \in Calls

(* A use is swapped out of a value to a value that fits.                   *)
MaySwap(u, v) ==
  /\ v # Null /\ operand[u] # Null
  /\ v # operand[u] =>
       /\ RhsAsLhs(u, v) => "rhs_as_lhs" \in Calls
       /\ ~Fits(u, v) => "swap_refused" \in Calls
       /\ (Operand(u).order = "result" /\ fixed[u[1]] = "void") => "swap_refused" \in Calls
       /\ Operand(u).order = "argument" => "swap_argument" \in Calls

MayReplaceAll(i, p, v) ==
  /\ p # v
  /\ \A k \in SlotsOf(i) : operand[<<i, k>>] = p => MaySwap(<<i, k>>, v)
  /\ (class[i] \in {"Binary", "Shift"} /\ \A k \in SlotsOf(i) : operand[<<i, k>>] = p)
       => "rhs_as_lhs" \in Calls

-----------------------------------------------------------------------------
(* The factories check types, but not those of a return or a branch, and   *)
(* an insertion is only created with an element of the array's own type.   *)
(* The operands are stored and the Use objects made: no constructor        *)
(* registers a use on a value.                                             *)
Knows(c, t) ==
  CASE c \in {"Binary", "Compare", "UnaryOp"} -> IsNumber(t)
    [] c = "Shift"  -> t \in Integer
    [] c = "Select" -> TRUE
    [] c = "Call"   -> TRUE
    [] c = "Return" -> t \in {"int", "void"}
    [] c = "Phi"    -> t = "int"
    [] c = "IToF"   -> t = "float"
    [] c = "BitCast" -> TRUE
    [] c \in {"FToI", "ZExt", "Trunc"} -> t \in Integer
    [] OTHER        -> t = "void"

(* A cast to another width may be created with an operand of the very type *)
(* it casts to, which its own check refuses ever after.                    *)
CastCreates(c, known, t) ==
  \/ Meets(Layout[c][1].demand, known, t)
  \/ c \in {"ZExt", "Trunc"} /\ t = known

(* Mutant: only the first operand is checked. *)
CreatesFirst(c, k, known, t) == k = 1 => Meets(Layout[c][k].demand, known, t)

Creates(c, k, known, t) ==
  CASE c = "Insert" /\ k = 2 -> t = "arr"
    [] c = "Return" -> TRUE
    [] c \in Casts -> CastCreates(c, known, t)
    [] OTHER -> Meets(Layout[c][k].demand, known, t)

Construct(i) ==
  /\ life[i] = "none"
  /\ \E t \in Types :
       /\ Knows(class[i], t)
       /\ fixed' = [fixed EXCEPT ![i] = t]
       /\ \E f \in [SlotsOf(i) -> (IF class[i] = "Phi" THEN {Null} ELSE Alive)] :
            /\ \A k \in SlotsOf(i) : f[k] # Null => Creates(class[i], k, t, TypeOf(f[k]))
            /\ operand' = [u \in Uses |-> IF u[1] = i /\ u[2] \in SlotsOf(i)
                                          THEN f[u[2]] ELSE operand[u]]
  /\ life' = [life EXCEPT ![i] = "built"]
  /\ UNCHANGED <<class, users>>

(* The block's list takes the instruction, or gives it back (unplugThis).  *)
Place(i) ==
  /\ life[i] = "built"
  /\ life' = [life EXCEPT ![i] = "placed"]
  /\ UNCHANGED <<class, fixed, operand, users>>

Unplug(i) ==
  /\ life[i] = "placed"
  /\ life' = [life EXCEPT ![i] = "built"]
  /\ UNCHANGED <<class, fixed, operand, users>>

(* A setter of the instruction is called. *)
SetOperand(u, v) ==
  /\ Editable(u[1]) /\ u[2] \in SlotsOf(u[1]) /\ v # u[1]
  /\ MaySet(u, v) /\ Frees(u)
  /\ Become(Set(Now, u, v))
  /\ UNCHANGED <<life, class, fixed>>

SwapUseeOut(u, v) ==
  /\ Editable(u[1]) /\ u[2] \in SlotsOf(u[1]) /\ v # u[1]
  /\ MaySwap(u, v)
  /\ Become(Swap(Now, u, v))
  /\ UNCHANGED <<life, class, fixed>>

ReplaceAllUsee(i, p, v) ==
  /\ Editable(i) /\ v # i
  /\ MayReplaceAll(i, p, v)
  /\ Become(ReplaceOperands(Now, i, p, v))
  /\ UNCHANGED <<life, class, fixed>>

(* PhiSSA::remove erases the pair and the use, not the registration.       *)
PhiRemove(u) ==
  /\ Editable(u[1]) /\ class[u[1]] = "Phi" /\ operand[u] # Null
  /\ Frees(u)
  /\ operand' = [operand EXCEPT ![u] = Null]
  /\ UNCHANGED <<life, class, fixed, users>>

(* Mutant: the uses are counted down, whether they are on the list or not. *)
ReleasedByCount(i) ==
  [v \in Values |-> [u \in Uses |->
     IF u[1] = i /\ operand[u] = v THEN users[v][u] - 1 ELSE users[v][u]]]

(* Every use of i is taken off the list of the value it refers to.         *)
Released(i) ==
  [v \in Values |-> [u \in Uses |->
     IF u[1] = i /\ operand[u] = v THEN 0 ELSE users[v][u]]]

Cleared(i) == [u \in Uses |-> IF u[1] = i THEN Null ELSE operand[u]]

RemoveThisIfUnused(i) ==
  /\ life[i] = "placed" /\ \A u \in Uses : users[i][u] = 0
  /\ users' = Released(i)
  /\ life' = [life EXCEPT ![i] = "finalized"]
  /\ UNCHANGED <<class, fixed, operand>>

(* on_parent_finalize.  A cast drops its operand and nothing else; the     *)
(* check of a unary operation does not survive the null it is given.       *)
Finalize(i) ==
  /\ life[i] = "placed"
  /\ class[i] = "UnaryOp" => operand[<<i, 1>>] = Null
  /\ class[i] = "Switch" => operand[<<i, 1>>] # Null
  /\ class[i] \in Casts /\ Registered(<<i, 1>>) => "cast_finalize" \in Calls
  /\ users' = IF class[i] \in Casts THEN users ELSE Released(i)
  /\ operand' = IF class[i] = "Switch" THEN operand ELSE Cleared(i)
  /\ life' = [life EXCEPT ![i] = IF class[i] \in Casts THEN "released" ELSE "finalized"]
  /\ UNCHANGED <<class, fixed>>

(* on_function_finalize: most classes only drop their operands.            *)
Releases(u) ==
  \/ class[u[1]] \in {"Load", "Extract", "Insert", "Switch"}
  \/ class[u[1]] = "Call" /\ u[2] = 1

FinalizeWithFunction(i) ==
  /\ life[i] = "placed"
  /\ class[i] = "UnaryOp" => operand[<<i, 1>>] = Null
  /\ class[i] = "Switch" => operand[<<i, 1>>] # Null
  /\ \A k \in SlotsOf(i) : Registered(<<i, k>>) /\ ~Releases(<<i, k>>)
                             => "function_finalize" \in Calls
  /\ users' = [v \in Values |-> [u \in Uses |->
                 IF class[i] = "Select" /\ v = i THEN 0
                 ELSE IF u[1] = i /\ operand[u] = v /\ Releases(u) THEN 0
                 ELSE users[v][u]]]
  /\ operand' = IF class[i] = "Switch" THEN operand ELSE Cleared(i)
  /\ life' = [life EXCEPT ![i] = IF class[i] \in Casts THEN "released" ELSE "finalized"]
  /\ UNCHANGED <<class, fixed>>

(* The last owner lets go: the block and the operands that hold it have.   *)
(* An instruction with users that is not finalized ends the program.  Its  *)
(* uses die with it, wherever they are registered.                         *)
Destroy(i) ==
  /\ life[i] \in {"built", "finalized", "released"}
  /\ \A u \in Uses : operand[u] # i
  /\ life[i] # "finalized" => \A u \in Uses : users[i][u] = 0
  /\ (\E k \in SlotsOf(i) : Registered(<<i, k>>)) => "destroy_registered" \in Calls
  /\ life' = [life EXCEPT ![i] = "destroyed"]
  /\ operand' = Cleared(i)
  /\ users' = [users EXCEPT ![i] = [u \in Uses |-> 0]]
  /\ UNCHANGED <<class, fixed>>

Next ==
  \/ \E i \in Insts : \/ Construct(i) \/ Place(i) \/ Unplug(i)
                      \/ RemoveThisIfUnused(i)
                      \/ Finalize(i) \/ FinalizeWithFunction(i) \/ Destroy(i)
  \/ \E u \in Uses : PhiRemove(u)
  \/ \E u \in Uses, v \in Alive \cup {Null} : SetOperand(u, v)
  \/ \E u \in Uses, v \in Alive : SwapUseeOut(u, v)
  \/ \E i \in Insts, p \in Values, v \in Alive : ReplaceAllUsee(i, p, v)

Spec == Init /\ [][Next]_vars

-----------------------------------------------------------------------------
(* A use on the list of a value belongs to a live instruction whose        *)
(* operand is that value, and is there once: whoever walks list_as_usee    *)
(* meets neither a dead Use nor a user that has gone elsewhere.            *)
RegisteredIsOperand ==
  \A v \in Values, u \in Uses : users[v][u] > 0 =>
    /\ users[v][u] = 1
    /\ operand[u] = v
    /\ life[u[1]] \notin {"none", "destroyed"}

(* A registration follows the operand: while the instruction and its       *)
(* operand live, a use that was on the list of the value is on the list of *)
(* the next one.                                                           *)
RegistrationKept ==
  [][\A u \in Uses :
       Registered(u) /\ Editable(u[1])' /\ operand'[u] \in Alive' => Registered(u)']_vars

(* Wherever swapUseeOut is called, the new value ends up in the operand    *)
(* and the use on its list, and nowhere else.                              *)
SwapSwaps ==
  \A u \in Uses : Editable(u[1]) /\ u[2] \in SlotsOf(u[1]) =>
    \A v \in Alive \ {u[1], operand[u]} : MaySwap(u, v) =>
      LET s == Swap(Now, u, v)
      IN s.operand[u] = v /\ \A w \in Values : s.users[w][u] = IF w = v THEN 1 ELSE 0

(* After replaceAllUsee(p, v) no operand of the instruction is p, and the  *)
(* others are what they were.                                              *)
ReplaceAllReplaces ==
  \A i \in Insts : Editable(i) =>
    \A p \in {operand[<<i, k>>] : k \in SlotsOf(i)} \ {Null}, v \in Alive \ {i} :
      MayReplaceAll(i, p, v) =>
        LET s == ReplaceOperands(Now, i, p, v)
        IN \A k \in SlotsOf(i) :
             s.operand[<<i, k>>] = IF operand[<<i, k>>] = p THEN v ELSE operand[<<i, k>>]

(* However its operands are edited, an instruction keeps operands of the   *)
(* types it was created for.  (Return takes any value at creation, an      *)
(* insertion is created with an array for its element, and a cast between  *)
(* widths may be created between equal ones.)                              *)
OperandTyped ==
  \A u \in Uses :
    life[u[1]] \in {"built", "placed"} /\ u[2] \in SlotsOf(u[1]) /\ operand[u] # Null
      => \/ Fits(u, operand[u])
         \/ class[u[1]] = "Return"
         \/ class[u[1]] = "Insert" /\ u[2] = 2 /\ TypeOf(operand[u]) = "arr"
         \/ class[u[1]] \in {"ZExt", "Trunc"} /\ TypeOf(operand[u]) = fixed[u[1]]

(* removeThisIfUnused "checks whether it is used as an operand" and takes  *)
(* an instruction out of its block only if it is not.                      *)
RemovedOnlyIfUnused ==
  [][\A i \in Insts : RemoveThisIfUnused(i) =>
       \A u \in Uses : operand[u] = i => ~Editable(u[1])]_vars
=============================================================================
