---------------------------- MODULE UseDefProofs ----------------------------
(***************************************************************************)
(* Proofs about UseDef.  Whichever calls the clients make, the operands of *)
(* an instruction keep the types it was created for.  With Calls = {} the  *)
(* uses are registered on their operands and nowhere else, no step loses a *)
(* registration, and swaps and replacements do what they say.              *)
(***************************************************************************)
EXTENDS UseDef, TLAPS

States == [operand : [Uses -> Values \cup {Null}],
           users   : [Values -> [Uses -> Nat]],
           thrown  : BOOLEAN]

Orders == {"check", "answer", "late", "callee", "argument", "result", "condition", "incoming"}

(* The rows of the table: every position is one of Slots, a condition that *)
(* is not checked may be anything, and what the classes with a setter of   *)
(* their own look like.                                                    *)
GoodRow(c, row) ==
  /\ DOMAIN row \subseteq Slots
  /\ c \in UnarySSA => 1 \in DOMAIN row
  /\ \A k \in DOMAIN row :
       /\ row[k].order \in Orders
       /\ row[k].order = "condition" => row[k].demand = "any"
       /\ row[k].order = "incoming" => c = "Phi"
       /\ c \in {"Binary", "Shift"} => k \in {1, 2} /\ row[k].order = "check"
       /\ c = "GetElemPtr" /\ k = 2 => row[k].order = "check"
       /\ c \in UnarySSA => k = 1 /\ row[k].order \in {"check", "answer"}

(* Every row of the table is one. *)
LEMMA LayoutRows ==
  ASSUME NEW c \in Classes
  PROVE  GoodRow(c, Layout[c])
<1>1. c \in {"Store", "Select", "Binary", "Shift", "Compare", "Load", "UnaryOp", "Alloca",
             "GetElemPtr", "Extract", "Insert", "Call", "Return", "Branch", "Switch", "Phi"} \cup Casts
  BY DEF Classes, Layout, Casts
<1>2. CASE c = "Store"
  <2>1. Layout[c] = <<Checked("int"), Checked("ptr")>>
    BY <1>2 DEF Layout, StoreUses
  <2>. QED BY <1>2, <2>1 DEF GoodRow, UnarySSA, Casts, Slots, Orders, Checked, Answered, Late, Other
<1>3. CASE c = "Select"
  <2>1. Layout[c] = <<Checked("fixed"), Checked("fixed"), Checked("bool")>>
    BY <1>3 DEF Layout, SelectUses
  <2>. QED BY <1>3, <2>1 DEF GoodRow, UnarySSA, Casts, Slots, Orders, Checked, Answered, Late, Other
<1>4. CASE c = "Binary"
  <2>1. Layout[c] = <<Checked("fixed"), Checked("fixed")>>
    BY <1>4 DEF Layout, BinaryUses
  <2>. QED BY <1>4, <2>1 DEF GoodRow, UnarySSA, Casts, Slots, Orders, Checked, Answered, Late, Other
<1>5. CASE c = "Shift"
  <2>1. Layout[c] = <<Checked("fixed"), Checked("integer")>>
    BY <1>5 DEF Layout, ShiftUses
  <2>. QED BY <1>5, <2>1 DEF GoodRow, UnarySSA, Casts, Slots, Orders, Checked, Answered, Late, Other
<1>6. CASE c = "Compare"
  <2>1. Layout[c] = <<Checked("fixed"), Checked("fixed")>>
    BY <1>6 DEF Layout, CompareUses
  <2>. QED BY <1>6, <2>1 DEF GoodRow, UnarySSA, Casts, Slots, Orders, Checked, Answered, Late, Other
<1>7. CASE c = "Load"
  <2>1. Layout[c] = <<Checked("ptr")>>
    BY <1>7 DEF Layout, LoadUses
  <2>. QED BY <1>7, <2>1 DEF GoodRow, UnarySSA, Casts, Slots, Orders, Checked, Answered, Late, Other
<1>8. CASE c = "UnaryOp"
  <2>1. Layout[c] = <<Answered("fixed")>>
    BY <1>8 DEF Layout, UnaryOpUses
  <2>. QED BY <1>8, <2>1 DEF GoodRow, UnarySSA, Casts, Slots, Orders, Checked, Answered, Late, Other
<1>9. CASE c \in Casts
  <2>1. Layout["IToF"] = <<Answered("integer")>> /\ Layout["FToI"] = <<Answered("float")>>
    BY DEF Layout, CastUses
  <2>2. Layout["ZExt"] = <<Answered("narrower")>> /\ Layout["Trunc"] = <<Answered("wider")>>
    BY DEF Layout, CastUses
  <2>3. Layout["BitCast"] = <<Answered("same bits")>>
    BY DEF Layout, CastUses
  <2>4. PICK r : Layout[c] = <<Answered(r)>>
    BY <1>9, <2>1, <2>2, <2>3 DEF Casts
  <2>. QED BY <1>9, <2>4 DEF GoodRow, UnarySSA, Casts, Slots, Orders, Checked, Answered, Late, Other
<1>10. CASE c = "GetElemPtr"
  <2>1. Layout[c] = <<Late("ptr"), Checked("integer")>>
    BY <1>10 DEF Layout, GetElemPtrUses
  <2>. QED BY <1>10, <2>1 DEF GoodRow, UnarySSA, Casts, Slots, Orders, Checked, Answered, Late, Other
<1>11. CASE c = "Extract"
  <2>1. Layout[c] = <<Late("arr"), Late("integer")>>
    BY <1>11 DEF Layout, ExtractUses
  <2>. QED BY <1>11, <2>1 DEF GoodRow, UnarySSA, Casts, Slots, Orders, Checked, Answered, Late, Other
<1>12. CASE c = "Insert"
  <2>1. Layout[c] = <<Late("arr"), Late("int"), Late("integer")>>
    BY <1>12 DEF Layout, InsertUses
  <2>. QED BY <1>12, <2>1 DEF GoodRow, UnarySSA, Casts, Slots, Orders, Checked, Answered, Late, Other
<1>13. CASE c = "Call"
  <2>1. Layout[c] = <<Other("fun", "callee"), Other("fixed", "argument")>>
    BY <1>13 DEF Layout, CallUses
  <2>. QED BY <1>13, <2>1 DEF GoodRow, UnarySSA, Casts, Slots, Orders, Checked, Answered, Late, Other
<1>14. CASE c = "Return"
  <2>1. Layout[c] = <<Other("fixed", "result")>>
    BY <1>14 DEF Layout, ReturnUses
  <2>. QED BY <1>14, <2>1 DEF GoodRow, UnarySSA, Casts, Slots, Orders, Checked, Answered, Late, Other
<1>15. CASE c = "Branch"
  <2>1. Layout[c] = <<Other("any", "condition")>>
    BY <1>15 DEF Layout, BranchUses
  <2>. QED BY <1>15, <2>1 DEF GoodRow, UnarySSA, Casts, Slots, Orders, Checked, Answered, Late, Other
<1>16. CASE c = "Switch"
  <2>1. Layout[c] = <<Checked("bool")>>
    BY <1>16 DEF Layout, SwitchUses
  <2>. QED BY <1>16, <2>1 DEF GoodRow, UnarySSA, Casts, Slots, Orders, Checked, Answered, Late, Other
<1>17. CASE c = "Phi"
  <2>1. Layout[c] = <<Other("fixed", "incoming"), Other("fixed", "incoming")>>
    BY <1>17 DEF Layout, PhiUses
  <2>. QED BY <1>17, <2>1 DEF GoodRow, UnarySSA, Casts, Slots, Orders, Checked, Answered, Late, Other
<1>18. CASE c = "Alloca"
  <2>1. Layout[c] = << >>
    BY <1>18 DEF Layout, AllocaUses
  <2>. QED BY <1>18, <2>1 DEF GoodRow, UnarySSA, Casts
<1>. QED BY <1>1, <1>2, <1>3, <1>4, <1>5, <1>6, <1>7, <1>8, <1>9, <1>10, <1>11, <1>12, <1>13, <1>14, <1>15, <1>16, <1>17, <1>18

(* The same of the operand of a use the instruction has. *)
LEMMA OperandCases ==
  ASSUME TypeOK, NEW u \in Uses, u[2] \in SlotsOf(u[1])
  PROVE  /\ Operand(u).order \in Orders
         /\ \A v : Operand(u).order = "condition" => Fits(u, v)
         /\ Operand(u).order = "incoming" => class[u[1]] = "Phi"
         /\ class[u[1]] \in {"Binary", "Shift"} => u[2] \in {1, 2} /\ Operand(u).order = "check"
         /\ class[u[1]] = "GetElemPtr" /\ u[2] = 2 => Operand(u).order = "check"
         /\ class[u[1]] \in UnarySSA => u[2] = 1 /\ Operand(u).order \in {"check", "answer"}
<1>1. u[1] \in Insts /\ class[u[1]] \in Classes
  BY DEF TypeOK, Uses
<1>2. GoodRow(class[u[1]], Layout[class[u[1]]])
  BY <1>1, LayoutRows
<1>. QED BY <1>2 DEF GoodRow, Operand, SlotsOf, Fits, Meets

-----------------------------------------------------------------------------
(* What a call on the fields and lists may do to the fields: put v where   *)
(* it fits, or clear.                                                      *)
Edited(s, t, v) ==
  /\ t \in States
  /\ \A j \in Uses : \/ t.operand[j] = s.operand[j]
                     \/ t.operand[j] = v /\ (v = Null \/ Fits(j, v))

(* The steps a setter is made of: only Assign changes an operand. *)
LEMMA ListSteps ==
  ASSUME NEW s \in States, NEW u \in Uses, NEW v \in Values \cup {Null}
  PROVE  /\ Enlist(s, v, u) \in States /\ Enlist(s, v, u).operand = s.operand
         /\ Unlist(s, v, u) \in States /\ Unlist(s, v, u).operand = s.operand
         /\ Throw(s) \in States /\ Throw(s).operand = s.operand
         /\ Assign(s, u, v) \in States
         /\ Assign(s, u, v).operand = [s.operand EXCEPT ![u] = v]
<1>1. v # Null => Enlist(s, v, u) \in States /\ Enlist(s, v, u).operand = s.operand
  <2>. SUFFICES ASSUME v # Null
                PROVE  Enlist(s, v, u) \in States /\ Enlist(s, v, u).operand = s.operand
    OBVIOUS
  <2>1. s.users \in [Values -> [Uses -> Nat]] /\ v \in Values
    BY DEF States
  <2>2. s.users[v][u] + 1 \in Nat
    BY <2>1
  <2>3. DEFINE l == [s.users EXCEPT ![v][u] = s.users[v][u] + 1]
  <2>4. l \in [Values -> [Uses -> Nat]]
    BY <2>1, <2>2
  <2>5. Enlist(s, v, u) = [s EXCEPT !.users = l]
    BY <2>1 DEF Enlist, States
  <2>. HIDE DEF l
  <2>. QED BY <2>4, <2>5 DEF States
<1>2. v # Null => Unlist(s, v, u) \in States /\ Unlist(s, v, u).operand = s.operand
  BY DEF Unlist, States
<1>3. Throw(s) \in States /\ Throw(s).operand = s.operand
  BY DEF Throw, States
<1>4. Assign(s, u, v) \in States /\ Assign(s, u, v).operand = [s.operand EXCEPT ![u] = v]
  BY DEF Assign, States
<1>. QED BY <1>1, <1>2, <1>3, <1>4 DEF Enlist, Unlist

(* A move changes the operand of its use. *)
LEMMA MoveStep ==
  ASSUME NEW s \in States, NEW u \in Uses, NEW v \in Values \cup {Null}
  PROVE  Move(s, u, v) \in States /\ Move(s, u, v).operand = [s.operand EXCEPT ![u] = v]
<1>1. s.operand[u] \in Values \cup {Null}
  BY DEF States
<1>2. DEFINE r == Unlist(s, s.operand[u], u)
<1>3. r \in States /\ r.operand = s.operand
  BY <1>1, ListSteps
<1>4. DEFINE e == Enlist(r, v, u)
<1>5. e \in States /\ e.operand = s.operand
  <2>. HIDE DEF r
  <2>1. Enlist(r, v, u) \in States /\ Enlist(r, v, u).operand = r.operand
    BY <1>3, ListSteps
  <2>. QED BY <1>3, <2>1
<1>6. Move(s, u, v) = Assign(e, u, v)
  BY DEF Move
<1>. HIDE DEF e
<1>. QED BY <1>5, <1>6, ListSteps

(* A setter puts the new value in its operand, or changes no operand.      *)
LEMMA SetEdits ==
  ASSUME TypeOK, NEW s \in States, NEW u \in Uses, u[2] \in SlotsOf(u[1]),
         NEW v \in Values \cup {Null},
         Operand(u).order = "callee" => v = Null \/ Fits(u, v)
  PROVE  Edited(s, Set(s, u, v), v)
<1>. DEFINE bare == Unlist(s, s.operand[u], u)
<1>1. s.operand[u] \in Values \cup {Null}
  BY DEF States
<1>2. bare \in States /\ bare.operand = s.operand
  BY <1>1, ListSteps
<1>3. Throw(s) \in States /\ Throw(s).operand = s.operand
  BY ListSteps
<1>4. Throw(bare) \in States /\ Throw(bare).operand = s.operand
  <2>. HIDE DEF bare
  <2>. QED BY <1>2, ListSteps DEF Throw, States
<1>5. Move(s, u, v) \in States /\ Move(s, u, v).operand = [s.operand EXCEPT ![u] = v]
  BY MoveStep
<1>6. Assign(s, u, v) \in States /\ Assign(s, u, v).operand = [s.operand EXCEPT ![u] = v]
  BY ListSteps
<1>7. Operand(u).order \in Orders /\ (Operand(u).order = "condition" => Fits(u, v))
  BY OperandCases
<1>8. \/ Set(s, u, v) \in {s, bare, Throw(s), Throw(bare)}
      \/ Set(s, u, v) \in {Move(s, u, v), Assign(s, u, v)} /\ (v = Null \/ Fits(u, v))
  <2>. HIDE DEF Edited, States
  <2>. QED BY <1>7 DEF Set, Orders
<1>9. s.operand \in [Uses -> Values \cup {Null}]
  BY DEF States
<1>. HIDE DEF bare
<1>. QED BY <1>2, <1>3, <1>4, <1>5, <1>6, <1>8, <1>9 DEF Edited

(* The closure of a use edits like a setter. *)
LEMMA HandleEdits ==
  ASSUME TypeOK, NEW s \in States, NEW u \in Uses, u[2] \in SlotsOf(u[1]), NEW v \in Values
  PROVE  Edited(s, Handle(s, u, v), v)
<1>. DEFINE bare == Unlist(s, s.operand[u], u)
            again == Enlist(bare, s.operand[u], u)
<1>1. s.operand[u] \in Values \cup {Null}
  BY DEF States
<1>2. bare \in States /\ bare.operand = s.operand
  BY <1>1, ListSteps
<1>3. again \in States /\ again.operand = s.operand
  <2>. HIDE DEF bare
  <2>1. Enlist(bare, s.operand[u], u) \in States /\ Enlist(bare, s.operand[u], u).operand = bare.operand
    BY <1>1, <1>2, ListSteps
  <2>. QED BY <1>2, <2>1
<1>4. Assign(s, u, v) \in States /\ Assign(s, u, v).operand = [s.operand EXCEPT ![u] = v]
  BY ListSteps
<1>5. (Operand(u).order = "callee" => Fits(u, v)) => Edited(s, Set(s, u, v), v)
  BY SetEdits
<1>6. \/ Handle(s, u, v) \in {s, again}
      \/ Handle(s, u, v) = Assign(s, u, v) /\ Fits(u, v)
      \/ Handle(s, u, v) = Set(s, u, v) /\ (Operand(u).order = "callee" => Fits(u, v))
  BY DEF Handle
<1>7. s.operand \in [Uses -> Values \cup {Null}]
  BY DEF States
<1>. HIDE DEF again
<1>. QED BY <1>3, <1>4, <1>5, <1>6, <1>7 DEF Edited

(* So does a swap, *)
LEMMA SwapEdits ==
  ASSUME TypeOK, NEW s \in States, NEW u \in Uses, u[2] \in SlotsOf(u[1]), NEW v \in Values
  PROVE  Edited(s, Swap(s, u, v), v)
<1>. DEFINE bare == Unlist(s, s.operand[u], u)
            t    == Handle(bare, u, v)
<1>1. s.operand[u] \in Values \cup {Null}
  BY DEF States
<1>2. bare \in States /\ bare.operand = s.operand
  BY <1>1, ListSteps
<1>3. Edited(bare, t, v)
  <2>. HIDE DEF bare
  <2>. QED BY <1>2, HandleEdits
<1>4. Enlist(t, v, u) \in States /\ Enlist(t, v, u).operand = t.operand
  <2>. HIDE DEF t
  <2>. QED BY <1>3, ListSteps DEF Edited
<1>5. Swap(s, u, v) \in {s, t, Enlist(t, v, u)}
  BY DEF Swap
<1>. HIDE DEF t, bare
<1>. QED BY <1>2, <1>3, <1>4, <1>5 DEF Edited

(* and a replacement of any operands. *)
LEMMA ReplaceEdits ==
  ASSUME TypeOK, NEW s \in States, NEW i \in Insts, NEW p, NEW v \in Values
  PROVE  Edited(s, ReplaceOperands(s, i, p, v), v)
<1>. DEFINE Step(t, k) == IF t.thrown \/ k \notin SlotsOf(i) \/ t.operand[<<i, k>>] # p
                          THEN t ELSE Swap(t, <<i, k>>, v)
            a == Step(s, 1)
            b == Step(a, 2)
            c == Step(b, 3)
<1>1. ASSUME NEW t \in States, NEW k \in Slots
      PROVE  Edited(t, Step(t, k), v)
  <2>1. <<i, k>> \in Uses /\ <<i, k>>[1] = i /\ <<i, k>>[2] = k
    BY DEF Uses
  <2>2. k \in SlotsOf(i) => Edited(t, Swap(t, <<i, k>>, v), v)
    BY <2>1, SwapEdits
  <2>. QED BY <2>2 DEF Edited
<1>2. Edited(s, a, v)
  <2>. HIDE DEF Step
  <2>. QED BY <1>1 DEF Slots
<1>3. Edited(a, b, v)
  <2>. HIDE DEF Step, a
  <2>. QED BY <1>1, <1>2 DEF Slots, Edited
<1>4. Edited(b, c, v)
  <2>. HIDE DEF Step, a, b
  <2>. QED BY <1>1, <1>3 DEF Slots, Edited
<1>5. Edited(s, c, v)
  <2>. HIDE DEF a, b, c
  <2>. QED BY <1>2, <1>3, <1>4 DEF Edited
<1>6. CASE class[i] \notin UnarySSA
  BY <1>5, <1>6 DEF ReplaceOperands
<1>7. CASE class[i] \in UnarySSA
  <2>1. <<i, 1>> \in Uses /\ 1 \in SlotsOf(i) /\ Operand(<<i, 1>>).order # "callee"
    <3>1. class[i] \in Classes
      BY DEF TypeOK
    <3>2. GoodRow(class[i], Layout[class[i]])
      BY <3>1, LayoutRows
    <3>. QED BY <1>7, <3>2 DEF GoodRow, Uses, Slots, SlotsOf, Operand
  <2>2. Edited(s, Set(s, <<i, 1>>, v), v)
    BY <2>1, SetEdits
  <2>. QED BY <1>7, <2>2 DEF ReplaceOperands, Edited
<1>. QED BY <1>6, <1>7

-----------------------------------------------------------------------------
(* An operand is never an instruction that is not there.                   *)
OperandsExist ==
  \A u \in Uses : operand[u] \in Insts => life[operand[u]] \notin {"none", "destroyed"}

TypedInv == TypeOK /\ OperandsExist /\ OperandTyped

(* A call that edits v into some operands of editable instructions.        *)
LEMMA EditPreserves ==
  ASSUME TypedInv, NEW s \in States, NEW v \in Alive \cup {Null},
         Edited(Now, s, v), Become(s), UNCHANGED <<life, class, fixed>>
  PROVE  TypedInv'
<1>1. s.operand \in [Uses -> Values \cup {Null}] /\ s.users \in [Values -> [Uses -> Nat]]
  BY DEF States
<1>2. operand' = s.operand /\ users' = s.users
  BY DEF Become
<1>3. TypeOK'
  BY <1>1, <1>2 DEF TypedInv, TypeOK
<1>4. \A u \in Uses : \/ operand'[u] = operand[u]
                      \/ operand'[u] = v /\ (v = Null \/ Fits(u, v))
  BY <1>2 DEF Edited, Now
<1>5. OperandsExist'
  <2>1. v \in Insts => life[v] \notin {"none", "destroyed"}
    BY UseDefAssumption DEF Alive, Editable, Values
  <2>. QED BY <1>4, <2>1 DEF OperandsExist, TypedInv
<1>6. OperandTyped'
  <2>1. \A w : TypeOf(w)' = TypeOf(w)
    BY DEF TypeOf
  <2>2. \A u, w : Fits(u, w)' = Fits(u, w)
    BY <2>1 DEF Fits, Operand
  <2>. QED BY <1>4, <2>1, <2>2 DEF OperandTyped, TypedInv, SlotsOf
<1>. QED BY <1>3, <1>5, <1>6 DEF TypedInv

(* The variables make a state of the fields and lists. *)
LEMMA NowState == TypeOK => Now \in States
  BY DEF TypeOK, States, Now

(* No call changes what instructions know of themselves; what is left is   *)
(* to follow the operands.                                                 *)
LEMMA FieldPreserves ==
  ASSUME TypedInv, NEW i \in Insts,
         UNCHANGED <<class, fixed>>, users' \in [Values -> [Uses -> Nat]],
         \/ operand' = operand
         \/ operand' = [u \in Uses |-> IF u[1] = i THEN Null ELSE operand[u]],
         \E l \in {"built", "placed", "finalized", "released"} : life' = [life EXCEPT ![i] = l],
         life[i] \in {"built", "placed"} \/ ~Editable(i)',
         life[i] \notin {"none", "destroyed"}
  PROVE  TypedInv'
<1>1. life' \in [Insts -> {"none", "built", "placed", "finalized", "released", "destroyed"}]
  BY DEF TypedInv, TypeOK
<1>2. \A u \in Uses : operand'[u] = operand[u] \/ operand'[u] = Null
  BY DEF TypedInv, TypeOK
<1>3. operand' \in [Uses -> Values \cup {Null}]
  BY DEF TypedInv, TypeOK
<1>4. TypeOK'
  BY <1>1, <1>3 DEF TypedInv, TypeOK
<1>5. \A j \in Insts : /\ life'[j] \in {"none", "destroyed"} => life[j] \in {"none", "destroyed"}
                       /\ Editable(j)' => Editable(j)
  BY DEF TypedInv, TypeOK, Editable
<1>6. OperandsExist'
  BY <1>2, <1>5, UseDefAssumption DEF OperandsExist, TypedInv, Values
<1>7. OperandTyped'
  <2>1. \A w : TypeOf(w)' = TypeOf(w)
    BY DEF TypeOf
  <2>2. \A u, w : Fits(u, w)' = Fits(u, w)
    BY <2>1 DEF Fits, Operand
  <2>3. \A u \in Uses : u[1] \in Insts
    BY DEF Uses
  <2>. QED BY <1>2, <1>5, <2>1, <2>2, <2>3 DEF OperandTyped, TypedInv, SlotsOf, Editable
<1>. QED BY <1>4, <1>6, <1>7 DEF TypedInv

(* A new instruction has operands that its factory accepts. *)
LEMMA ConstructPreserves ==
  ASSUME TypedInv, NEW i \in Insts, Construct(i)
  PROVE  TypedInv'
<1>1. life[i] = "none" /\ life' = [life EXCEPT ![i] = "built"] /\ UNCHANGED <<class, users>>
  BY DEF Construct
<1>2. PICK t \in Types :
        /\ fixed' = [fixed EXCEPT ![i] = t]
        /\ \E f \in [SlotsOf(i) -> (IF class[i] = "Phi" THEN {Null} ELSE Alive)] :
             /\ \A k \in SlotsOf(i) : f[k] # Null => Creates(class[i], k, t, TypeOf(f[k]))
             /\ operand' = [u \in Uses |-> IF u[1] = i /\ u[2] \in SlotsOf(i)
                                           THEN f[u[2]] ELSE operand[u]]
  BY DEF Construct
<1>3. PICK f \in [SlotsOf(i) -> Alive \cup {Null}] :
        /\ \A k \in SlotsOf(i) : f[k] # Null => Creates(class[i], k, t, TypeOf(f[k]))
        /\ operand' = [u \in Uses |-> IF u[1] = i /\ u[2] \in SlotsOf(i)
                                      THEN f[u[2]] ELSE operand[u]]
  BY <1>2
<1>4. Alive \subseteq Values /\ i \notin Alive
  BY <1>1, UseDefAssumption DEF Alive, Values, Editable
<1>5. TypeOK'
  <2>1. operand' \in [Uses -> Values \cup {Null}]
    BY <1>3, <1>4 DEF TypedInv, TypeOK
  <2>. QED BY <1>1, <1>2, <2>1 DEF TypedInv, TypeOK
<1>6. \A u \in Uses : operand[u] # i
  BY <1>1 DEF TypedInv, OperandsExist
<1>7. \A u \in Uses : operand'[u] # i
  BY <1>3, <1>4, <1>6, UseDefAssumption DEF Values
<1>8. OperandsExist'
  <2>1. \A w \in Alive : w \in Insts => life[w] \notin {"none", "destroyed"}
    BY UseDefAssumption DEF Alive, Editable
  <2>2. \A u \in Uses : operand'[u] \in Insts => life[operand'[u]] \notin {"none", "destroyed"}
    BY <1>3, <2>1, UseDefAssumption DEF OperandsExist, TypedInv, Values
  <2>. QED BY <1>1, <1>7, <2>2 DEF OperandsExist, TypedInv, TypeOK
<1>9. \A w \in Values : w # i => TypeOf(w)' = TypeOf(w)
  BY <1>1, <1>2 DEF TypeOf, Values, TypedInv, TypeOK
<1>10. OperandTyped'
  <2>1. SUFFICES ASSUME NEW u \in Uses, NEW w \in Values, w = operand'[u],
                        life'[u[1]] \in {"built", "placed"}, u[2] \in SlotsOf(u[1])
                 PROVE  \/ Meets(Operand(u).demand, fixed'[u[1]], TypeOf(w))
                        \/ class[u[1]] = "Return"
                        \/ class[u[1]] = "Insert" /\ u[2] = 2 /\ TypeOf(w) = "arr"
                        \/ class[u[1]] \in {"ZExt", "Trunc"} /\ TypeOf(w) = fixed'[u[1]]
    <3>1. \A u \in Uses : operand'[u] # Null => operand'[u] \in Values \ {i}
      BY <1>5, <1>7 DEF TypeOK
    <3>2. \A u \in Uses, w \in Values \ {i} :
            /\ Fits(u, w)' = Meets(Operand(u).demand, fixed'[u[1]], TypeOf(w))
            /\ TypeOf(w)' = TypeOf(w)
      BY <1>1, <1>9 DEF Fits, Operand
    <3>3. ASSUME NEW u \in Uses, Editable(u[1])', (u[2] \in SlotsOf(u[1]))', operand'[u] # Null
          PROVE  \/ Fits(u, operand[u])'
                 \/ class'[u[1]] = "Return"
                 \/ class'[u[1]] = "Insert" /\ u[2] = 2 /\ TypeOf(operand[u])' = "arr"
                 \/ class'[u[1]] \in {"ZExt", "Trunc"} /\ TypeOf(operand[u])' = fixed'[u[1]]
      <4>1. PICK w \in Values \ {i} : w = operand'[u]
        BY <3>1, <3>3
      <4>2. \/ Meets(Operand(u).demand, fixed'[u[1]], TypeOf(w))
            \/ class[u[1]] = "Return"
            \/ class[u[1]] = "Insert" /\ u[2] = 2 /\ TypeOf(w) = "arr"
            \/ class[u[1]] \in {"ZExt", "Trunc"} /\ TypeOf(w) = fixed'[u[1]]
        BY <1>1, <2>1, <3>3, <4>1 DEF SlotsOf, Editable
      <4>3. Fits(u, operand[u])' = Fits(u, w)' /\ TypeOf(operand[u])' = TypeOf(w)'
        BY <4>1
      <4>. QED BY <1>1, <3>2, <4>1, <4>2, <4>3
    <3>. QED BY <3>3 DEF OperandTyped, Editable
  <2>2. u[1] \in Insts /\ w # i
    BY <1>7, <2>1 DEF Uses
  <2>3. CASE u[1] = i
    <3>1. w = f[u[2]] /\ w # Null
      BY <1>3, <2>1, <2>3, UseDefAssumption
    <3>2. Creates(class[i], u[2], t, TypeOf(w))
      BY <1>3, <2>1, <2>3, <3>1
    <3>3. fixed'[i] = t
      BY <1>2 DEF TypedInv, TypeOK
    <3>4. class[i] \in UnarySSA => u[2] = 1
      BY <2>1, <2>3, OperandCases DEF TypedInv
    <3>. QED BY <2>3, <3>2, <3>3, <3>4 DEF Creates, CastCreates, Operand, UnarySSA, Casts
  <2>4. CASE u[1] # i
    <3>1. operand[u] = w /\ w # Null /\ life[u[1]] = life'[u[1]] /\ fixed'[u[1]] = fixed[u[1]]
      BY <1>1, <1>2, <1>3, <2>1, <2>2, <2>4, UseDefAssumption DEF TypedInv, TypeOK
    <3>. QED BY <2>1, <3>1 DEF TypedInv, OperandTyped, Fits
  <2>. QED BY <2>3, <2>4
<1>. QED BY <1>5, <1>8, <1>10 DEF TypedInv

(* A dead instruction is nobody's operand. *)
LEMMA DestroyPreserves ==
  ASSUME TypedInv, NEW i \in Insts, Destroy(i)
  PROVE  TypedInv'
<1>1. /\ life' = [life EXCEPT ![i] = "destroyed"] /\ UNCHANGED <<class, fixed>>
      /\ operand' = [u \in Uses |-> IF u[1] = i THEN Null ELSE operand[u]]
      /\ users' = [users EXCEPT ![i] = [u \in Uses |-> 0]]
      /\ \A u \in Uses : operand[u] # i
  BY DEF Destroy, Cleared
<1>2. TypeOK'
  BY <1>1 DEF TypedInv, TypeOK, Values
<1>3. \A u \in Uses : operand'[u] = Null \/ (operand'[u] = operand[u] /\ operand[u] # i /\ u[1] # i)
  BY <1>1
<1>4. OperandsExist'
  BY <1>1, <1>3, UseDefAssumption DEF OperandsExist, TypedInv, TypeOK, Values
<1>5. OperandTyped'
  <2>1. \A w : TypeOf(w)' = TypeOf(w)
    BY <1>1 DEF TypeOf
  <2>2. \A u, w : Fits(u, w)' = Fits(u, w)
    BY <1>1, <2>1 DEF Fits, Operand
  <2>3. \A u \in Uses : u[1] # i => life'[u[1]] = life[u[1]]
    BY <1>1 DEF TypedInv, TypeOK, Uses
  <2>. QED BY <1>1, <1>3, <2>1, <2>2, <2>3 DEF OperandTyped, TypedInv, SlotsOf
<1>. QED BY <1>2, <1>4, <1>5 DEF TypedInv

(* Nothing exists at first. *)
LEMMA TypedInit == Init => TypedInv
<1>. SUFFICES ASSUME Init PROVE TypedInv
  OBVIOUS
<1>1. TypeOK
  BY DEF Init, TypeOK, Types
<1>2. OperandsExist
  BY UseDefAssumption DEF Init, OperandsExist, Values
<1>3. OperandTyped
  BY DEF Init, OperandTyped, Uses, Editable
<1>. QED BY <1>1, <1>2, <1>3 DEF TypedInv

(* Every step keeps the invariant. *)
LEMMA TypedNext == TypedInv /\ [Next]_vars => TypedInv'
<1>. SUFFICES ASSUME TypedInv, [Next]_vars
              PROVE  TypedInv'
  OBVIOUS
<1>0. TypeOK /\ Now \in States
  BY NowState DEF TypedInv
<1>1. ASSUME NEW i \in Insts, Construct(i)
      PROVE  TypedInv'
  BY <1>1, ConstructPreserves
<1>2. ASSUME NEW i \in Insts, Place(i) \/ Unplug(i)
      PROVE  TypedInv'
  <2>1. /\ UNCHANGED <<class, fixed, operand, users>>
        /\ life[i] \in {"built", "placed"}
        /\ \E l \in {"built", "placed", "finalized", "released"} : life' = [life EXCEPT ![i] = l]
    BY <1>2 DEF Place, Unplug
  <2>2. users' \in [Values -> [Uses -> Nat]]
    BY <1>0, <2>1 DEF TypeOK
  <2>. QED BY <2>1, <2>2, FieldPreserves
<1>3. ASSUME NEW i \in Insts, RemoveThisIfUnused(i)
      PROVE  TypedInv'
  <2>1. /\ UNCHANGED <<class, fixed, operand>>
        /\ life[i] = "placed" /\ life' = [life EXCEPT ![i] = "finalized"]
        /\ users' = Released(i)
    BY <1>3 DEF RemoveThisIfUnused
  <2>2. users' \in [Values -> [Uses -> Nat]]
    BY <1>0, <2>1 DEF TypeOK, Released
  <2>. QED BY <2>1, <2>2, FieldPreserves
<1>4. ASSUME NEW i \in Insts, Finalize(i) \/ FinalizeWithFunction(i)
      PROVE  TypedInv'
  <2>1. /\ UNCHANGED <<class, fixed>>
        /\ operand' \in {operand, Cleared(i)}
        /\ life[i] = "placed"
        /\ \E l \in {"finalized", "released"} : life' = [life EXCEPT ![i] = l]
    BY <1>4 DEF Finalize, FinalizeWithFunction
  <2>2. users' \in [Values -> [Uses -> Nat]]
    BY <1>0, <1>4 DEF TypeOK, Finalize, FinalizeWithFunction, Released
  <2>. QED BY <2>1, <2>2, FieldPreserves DEF Cleared
<1>5. ASSUME NEW i \in Insts, Destroy(i)
      PROVE  TypedInv'
  BY <1>5, DestroyPreserves
<1>6. ASSUME NEW u \in Uses, PhiRemove(u)
      PROVE  TypedInv'
  <2>. DEFINE s == [Now EXCEPT !.operand[u] = Null]
  <2>1. s \in States /\ s.operand = [operand EXCEPT ![u] = Null] /\ s.users = users
    BY <1>0 DEF States, Now
  <2>2. Become(s) /\ UNCHANGED <<life, class, fixed>>
    BY <1>6, <2>1 DEF PhiRemove, Become
  <2>3. Edited(Now, s, Null)
    BY <1>0, <2>1 DEF Edited, Now, TypeOK
  <2>. HIDE DEF s
  <2>. QED BY <2>1, <2>2, <2>3, EditPreserves
<1>7. ASSUME NEW u \in Uses, NEW v \in Alive \cup {Null}, SetOperand(u, v)
      PROVE  TypedInv'
  <2>. DEFINE s == Set(Now, u, v)
  <2>1. /\ Become(s) /\ UNCHANGED <<life, class, fixed>> /\ u[2] \in SlotsOf(u[1])
        /\ Operand(u).order = "callee" => v = Null \/ Fits(u, v)
    BY <1>7 DEF SetOperand, MaySet
  <2>2. v \in Values \cup {Null}
    BY DEF Alive, Values
  <2>3. Edited(Now, s, v)
    BY <1>0, <2>1, <2>2, SetEdits
  <2>. HIDE DEF s
  <2>. QED BY <2>1, <2>3, EditPreserves DEF Edited
<1>8. ASSUME NEW u \in Uses, NEW v \in Alive, SwapUseeOut(u, v)
      PROVE  TypedInv'
  <2>. DEFINE s == Swap(Now, u, v)
  <2>1. Become(s) /\ UNCHANGED <<life, class, fixed>> /\ u[2] \in SlotsOf(u[1])
    BY <1>8 DEF SwapUseeOut
  <2>2. Edited(Now, s, v)
    BY <1>0, <2>1, SwapEdits DEF Alive, Values
  <2>. HIDE DEF s
  <2>. QED BY <2>1, <2>2, EditPreserves DEF Edited
<1>9. ASSUME NEW i \in Insts, NEW p \in Values, NEW v \in Alive, ReplaceAllUsee(i, p, v)
      PROVE  TypedInv'
  <2>. DEFINE s == ReplaceOperands(Now, i, p, v)
  <2>1. Become(s) /\ UNCHANGED <<life, class, fixed>>
    BY <1>9 DEF ReplaceAllUsee
  <2>2. Edited(Now, s, v)
    BY <1>0, ReplaceEdits DEF Alive, Values
  <2>. HIDE DEF s
  <2>. QED BY <2>1, <2>2, EditPreserves DEF Edited
<1>10. CASE UNCHANGED vars
  BY <1>10 DEF vars, TypedInv, TypeOK, OperandsExist, OperandTyped, Editable, SlotsOf,
               Fits, Operand, TypeOf
<1>. QED BY <1>1, <1>2, <1>3, <1>4, <1>5, <1>6, <1>7, <1>8, <1>9, <1>10 DEF Next

(* The variables keep their types. *)
THEOREM TypeCorrect == Spec => []TypeOK
<1>1. TypedInv => TypeOK
  BY DEF TypedInv
<1>. QED BY <1>1, TypedInit, TypedNext, PTL DEF Spec

(* Through setters, closures, swaps and replacements, accepted or refused, *)
(* and whatever else the clients do, no live instruction of any class ends *)
(* up with an operand of a type it was not created for.                    *)
THEOREM OperandsStayTyped == Spec => []OperandTyped
<1>1. TypedInv => OperandTyped
  BY DEF TypedInv
<1>. QED BY <1>1, TypedInit, TypedNext, PTL DEF Spec
-----------------------------------------------------------------------------
(* The registrations.  A state of the fields and lists is sound when a use *)
(* is at most on the list of its operand, and there once.                  *)
Sound(s) ==
  \A w \in Values, u \in Uses : s.users[w][u] > 0 => s.users[w][u] = 1 /\ s.operand[u] = w

OnList(s, u) == s.operand[u] # Null /\ s.users[s.operand[u]][u] > 0

(* The use is on no list; it is in the operand and on the list of v alone. *)
Off(s, u) ==
  [operand |-> s.operand,
   users   |-> [w \in Values |-> [j \in Uses |-> IF j = u THEN 0 ELSE s.users[w][j]]],
   thrown  |-> s.thrown]

On(s, u, v) ==
  [operand |-> [s.operand EXCEPT ![u] = v],
   users   |-> [w \in Values |-> [j \in Uses |->
                  IF j = u THEN IF w = v THEN 1 ELSE 0 ELSE s.users[w][j]]],
   thrown  |-> s.thrown]

(* What a call for the uses of i may do to the lists.                      *)
Kept(s, t, i) ==
  /\ t \in States /\ Sound(t)
  /\ \A j \in Uses : ~(j[1] = i /\ j[2] \in SlotsOf(i)) =>
       t.operand[j] = s.operand[j] /\ \A w \in Values : t.users[w][j] = s.users[w][j]
  /\ \A j \in Uses : OnList(s, j) /\ t.operand[j] # Null => OnList(t, j)

(* A state is its three parts. *)
LEMMA StateParts ==
  ASSUME NEW s \in States
  PROVE  /\ s.operand \in [Uses -> Values \cup {Null}]
         /\ s.users \in [Values -> [Uses -> Nat]] /\ s.thrown \in BOOLEAN
         /\ s = [operand |-> s.operand, users |-> s.users, thrown |-> s.thrown]
  BY DEF States

(* Taking a use off the list of its operand takes it off every list. *)
LEMMA SoundOff ==
  ASSUME NEW s \in States, Sound(s), NEW u \in Uses
  PROVE  /\ Off(s, u) \in States /\ Sound(Off(s, u))
         /\ Unlist(s, s.operand[u], u) = Off(s, u)
<1>. DEFINE l == [w \in Values |-> [j \in Uses |-> IF j = u THEN 0 ELSE s.users[w][j]]]
<1>1. s.users \in [Values -> [Uses -> Nat]] /\ s.operand \in [Uses -> Values \cup {Null}]
      /\ s = [operand |-> s.operand, users |-> s.users, thrown |-> s.thrown] /\ s.thrown \in BOOLEAN
  BY StateParts
<1>2. l \in [Values -> [Uses -> Nat]]
  BY <1>1
<1>3. \A w \in Values, j \in Uses : l[w][j] = IF j = u THEN 0 ELSE s.users[w][j]
  OBVIOUS
<1>4. \A w \in Values : w # s.operand[u] => s.users[w][u] = 0
  BY <1>1 DEF Sound
<1>5. Off(s, u) = [operand |-> s.operand, users |-> l, thrown |-> s.thrown]
  BY DEF Off
<1>6. CASE s.operand[u] = Null
  <2>1. \A w \in Values : w # Null
    BY UseDefAssumption
  <2>2. \A w \in Values : s.users[w] = l[w]
    <3>1. ASSUME NEW w \in Values PROVE s.users[w] = l[w]
      <4>1. s.users[w] \in [Uses -> Nat] /\ l[w] \in [Uses -> Nat]
        BY <1>1, <1>2
      <4>2. \A j \in Uses : s.users[w][j] = l[w][j]
        BY <1>3, <1>4, <1>6, <2>1
      <4>. HIDE DEF l
      <4>. QED BY <4>1, <4>2
    <3>. QED BY <3>1
  <2>. HIDE DEF l
  <2>3. s.users = l
    BY <2>2, <1>1, <1>2
  <2>. QED BY <1>6, <1>1, <1>2, <1>3, <1>5, <2>3 DEF States, Sound, Unlist
<1>7. CASE s.operand[u] # Null
  <2>1. PICK v \in Values : v = s.operand[u]
    BY <1>1, <1>7
  <2>. DEFINE m == [s.users EXCEPT ![v][u] = 0]
  <2>2. m \in [Values -> [Uses -> Nat]]
    BY <1>1
  <2>3. \A w \in Values, j \in Uses : m[w][j] = l[w][j]
    BY <1>1, <1>4, <2>1
  <2>4. Unlist(s, v, u) = [operand |-> s.operand, users |-> m, thrown |-> s.thrown]
    BY <1>1, <1>7, <2>1 DEF Unlist
  <2>. HIDE DEF l, m
  <2>5. \A w \in Values : m[w] = l[w]
    <3>1. ASSUME NEW w \in Values PROVE m[w] = l[w]
      <4>1. m[w] \in [Uses -> Nat] /\ l[w] \in [Uses -> Nat]
        BY <1>2, <2>2
      <4>. QED BY <4>1, <2>3
    <3>. QED BY <3>1
  <2>6. m = l
    BY <2>5, <1>2, <2>2
  <2>7. Sound(Off(s, u))
    BY <1>3, <1>5 DEF Sound
  <2>8. Off(s, u) \in States
    BY <1>1, <1>2, <1>5 DEF States
  <2>. QED BY <2>1, <2>4, <2>6, <2>7, <2>8, <1>5
<1>. QED BY <1>6, <1>7

(* A move of a sound state leaves the use on one list. *)
LEMMA SoundOn ==
  ASSUME NEW s \in States, Sound(s), NEW u \in Uses, NEW v \in Values \cup {Null}
  PROVE  /\ On(s, u, v) \in States /\ Sound(On(s, u, v))
         /\ v # Null => Enlist(Assign(Off(s, u), u, v), v, u) = On(s, u, v)
         /\ Move(s, u, v) = On(s, u, v)
<1>. DEFINE z == [w \in Values |-> [j \in Uses |-> IF j = u THEN 0 ELSE s.users[w][j]]]
            l == [w \in Values |-> [j \in Uses |->
                    IF j = u THEN IF w = v THEN 1 ELSE 0 ELSE s.users[w][j]]]
            o == [s.operand EXCEPT ![u] = v]
<1>1. s.users \in [Values -> [Uses -> Nat]] /\ s.operand \in [Uses -> Values \cup {Null}]
      /\ s = [operand |-> s.operand, users |-> s.users, thrown |-> s.thrown] /\ s.thrown \in BOOLEAN
  BY StateParts
<1>2. l \in [Values -> [Uses -> Nat]] /\ z \in [Values -> [Uses -> Nat]]
  BY <1>1
<1>3. \A w \in Values, j \in Uses :
        l[w][j] = IF j = u THEN IF w = v THEN 1 ELSE 0 ELSE s.users[w][j]
  OBVIOUS
<1>4. o \in [Uses -> Values \cup {Null}] /\ \A j \in Uses : o[j] = IF j = u THEN v ELSE s.operand[j]
  BY <1>1
<1>5. /\ On(s, u, v) = [operand |-> o, users |-> l, thrown |-> s.thrown]
      /\ Off(s, u) = [operand |-> s.operand, users |-> z, thrown |-> s.thrown]
  BY DEF On, Off
<1>6. \/ [z EXCEPT ![v][u] = z[v][u] + 1] = l /\ v # Null
      \/ z = l /\ v = Null
  <2>1. CASE v = Null
    <3>1. \A w \in Values : w # v
      BY <2>1, UseDefAssumption
    <3>2. \A w \in Values, j \in Uses : z[w][j] = l[w][j]
      BY <3>1
    <3>. HIDE DEF z, l
    <3>3. \A w \in Values : z[w] = l[w]
      <4>1. ASSUME NEW w \in Values PROVE z[w] = l[w]
        <5>1. z[w] \in [Uses -> Nat] /\ l[w] \in [Uses -> Nat]
          BY <1>2
        <5>. QED BY <5>1, <3>2
      <4>. QED BY <4>1
    <3>4. z = l
      BY <3>3, <1>2
    <3>. QED BY <3>4, <2>1
  <2>2. CASE v # Null
    <3>1. v \in Values
      BY <2>2
    <3>. DEFINE m == [z EXCEPT ![v][u] = z[v][u] + 1]
    <3>2. z[v][u] = 0
      BY <3>1
    <3>3. m \in [Values -> [Uses -> Nat]]
      <4>. HIDE DEF z
      <4>. QED BY <1>2, <3>1, <3>2
    <3>4. \A w \in Values, j \in Uses : m[w][j] = l[w][j]
      BY <3>1, <3>2, <1>1
    <3>. HIDE DEF m, l, z
    <3>5. \A w \in Values : m[w] = l[w]
      <4>1. ASSUME NEW w \in Values PROVE m[w] = l[w]
        <5>1. m[w] \in [Uses -> Nat] /\ l[w] \in [Uses -> Nat]
          BY <1>2, <3>3
        <5>. QED BY <5>1, <3>4
      <4>. QED BY <4>1
    <3>6. m = l
      BY <3>5, <3>3, <1>2
    <3>. QED BY <3>6, <2>2 DEF m
  <2>. QED BY <2>1, <2>2
<1>7. Unlist(s, s.operand[u], u) = Off(s, u)
  BY SoundOff
<1>. HIDE DEF z, l, o
<1>8. On(s, u, v) \in States
  BY <1>1, <1>2, <1>4, <1>5 DEF States
<1>9. Sound(On(s, u, v))
  BY <1>3, <1>4, <1>5 DEF Sound
<1>10. Assign(Off(s, u), u, v) = [operand |-> o, users |-> z, thrown |-> s.thrown]
  BY <1>5 DEF Assign, o
<1>11. v = Null => Assign(Off(s, u), u, v) = On(s, u, v)
  BY <1>5, <1>6, <1>10
<1>12. v # Null => Enlist(Assign(Off(s, u), u, v), v, u) = On(s, u, v)
  <2>1. \A c, d : [[operand |-> c, users |-> z, thrown |-> d] EXCEPT !.users[v][u] = z[v][u] + 1]
                   = [operand |-> c, users |-> [z EXCEPT ![v][u] = z[v][u] + 1], thrown |-> d]
    OBVIOUS
  <2>. QED BY <1>5, <1>6, <1>10, <2>1 DEF Enlist
<1>13. v # Null => Assign(Enlist(Off(s, u), v, u), u, v) = On(s, u, v)
  <2>1. v # Null => Enlist(Off(s, u), v, u) = [operand |-> s.operand, users |-> l, thrown |-> s.thrown]
    BY <1>5, <1>6 DEF Enlist
  <2>2. \A x : [[operand |-> s.operand, users |-> x, thrown |-> s.thrown] EXCEPT !.operand[u] = v]
                = [operand |-> o, users |-> x, thrown |-> s.thrown]
    BY DEF o
  <2>. QED BY <1>5, <2>1, <2>2 DEF Assign
<1>14. Move(s, u, v) = On(s, u, v)
  BY <1>7, <1>11, <1>13 DEF Move, Enlist
<1>. QED BY <1>8, <1>9, <1>12, <1>14

(* A call that stops keeps everything, *)
LEMMA KeptSame ==
  ASSUME NEW s \in States, Sound(s), NEW i
  PROVE  Kept(s, s, i) /\ Kept(s, Throw(s), i)
<1>1. /\ Throw(s) \in States /\ Throw(s).operand = s.operand /\ Throw(s).users = s.users
  BY DEF Throw, States
<1>. QED BY <1>1 DEF Kept, Sound, OnList

(* and so does one that moves its use. *)
LEMMA KeptOn ==
  ASSUME NEW s \in States, Sound(s), NEW u \in Uses, u[2] \in SlotsOf(u[1]),
         NEW v \in Values \cup {Null}
  PROVE  Kept(s, On(s, u, v), u[1])
<1>1. On(s, u, v) \in States /\ Sound(On(s, u, v))
  BY SoundOn
<1>2. s.operand \in [Uses -> Values \cup {Null}]
  BY DEF States
<1>3. \A j \in Uses : /\ On(s, u, v).operand[j] = IF j = u THEN v ELSE s.operand[j]
                      /\ \A w \in Values : On(s, u, v).users[w][j] =
                           IF j = u THEN IF w = v THEN 1 ELSE 0 ELSE s.users[w][j]
  BY <1>2 DEF On
<1>4. \A j \in Uses : OnList(s, j) /\ On(s, u, v).operand[j] # Null => OnList(On(s, u, v), j)
  BY <1>2, <1>3 DEF OnList
<1>. QED BY <1>1, <1>3, <1>4 DEF Kept

(* A pair of a phi is rewritten without a look at the lists: harmless as   *)
(* long as its use is on none.                                             *)
LEMMA KeptUnlisted ==
  ASSUME NEW s \in States, Sound(s), NEW u \in Uses, u[2] \in SlotsOf(u[1]), ~OnList(s, u),
         NEW v \in Values \cup {Null}
  PROVE  Kept(s, Assign(s, u, v), u[1]) /\ Kept(s, Off(s, u), u[1])
<1>1. /\ s.users \in [Values -> [Uses -> Nat]] /\ s.operand \in [Uses -> Values \cup {Null}]
      /\ s = [operand |-> s.operand, users |-> s.users, thrown |-> s.thrown]
  BY StateParts
<1>2. \A w \in Values : s.users[w][u] = 0
  BY <1>1, UseDefAssumption DEF Sound, OnList
<1>3. /\ Assign(s, u, v) \in States /\ Assign(s, u, v).operand = [s.operand EXCEPT ![u] = v]
      /\ Assign(s, u, v).users = s.users
  BY ListSteps DEF Assign, States
<1>4. \A j \in Uses : Assign(s, u, v).operand[j] = IF j = u THEN v ELSE s.operand[j]
  BY <1>1, <1>3
<1>5. Kept(s, Assign(s, u, v), u[1])
  BY <1>2, <1>3, <1>4 DEF Kept, Sound, OnList
<1>6. /\ Off(s, u) \in States /\ Sound(Off(s, u)) /\ Off(s, u).operand = s.operand
      /\ \A j \in Uses, w \in Values : Off(s, u).users[w][j] = s.users[w][j]
  BY <1>1, <1>2, SoundOff DEF Off
<1>7. Kept(s, Off(s, u), u[1])
  BY <1>1, <1>6 DEF Kept, OnList
<1>. QED BY <1>5, <1>7

(* Two calls, the first of which clears no operand. *)
LEMMA KeptTwice ==
  ASSUME NEW s, NEW t, NEW r, NEW i, Kept(s, t, i), Kept(t, r, i),
         \A j \in Uses : s.operand[j] # Null => t.operand[j] # Null
  PROVE  Kept(s, r, i)
<1>1. \A j \in Uses : OnList(s, j) /\ r.operand[j] # Null => OnList(r, j)
  <2>1. ASSUME NEW j \in Uses, OnList(s, j), r.operand[j] # Null PROVE OnList(r, j)
    <3>1. OnList(t, j)
      BY <2>1 DEF Kept, OnList
    <3>. QED BY <2>1, <3>1 DEF Kept
  <2>. QED BY <2>1
<1>. QED BY <1>1 DEF Kept

(* A setter returns at once for the value that is there: what that means   *)
(* in the classes that compare with something else, or not at all.         *)
LEMMA UnchangedCases ==
  ASSUME TypeOK, NEW s, NEW u \in Uses, u[2] \in SlotsOf(u[1]), NEW v
  PROVE  /\ Unchanged(s, u, v) =>
              \/ v = s.operand[u]
              \/ class[u[1]] \in {"Binary", "Shift"} /\ u[2] = 2 /\ v = s.operand[<<u[1], 1>>]
         /\ v = s.operand[u] => Unchanged(s, u, v) \/ Operand(u).order = "check"
<1>1. class[u[1]] \in {"Binary", "Shift"} => u[2] \in {1, 2} /\ Operand(u).order = "check"
  BY OperandCases
<1>2. class[u[1]] = "GetElemPtr" /\ u[2] = 2 => Operand(u).order = "check"
  BY OperandCases
<1>3. u = <<u[1], u[2]>>
  BY DEF Uses
<1>. QED BY <1>1, <1>2, <1>3 DEF Unchanged

(* What the callers of a setter keep to.                                   *)
SetAllowed(s, u, v) ==
  /\ Operand(u).order = "callee" => v = Null \/ Fits(u, v)
  /\ Operand(u).order = "incoming" => ~OnList(s, u)
  /\ v # s.operand[u] => /\ v # Null /\ IsLate(u) => Fits(u, v)
                         /\ v = Null => Operand(u).order \notin {"result", "argument"}

(* Then a setter loses no registration and makes no wrong one. *)
LEMMA SetKeeps ==
  ASSUME TypeOK, NEW s \in States, Sound(s), NEW u \in Uses, u[2] \in SlotsOf(u[1]),
         NEW v \in Values \cup {Null}, SetAllowed(s, u, v)
  PROVE  Kept(s, Set(s, u, v), u[1])
<1>. DEFINE bare == Unlist(s, s.operand[u], u)
<1>1. bare = Off(s, u) /\ Move(s, u, v) = On(s, u, v)
  BY SoundOff, SoundOn
<1>2. Kept(s, s, u[1]) /\ Kept(s, Throw(s), u[1]) /\ Kept(s, On(s, u, v), u[1])
  BY KeptSame, KeptOn
<1>3. ~OnList(s, u) => Kept(s, Assign(s, u, v), u[1]) /\ Kept(s, Off(s, u), u[1])
  BY KeptUnlisted
<1>4. v = s.operand[u] => Unchanged(s, u, v) \/ Operand(u).order = "check"
  BY UnchangedCases
<1>5. Operand(u).order \in Orders
  BY OperandCases
<1>6. \/ Set(s, u, v) \in {s, Throw(s), Move(s, u, v)}
      \/ Set(s, u, v) = Assign(s, u, v) /\ Operand(u).order = "incoming"
      \/ Set(s, u, v) = bare /\ v = Null /\ Operand(u).order \in {"result", "argument"}
      \/ /\ Set(s, u, v) = Throw(bare) /\ Operand(u).order \in {"late", "result"}
         /\ v # Null /\ ~Fits(u, v) /\ ~Unchanged(s, u, v)
  <2>. HIDE DEF bare
  <2>. QED BY <1>5 DEF Set, Orders, bare
<1>7. CASE Set(s, u, v) \in {s, Throw(s), Move(s, u, v)}
  BY <1>1, <1>2, <1>7
<1>8. CASE Set(s, u, v) = Assign(s, u, v) /\ Operand(u).order = "incoming"
  BY <1>3, <1>8 DEF SetAllowed
<1>9. CASE Set(s, u, v) = bare /\ v = Null /\ Operand(u).order \in {"result", "argument"}
  BY <1>1, <1>3, <1>9 DEF SetAllowed, OnList
<1>10. CASE /\ Set(s, u, v) = Throw(bare) /\ Operand(u).order \in {"late", "result"}
            /\ v # Null /\ ~Fits(u, v) /\ ~Unchanged(s, u, v)
  BY <1>4, <1>10 DEF SetAllowed, IsLate
<1>. QED BY <1>6, <1>7, <1>8, <1>9, <1>10

(* What the callers of a swap to another value keep to: the value fits,    *)
(* and the setter of the class does not return without a change.           *)
SwapAllowed(s, u, v) ==
  /\ v # s.operand[u] /\ Fits(u, v) /\ ~s.thrown
  /\ Operand(u).order # "argument"
  /\ ~(Operand(u).order = "result" /\ fixed[u[1]] = "void")
  /\ ~(class[u[1]] \in {"Binary", "Shift"} /\ u[2] = 2 /\ v = s.operand[<<u[1], 1>>])

(* A setter that is given a value that fits moves the registration.        *)
LEMMA SetMoves ==
  ASSUME TypeOK, NEW s \in States, Sound(s), NEW u \in Uses, u[2] \in SlotsOf(u[1]),
         NEW v \in Values, SwapAllowed(s, u, v)
  PROVE  \/ Set(s, u, v) = On(s, u, v)
         \/ Set(s, u, v) = Assign(s, u, v) /\ Operand(u).order = "incoming"
<1>1. Move(s, u, v) = On(s, u, v)
  BY SoundOn
<1>2. ~Unchanged(s, u, v)
  BY UnchangedCases DEF SwapAllowed
<1>3. v # Null
  BY UseDefAssumption
<1>4. \/ Set(s, u, v) = Move(s, u, v)
      \/ Set(s, u, v) = Assign(s, u, v) /\ Operand(u).order = "incoming"
  BY <1>2, <1>3 DEF Set, SwapAllowed
<1>. QED BY <1>1, <1>4

(* Then a swap moves the use, whatever the closure of the class does. *)
LEMMA SwapIs ==
  ASSUME TypeOK, NEW s \in States, Sound(s), NEW u \in Uses, u[2] \in SlotsOf(u[1]),
         NEW v \in Values, SwapAllowed(s, u, v)
  PROVE  Swap(s, u, v) = On(s, u, v)
<1>. DEFINE b == Off(s, u)
<1>1. /\ b \in States /\ Sound(b) /\ Unlist(s, s.operand[u], u) = b
      /\ b.operand = s.operand /\ b.thrown = s.thrown /\ \A w \in Values : b.users[w][u] = 0
  BY SoundOff DEF Off
<1>2. v # Null
  BY UseDefAssumption
<1>3. Off(b, u) = b /\ On(b, u, v) = On(s, u, v)
  <2>1. \A w \in Values, j \in Uses : b.users[w][j] = IF j = u THEN 0 ELSE s.users[w][j]
    BY DEF Off
  <2>2. Off(b, u).users = b.users
    BY <2>1 DEF Off
  <2>3. Off(b, u) = b
    BY <2>2 DEF Off
  <2>4. On(b, u, v).users = On(s, u, v).users
    BY <2>1 DEF On
  <2>5. On(b, u, v) = On(s, u, v)
    BY <1>1, <2>4 DEF On
  <2>. QED BY <2>3, <2>5
<1>4. Enlist(Assign(b, u, v), v, u) = On(s, u, v)
  BY <1>2, SoundOn
<1>5. SwapAllowed(b, u, v)
  BY <1>1 DEF SwapAllowed
<1>. HIDE DEF b
<1>6. Assign(b, u, v).thrown = FALSE /\ Assign(b, u, v).users[v][u] = 0
  BY <1>1 DEF Assign, SwapAllowed, States
<1>7. On(s, u, v).users[v][u] = 1
  BY DEF On
<1>8. Set(b, u, v) = On(s, u, v) \/ (Set(b, u, v) = Assign(b, u, v) /\ Operand(u).order = "incoming")
  BY <1>1, <1>3, <1>5, SetMoves
<1>9. Handle(b, u, v) \in {On(s, u, v), Assign(b, u, v)}
  BY <1>5, <1>8 DEF Handle, SwapAllowed
<1>10. CASE Handle(b, u, v) = On(s, u, v)
  BY <1>1, <1>2, <1>7, <1>10 DEF Swap, SwapAllowed
<1>11. CASE Handle(b, u, v) = Assign(b, u, v)
  BY <1>1, <1>2, <1>4, <1>6, <1>11 DEF Swap, SwapAllowed
<1>. QED BY <1>9, <1>10, <1>11

(* The clients' conditions are those. *)
LEMMA MaySwapAllowed ==
  ASSUME Calls = {}, NEW u \in Uses, NEW v \in Values, MaySwap(u, v), v # operand[u]
  PROVE  SwapAllowed(Now, u, v)
  BY DEF MaySwap, SwapAllowed, RhsAsLhs, Now

-----------------------------------------------------------------------------
(* A replacement swaps the operands one after the other, and by then the   *)
(* earlier ones are no longer what they were when the call was allowed.    *)
Replaced(t, i, p, v, k) ==
  /\ Kept(Now, t, i) /\ ~t.thrown
  /\ \A j \in Uses : t.operand[j] =
       IF j[1] = i /\ j[2] < k /\ j[2] \in SlotsOf(i) /\ operand[j] = p THEN v ELSE operand[j]

(* One operand more: by Slots, at most three. *)
LEMMA ReplaceStep ==
  ASSUME Calls = {}, TypeOK, Sound(Now), NEW i \in Insts, NEW p \in Values, NEW v \in Values,
         MayReplaceAll(i, p, v), NEW k \in Slots, NEW t, Replaced(t, i, p, v, k)
  PROVE  Replaced(IF t.thrown \/ k \notin SlotsOf(i) \/ t.operand[<<i, k>>] # p
                  THEN t ELSE Swap(t, <<i, k>>, v), i, p, v, k + 1)
<1>1. <<i, k>> \in Uses /\ <<i, k>>[1] = i /\ <<i, k>>[2] = k /\ k \in 1 .. 3
  BY DEF Uses, Slots
<1>2. \A j \in Uses : j = <<j[1], j[2]>> /\ j[2] \in 1 .. 3 /\ (j[2] < k + 1 <=> j[2] < k \/ j[2] = k)
  BY <1>1 DEF Uses, Slots
<1>3. t \in States /\ Sound(t) /\ ~t.thrown /\ t.operand[<<i, k>>] = operand[<<i, k>>]
  BY <1>1 DEF Replaced, Kept
<1>4. CASE k \notin SlotsOf(i) \/ t.operand[<<i, k>>] # p
  <2>1. \A j \in Uses : j[1] = i /\ j[2] = k => j = <<i, k>>
    BY <1>2
  <2>2. \A j \in Uses : t.operand[j] =
          IF j[1] = i /\ j[2] < k + 1 /\ j[2] \in SlotsOf(i) /\ operand[j] = p THEN v ELSE operand[j]
    <3>1. ASSUME NEW j \in Uses
          PROVE  t.operand[j] = IF j[1] = i /\ j[2] < k + 1 /\ j[2] \in SlotsOf(i) /\ operand[j] = p
                                THEN v ELSE operand[j]
      <4>1. CASE j[1] = i /\ j[2] = k
        <5>1. j = <<i, k>>
          BY <4>1, <2>1
        <5>2. j[2] \notin SlotsOf(i) \/ operand[j] # p
          BY <1>1, <1>3, <1>4, <5>1
        <5>. QED BY <1>3, <5>1, <5>2
      <4>2. CASE ~(j[1] = i /\ j[2] = k)
        BY <1>2, <4>2 DEF Replaced
      <4>. QED BY <4>1, <4>2
    <3>. QED BY <3>1
  <2>. QED BY <1>3, <1>4, <2>2 DEF Replaced
<1>5. CASE k \in SlotsOf(i) /\ t.operand[<<i, k>>] = p
  <2>1. MaySwap(<<i, k>>, v) /\ v # p /\ operand[<<i, k>>] = p
    BY <1>3, <1>5 DEF MayReplaceAll
  <2>2. SwapAllowed(Now, <<i, k>>, v)
    BY <1>1, <2>1, MaySwapAllowed
  <2>3. ASSUME class[i] \in {"Binary", "Shift"}, k = 2, v = t.operand[<<i, 1>>] PROVE FALSE
    <3>1. <<i, 1>> \in Uses /\ <<i, 1>>[1] = i /\ <<i, 1>>[2] = 1
      BY DEF Uses, Slots
    <3>2. v # operand[<<i, 1>>]
      BY <1>1, <2>2, <2>3 DEF SwapAllowed, Now
    <3>3. operand[<<i, 1>>] = p
      BY <2>3, <3>1, <3>2 DEF Replaced
    <3>4. ASSUME NEW l \in SlotsOf(i) PROVE l \in {1, 2}
      <4>1. GoodRow(class[i], Layout[class[i]])
        BY LayoutRows DEF TypeOK
      <4>. QED BY <2>3, <3>4, <4>1 DEF GoodRow, SlotsOf
    <3>5. \A l \in SlotsOf(i) : operand[<<i, l>>] = p
      BY <2>1, <2>3, <3>3, <3>4
    <3>. QED BY <2>3, <3>5 DEF MayReplaceAll
  <2>4. SwapAllowed(t, <<i, k>>, v)
    BY <1>1, <1>3, <1>5, <2>1, <2>2, <2>3 DEF SwapAllowed
  <2>5. Swap(t, <<i, k>>, v) = On(t, <<i, k>>, v) /\ Kept(t, On(t, <<i, k>>, v), i)
    <3>. DEFINE u == <<i, k>>
    <3>1. u \in Uses /\ u[1] = i /\ u[2] \in SlotsOf(u[1]) /\ SwapAllowed(t, u, v)
      BY <1>1, <1>5, <2>4
    <3>. HIDE DEF u
    <3>2. Swap(t, u, v) = On(t, u, v)
      BY <1>3, <3>1, SwapIs
    <3>3. Kept(t, On(t, u, v), u[1])
      BY <1>3, <3>1, KeptOn
    <3>4. Swap(t, u, v) = On(t, u, v) /\ Kept(t, On(t, u, v), i)
      BY <3>1, <3>2, <3>3
    <3>. QED BY <3>4 DEF u
  <2>6. \A j \in Uses : On(t, <<i, k>>, v).operand[j] = IF j = <<i, k>> THEN v ELSE t.operand[j]
    BY <1>1, <1>3, StateParts DEF On
  <2>7. Kept(Now, On(t, <<i, k>>, v), i)
    <3>1. \A j \in Uses : Now.operand[j] # Null => t.operand[j] # Null
      BY UseDefAssumption DEF Replaced, Now
    <3>. QED BY <2>5, <3>1, KeptTwice DEF Replaced
  <2>8. ~On(t, <<i, k>>, v).thrown
    BY <1>3 DEF On
  <2>9. ASSUME NEW j \in Uses
        PROVE  On(t, <<i, k>>, v).operand[j] =
                 IF j[1] = i /\ j[2] < k + 1 /\ j[2] \in SlotsOf(i) /\ operand[j] = p
                 THEN v ELSE operand[j]
    <3>1. CASE j = <<i, k>>
      <4>1. j[1] = i /\ j[2] < k + 1 /\ j[2] \in SlotsOf(i) /\ operand[j] = p
        BY <1>1, <1>5, <2>1, <3>1
      <4>. QED BY <2>6, <3>1, <4>1
    <3>2. CASE j # <<i, k>>
      <4>1. ~(j[1] = i /\ j[2] = k)
        BY <1>2, <3>2
      <4>. QED BY <1>2, <2>6, <3>2, <4>1 DEF Replaced
    <3>. QED BY <3>1, <3>2
  <2>. QED BY <1>3, <1>5, <2>5, <2>7, <2>8, <2>9 DEF Replaced
<1>. QED BY <1>4, <1>5

(* The replacement as a whole. *)
LEMMA ReplaceIs ==
  ASSUME Calls = {}, TypeOK, Sound(Now), NEW i \in Insts, NEW p \in Values, NEW v \in Values,
         MayReplaceAll(i, p, v)
  PROVE  Replaced(ReplaceOperands(Now, i, p, v), i, p, v, 4)
<1>. DEFINE Step(t, k) == IF t.thrown \/ k \notin SlotsOf(i) \/ t.operand[<<i, k>>] # p
                          THEN t ELSE Swap(t, <<i, k>>, v)
            a == Step(Now, 1)
            b == Step(a, 2)
            c == Step(b, 3)
<1>1. Now \in States /\ ~Now.thrown /\ Now.operand = operand
  BY NowState DEF Now
<1>2. \A j \in Uses : j[2] \in 1 .. 3 /\ j = <<j[1], j[2]>>
  BY DEF Uses, Slots
<1>3. Replaced(Now, i, p, v, 1)
  <2>1. Kept(Now, Now, i)
    BY <1>1, KeptSame
  <2>. QED BY <1>1, <1>2, <2>1 DEF Replaced
<1>4. \A t : /\ Replaced(t, i, p, v, 1) => Replaced(Step(t, 1), i, p, v, 2)
             /\ Replaced(t, i, p, v, 2) => Replaced(Step(t, 2), i, p, v, 3)
             /\ Replaced(t, i, p, v, 3) => Replaced(Step(t, 3), i, p, v, 4)
  <2>1. 1 \in Slots /\ 2 \in Slots /\ 3 \in Slots /\ 1 + 1 = 2 /\ 2 + 1 = 3 /\ 3 + 1 = 4
    BY DEF Slots
  <2>2. ASSUME NEW t, NEW k \in Slots, Replaced(t, i, p, v, k)
        PROVE  Replaced(Step(t, k), i, p, v, k + 1)
    BY <2>2, ReplaceStep
  <2>. HIDE DEF Step
  <2>. QED BY <2>1, <2>2
<1>5. CASE class[i] \notin UnarySSA
  <2>1. ReplaceOperands(Now, i, p, v) = c
    BY <1>5 DEF ReplaceOperands
  <2>. HIDE DEF Step
  <2>. QED BY <1>3, <1>4, <2>1
<1>6. CASE class[i] \in UnarySSA
  <2>1. <<i, 1>> \in Uses /\ <<i, 1>>[1] = i /\ <<i, 1>>[2] = 1
    BY DEF Uses, Slots
  <2>2. SlotsOf(i) = {1} /\ Operand(<<i, 1>>).order # "incoming"
    <3>1. GoodRow(class[i], Layout[class[i]])
      BY LayoutRows DEF TypeOK
    <3>. QED BY <1>6, <3>1 DEF GoodRow, SlotsOf, Operand
  <2>3. \A j \in Uses : j[1] = i /\ j[2] \in SlotsOf(i) => j = <<i, 1>>
    BY <1>2, <2>2
  <2>4. CASE operand[<<i, 1>>] = p
    <3>. DEFINE u == <<i, 1>>
    <3>1. SwapAllowed(Now, u, v)
      <4>1. MaySwap(u, v) /\ v # operand[u]
        BY <2>2, <2>4 DEF MayReplaceAll
      <4>. QED BY <2>1, <4>1, MaySwapAllowed
    <3>2. u \in Uses /\ u[1] = i /\ u[2] \in SlotsOf(u[1]) /\ Operand(u).order # "incoming"
      BY <2>1, <2>2
    <3>3. ReplaceOperands(Now, i, p, v) = Set(Now, u, v)
      BY <1>1, <1>6, <2>4 DEF ReplaceOperands
    <3>. HIDE DEF u
    <3>4. Set(Now, u, v) = On(Now, u, v) /\ Kept(Now, On(Now, u, v), i)
      BY <1>1, <3>1, <3>2, SetMoves, KeptOn
    <3>5. ~On(Now, u, v).thrown
          /\ \A j \in Uses : On(Now, u, v).operand[j] = IF j = u THEN v ELSE operand[j]
      BY <1>1, <3>2, StateParts DEF On
    <3>6. ASSUME NEW j \in Uses
          PROVE  On(Now, u, v).operand[j] =
                   IF j[1] = i /\ j[2] < 4 /\ j[2] \in SlotsOf(i) /\ operand[j] = p
                   THEN v ELSE operand[j]
      BY <1>2, <2>2, <2>3, <2>4, <3>2, <3>5 DEF u
    <3>. QED BY <3>3, <3>4, <3>5, <3>6 DEF Replaced
  <2>5. CASE operand[<<i, 1>>] # p
    <3>1. ReplaceOperands(Now, i, p, v) = Now
      BY <1>1, <1>6, <2>5 DEF ReplaceOperands
    <3>. QED BY <1>1, <1>3, <2>3, <2>5, <3>1 DEF Replaced
  <2>. QED BY <2>4, <2>5
<1>. QED BY <1>5, <1>6

-----------------------------------------------------------------------------
(* The invariant.  Only positions the class has are ever registered: a     *)
(* dying instruction is asked about no others.                             *)
Listed == \A w \in Values, u \in Uses : users[w][u] > 0 => u[2] \in SlotsOf(u[1])

RegInv == TypedInv /\ RegisteredIsOperand /\ Listed

(* What no step does to a registration. *)
Keeps ==
  \A u \in Uses :
    Registered(u) /\ Editable(u[1])' /\ operand'[u] \in Alive' => Registered(u)'

(* The invariant says that the variables are sound. *)
LEMMA RegSound ==
  ASSUME RegInv
  PROVE  TypeOK /\ Now \in States /\ Sound(Now)
<1>1. TypeOK /\ Now \in States
  BY NowState DEF RegInv, TypedInv
<1>. QED BY <1>1 DEF RegInv, RegisteredIsOperand, Sound, Now

(* An edit of the operands of one instruction. *)
LEMMA EditKeeps ==
  ASSUME RegInv, NEW i \in Insts, Editable(i), NEW t, Kept(Now, t, i), Become(t),
         UNCHANGED <<life, class, fixed>>
  PROVE  RegisteredIsOperand' /\ Listed' /\ Keeps
<1>1. operand' = t.operand /\ users' = t.users /\ Now.operand = operand /\ Now.users = users
  BY DEF Become, Now
<1>2. \A u \in Uses : ~(u[1] = i /\ u[2] \in SlotsOf(i)) =>
        operand'[u] = operand[u] /\ \A w \in Values : users'[w][u] = users[w][u]
  BY <1>1 DEF Kept
<1>3. \A w \in Values, u \in Uses : users'[w][u] > 0 => users'[w][u] = 1 /\ operand'[u] = w
  BY <1>1 DEF Kept, Sound
<1>4. ASSUME NEW w \in Values, NEW u \in Uses, users'[w][u] > 0
      PROVE  u[2] \in SlotsOf(u[1]) /\ life[u[1]] \notin {"none", "destroyed"}
  <2>1. CASE u[1] = i /\ u[2] \in SlotsOf(i)
    BY <2>1 DEF Editable
  <2>2. CASE ~(u[1] = i /\ u[2] \in SlotsOf(i))
    BY <1>2, <1>4, <2>2 DEF RegInv, RegisteredIsOperand, Listed
  <2>. QED BY <2>1, <2>2
<1>5. RegisteredIsOperand'
  BY <1>3, <1>4 DEF RegisteredIsOperand
<1>6. Listed'
  BY <1>4 DEF Listed, SlotsOf
<1>7. Keeps
  <2>1. \A u \in Uses : operand'[u] \in Alive' => operand'[u] # Null
    BY UseDefAssumption DEF Alive, Values
  <2>2. \A u \in Uses : OnList(Now, u) /\ t.operand[u] # Null => OnList(t, u)
    BY DEF Kept
  <2>. QED BY <1>1, <2>1, <2>2 DEF Keeps, Registered, OnList
<1>. QED BY <1>5, <1>6, <1>7

(* A step that takes uses off lists, and leaves the operand of what it     *)
(* leaves on one.                                                          *)
LEMMA DropKeeps ==
  ASSUME RegInv, class' = class,
         \A w \in Values, u \in Uses : users'[w][u] # users[w][u] => users'[w][u] = 0,
         \A w \in Values, u \in Uses : users'[w][u] > 0 =>
            operand'[u] = operand[u] /\ life'[u[1]] \notin {"none", "destroyed"},
         \A w \in Values, u \in Uses :
            users[w][u] > 0 /\ Editable(u[1])' /\ operand'[u] \in Alive' =>
              operand'[u] = w /\ users'[w][u] = users[w][u]
  PROVE  RegisteredIsOperand' /\ Listed' /\ Keeps
<1>1. \A w \in Values, u \in Uses : users'[w][u] > 0 => users'[w][u] = users[w][u]
  OBVIOUS
<1>2. RegisteredIsOperand'
  BY <1>1 DEF RegInv, RegisteredIsOperand
<1>3. Listed'
  BY <1>1 DEF RegInv, Listed, SlotsOf
<1>4. Keeps
  <2>1. SUFFICES ASSUME NEW u \in Uses, Registered(u), Editable(u[1])', operand'[u] \in Alive'
                 PROVE  Registered(u)'
    BY DEF Keeps
  <2>2. PICK w \in Values : w = operand[u] /\ users[w][u] > 0
    BY <2>1 DEF Registered, RegInv, TypedInv, TypeOK
  <2>3. operand'[u] = w /\ users'[w][u] > 0 /\ w # Null
    BY <2>1, <2>2, UseDefAssumption
  <2>. QED BY <2>3 DEF Registered
<1>. QED BY <1>2, <1>3, <1>4

(* Every step keeps the invariant and the registrations. *)
LEMMA RegNext ==
  ASSUME Calls = {}, RegInv, [Next]_vars
  PROVE  RegInv' /\ Keeps
<1>0. /\ TypeOK /\ Now \in States /\ Sound(Now) /\ TypedInv'
      /\ class \in [Insts -> Classes] /\ life \in [Insts -> {"none", "built", "placed", "finalized", "released", "destroyed"}]
      /\ users \in [Values -> [Uses -> Nat]] /\ operand \in [Uses -> Values \cup {Null}]
  BY RegSound, TypedNext DEF RegInv, TypeOK
<1>. SUFFICES RegisteredIsOperand' /\ Listed' /\ Keeps
  BY <1>0 DEF RegInv
<1>a. /\ \A u \in Uses : u[1] \in Insts
      /\ \A w \in Values : w # Null
      /\ \A w \in Values, u \in Uses : users[w][u] > 0 =>
           operand[u] = w /\ life[u[1]] \notin {"none", "destroyed"} /\ u[2] \in SlotsOf(u[1])
  BY UseDefAssumption DEF Uses, RegInv, RegisteredIsOperand, Listed
<1>b. \A w \in Values, u \in Uses : users[w][u] \in Nat
  BY <1>0
<1>1. ASSUME NEW i \in Insts, Construct(i)
      PROVE  RegisteredIsOperand' /\ Listed' /\ Keeps
  <2>1. life[i] = "none" /\ life' = [life EXCEPT ![i] = "built"] /\ UNCHANGED <<class, users>>
    BY <1>1 DEF Construct
  <2>2. \A u \in Uses : u[1] # i => operand'[u] = operand[u] /\ life'[u[1]] = life[u[1]]
    BY <1>0, <1>1, <1>a DEF Construct
  <2>. QED BY <1>a, <2>1, <2>2, DropKeeps
<1>2. ASSUME NEW i \in Insts, Place(i) \/ Unplug(i)
      PROVE  RegisteredIsOperand' /\ Listed' /\ Keeps
  <2>1. /\ UNCHANGED <<class, fixed, operand, users>>
        /\ \E l \in {"built", "placed"} : life' = [life EXCEPT ![i] = l]
    BY <1>2 DEF Place, Unplug
  <2>2. \A j \in Insts : life[j] \notin {"none", "destroyed"} => life'[j] \notin {"none", "destroyed"}
    BY <1>0, <2>1
  <2>. QED BY <1>a, <2>1, <2>2, DropKeeps
<1>3. ASSUME NEW i \in Insts, RemoveThisIfUnused(i)
      PROVE  RegisteredIsOperand' /\ Listed' /\ Keeps
  <2>1. /\ UNCHANGED <<class, operand>> /\ life' = [life EXCEPT ![i] = "finalized"]
        /\ users' = Released(i)
    BY <1>3 DEF RemoveThisIfUnused
  <2>2. \A w \in Values, u \in Uses :
          users'[w][u] = IF u[1] = i /\ operand[u] = w THEN 0 ELSE users[w][u]
    BY <2>1 DEF Released
  <2>3. \A j \in Insts : life[j] \notin {"none", "destroyed"} => life'[j] \notin {"none", "destroyed"}
    BY <1>0, <2>1
  <2>4. ~Editable(i)'
    BY <1>0, <2>1 DEF Editable
  <2>. QED BY <1>a, <1>b, <2>1, <2>2, <2>3, <2>4, DropKeeps
<1>4. ASSUME NEW i \in Insts, Finalize(i)
      PROVE  RegisteredIsOperand' /\ Listed' /\ Keeps
  <2>1. /\ class' = class
        /\ \E l \in {"finalized", "released"} : life' = [life EXCEPT ![i] = l]
    BY <1>4 DEF Finalize
  <2>2. \A j \in Insts : life[j] \notin {"none", "destroyed"} => life'[j] \notin {"none", "destroyed"}
    BY <1>0, <2>1
  <2>3. ~Editable(i)'
    BY <1>0, <2>1 DEF Editable
  <2>4. \A u \in Uses : u[1] # i => operand'[u] = operand[u]
    BY <1>0, <1>4 DEF Finalize, Cleared
  <2>5. \A w \in Values, u \in Uses : u[1] # i => users'[w][u] = users[w][u]
    BY <1>0, <1>4 DEF Finalize, Released
  <2>6. \A w \in Values, u \in Uses : u[1] = i => users'[w][u] = 0
    <3>1. CASE class[i] \in Casts
      <4>1. ~Registered(<<i, 1>>) /\ users' = users
        BY <1>4, <3>1 DEF Finalize
      <4>2. ASSUME NEW w \in Values, NEW u \in Uses, u[1] = i, users[w][u] > 0 PROVE FALSE
        <5>1. operand[u] = w /\ u[2] \in SlotsOf(i)
          BY <1>a, <4>2
        <5>2. u[2] = 1
          BY <3>1, <4>2, <5>1, <1>0, OperandCases DEF UnarySSA
        <5>3. u = <<i, 1>>
          BY <4>2, <5>2 DEF Uses
        <5>. QED BY <1>a, <4>1, <4>2, <5>1, <5>3 DEF Registered
      <4>. QED BY <1>b, <4>1, <4>2
    <3>2. CASE class[i] \notin Casts
      <4>1. users' = Released(i)
        BY <1>4, <3>2 DEF Finalize
      <4>. QED BY <1>a, <1>b, <4>1 DEF Released
    <3>. QED BY <3>1, <3>2
  <2>. QED BY <1>a, <1>b, <2>1, <2>2, <2>3, <2>4, <2>5, <2>6, DropKeeps
<1>5. ASSUME NEW i \in Insts, FinalizeWithFunction(i)
      PROVE  RegisteredIsOperand' /\ Listed' /\ Keeps
  <2>1. /\ class' = class
        /\ \E l \in {"finalized", "released"} : life' = [life EXCEPT ![i] = l]
    BY <1>5 DEF FinalizeWithFunction
  <2>2. \A j \in Insts : life[j] \notin {"none", "destroyed"} => life'[j] \notin {"none", "destroyed"}
    BY <1>0, <2>1
  <2>3. ~Editable(i)' /\ i \notin Alive'
    BY <1>0, <2>1, UseDefAssumption DEF Editable, Alive
  <2>4. \A u \in Uses : u[1] # i => operand'[u] = operand[u]
    BY <1>0, <1>5 DEF FinalizeWithFunction, Cleared
  <2>5. \A w \in Values, u \in Uses :
          users'[w][u] = IF class[i] = "Select" /\ w = i THEN 0
                         ELSE IF u[1] = i /\ operand[u] = w /\ Releases(u) THEN 0
                         ELSE users[w][u]
    BY <1>5 DEF FinalizeWithFunction
  <2>6. ASSUME NEW w \in Values, NEW u \in Uses, u[1] = i, users'[w][u] > 0 PROVE FALSE
    <3>1. users[w][u] > 0 /\ ~Releases(u)
      BY <1>a, <1>b, <2>5, <2>6
    <3>2. u[2] \in SlotsOf(i) /\ u = <<i, u[2]>> /\ Registered(u)
      BY <1>a, <2>6, <3>1 DEF Uses, Registered
    <3>. QED BY <1>5, <3>1, <3>2 DEF FinalizeWithFunction
  <2>7. \A w \in Values, u \in Uses : users'[w][u] # users[w][u] => users'[w][u] = 0
    BY <2>5
  <2>8. \A w \in Values, u \in Uses : users'[w][u] > 0 =>
          operand'[u] = operand[u] /\ life'[u[1]] \notin {"none", "destroyed"}
    BY <1>a, <1>b, <2>2, <2>4, <2>5, <2>6
  <2>9. \A w \in Values, u \in Uses :
          users[w][u] > 0 /\ Editable(u[1])' /\ operand'[u] \in Alive' =>
            operand'[u] = w /\ users'[w][u] = users[w][u]
    BY <1>a, <2>3, <2>4, <2>5
  <2>. QED BY <2>1, <2>7, <2>8, <2>9, DropKeeps
<1>6. ASSUME NEW i \in Insts, Destroy(i)
      PROVE  RegisteredIsOperand' /\ Listed' /\ Keeps
  <2>1. /\ class' = class /\ life' = [life EXCEPT ![i] = "destroyed"]
        /\ operand' = [u \in Uses |-> IF u[1] = i THEN Null ELSE operand[u]]
        /\ users' = [users EXCEPT ![i] = [u \in Uses |-> 0]]
        /\ \A u \in Uses : operand[u] # i
        /\ \A k \in SlotsOf(i) : ~Registered(<<i, k>>)
    BY <1>6 DEF Destroy, Cleared
  <2>2. i \in Values
    BY DEF Values
  <2>3. \A w \in Values, u \in Uses : users'[w][u] = users[w][u]
    BY <1>0, <1>a, <1>b, <2>1, <2>2
  <2>4. ASSUME NEW w \in Values, NEW u \in Uses, users[w][u] > 0 PROVE u[1] # i
    <3>1. u[2] \in SlotsOf(u[1]) /\ u = <<u[1], u[2]>> /\ Registered(u)
      BY <1>a, <2>4 DEF Uses, Registered
    <3>. QED BY <2>1, <3>1
  <2>5. \A u \in Uses : u[1] # i => operand'[u] = operand[u] /\ life'[u[1]] = life[u[1]]
    BY <1>0, <1>a, <2>1
  <2>. QED BY <1>a, <2>1, <2>3, <2>4, <2>5, DropKeeps
<1>7. ASSUME NEW u \in Uses, PhiRemove(u)
      PROVE  RegisteredIsOperand' /\ Listed' /\ Keeps
  <2>1. /\ UNCHANGED <<class, life, users>> /\ operand' = [operand EXCEPT ![u] = Null]
        /\ ~Registered(u)
    BY <1>7 DEF PhiRemove, Frees
  <2>2. \A w \in Values, j \in Uses : users[w][j] > 0 => operand'[j] = operand[j]
    BY <1>0, <1>a, <2>1 DEF Registered
  <2>. QED BY <1>a, <2>1, <2>2, DropKeeps
<1>8. ASSUME NEW u \in Uses, NEW v \in Alive \cup {Null}, SetOperand(u, v)
      PROVE  RegisteredIsOperand' /\ Listed' /\ Keeps
  <2>1. /\ Become(Set(Now, u, v)) /\ UNCHANGED <<life, class, fixed>>
        /\ u[2] \in SlotsOf(u[1]) /\ Editable(u[1])
    BY <1>8 DEF SetOperand
  <2>2. SetAllowed(Now, u, v)
    <3>1. Operand(u).order = "incoming" => ~OnList(Now, u)
      BY <1>0, <1>8, <2>1, OperandCases DEF SetOperand, Frees, Registered, OnList, Now
    <3>2. Operand(u).order = "callee" => v = Null \/ Fits(u, v)
      BY <1>8 DEF SetOperand, MaySet
    <3>. QED BY <1>8, <3>1, <3>2 DEF SetOperand, MaySet, SetAllowed, Now
  <2>3. v \in Values \cup {Null}
    BY DEF Alive, Values
  <2>4. Kept(Now, Set(Now, u, v), u[1])
    BY <1>0, <2>1, <2>2, <2>3, SetKeeps
  <2>. QED BY <1>a, <2>1, <2>4, EditKeeps
<1>9. ASSUME NEW u \in Uses, NEW v \in Alive, SwapUseeOut(u, v)
      PROVE  RegisteredIsOperand' /\ Listed' /\ Keeps
  <2>1. /\ Become(Swap(Now, u, v)) /\ UNCHANGED <<life, class, fixed>>
        /\ u[2] \in SlotsOf(u[1]) /\ Editable(u[1]) /\ MaySwap(u, v)
    BY <1>9 DEF SwapUseeOut
  <2>2. v \in Values
    BY DEF Alive, Values
  <2>3. Kept(Now, Swap(Now, u, v), u[1])
    <3>1. CASE v = operand[u]
      <4>1. Swap(Now, u, v) = Now
        BY <3>1 DEF Swap, Now
      <4>. QED BY <1>0, <4>1, KeptSame
    <3>2. CASE v # operand[u]
      <4>1. Swap(Now, u, v) = On(Now, u, v)
        BY <1>0, <2>1, <2>2, <3>2, MaySwapAllowed, SwapIs
      <4>. QED BY <1>0, <2>1, <2>2, <4>1, KeptOn
    <3>. QED BY <3>1, <3>2
  <2>. QED BY <1>a, <2>1, <2>3, EditKeeps
<1>10. ASSUME NEW i \in Insts, NEW p \in Values, NEW v \in Alive, ReplaceAllUsee(i, p, v)
       PROVE  RegisteredIsOperand' /\ Listed' /\ Keeps
  <2>1. /\ Become(ReplaceOperands(Now, i, p, v)) /\ UNCHANGED <<life, class, fixed>>
        /\ Editable(i) /\ MayReplaceAll(i, p, v)
    BY <1>10 DEF ReplaceAllUsee
  <2>2. v \in Values
    BY DEF Alive, Values
  <2>3. Kept(Now, ReplaceOperands(Now, i, p, v), i)
    BY <1>0, <2>1, <2>2, ReplaceIs DEF Replaced
  <2>. QED BY <2>1, <2>3, EditKeeps
<1>11. CASE UNCHANGED vars
  BY <1>11 DEF vars, RegInv, RegisteredIsOperand, Listed, SlotsOf, Keeps, Registered
<1>. QED BY <1>1, <1>2, <1>3, <1>4, <1>5, <1>6, <1>7, <1>8, <1>9, <1>10, <1>11 DEF Next

(* No use is registered at first. *)
LEMMA RegInit == Init => RegInv
<1>. SUFFICES ASSUME Init PROVE RegisteredIsOperand /\ Listed
  BY TypedInit DEF RegInv
<1>. QED BY DEF Init, RegisteredIsOperand, Listed

(* The invariant holds throughout. *)
LEMMA RegAlways == ASSUME Calls = {} PROVE Spec => []RegInv
<1>1. RegInv /\ [Next]_vars => RegInv'
  BY RegNext
<1>. QED BY <1>1, RegInit, PTL DEF Spec

-----------------------------------------------------------------------------
(* A use is on the list of its operand or on none, once, and its           *)
(* instruction lives: with clients that make none of the calls that break  *)
(* it, whatever the setters, closures and finalisers of any class do.      *)
THEOREM UsersAreOperands ==
  ASSUME Calls = {}
  PROVE  Spec => []RegisteredIsOperand
<1>1. RegInv => RegisteredIsOperand
  BY DEF RegInv
<1>. QED BY <1>1, RegAlways, PTL

(* No step loses the registration of an operand that stays alive.          *)
THEOREM RegistrationsFollow ==
  ASSUME Calls = {}
  PROVE  Spec => RegistrationKept
<1>1. RegInv /\ [Next]_vars =>
        [\A u \in Uses :
           Registered(u) /\ Editable(u[1])' /\ operand'[u] \in Alive' => Registered(u)']_vars
  BY RegNext DEF Keeps
<1>. QED BY <1>1, RegAlways, PTL DEF Spec, RegistrationKept

(* Wherever a swap may be called, the new value is in the operand after it *)
(* and the use on its list and on no other.                                *)
THEOREM SwapsSwap ==
  ASSUME Calls = {}
  PROVE  Spec => []SwapSwaps
<1>1. RegInv => SwapSwaps
  <2>1. ASSUME RegInv, NEW u \in Uses, u[2] \in SlotsOf(u[1]),
               NEW v \in Alive \ {u[1], operand[u]}, MaySwap(u, v)
        PROVE  /\ Swap(Now, u, v).operand[u] = v
               /\ \A w \in Values : Swap(Now, u, v).users[w][u] = IF w = v THEN 1 ELSE 0
    <3>1. v \in Values /\ TypeOK /\ Now \in States /\ Sound(Now)
      BY <2>1, RegSound DEF Alive, Values
    <3>2. Swap(Now, u, v) = On(Now, u, v)
      BY <2>1, <3>1, MaySwapAllowed, SwapIs
    <3>. QED BY <3>1, <3>2, StateParts DEF On
  <2>. QED BY <2>1 DEF SwapSwaps
<1>. QED BY <1>1, RegAlways, PTL

(* A replacement leaves no operand with the old value and no other operand *)
(* changed.                                                                *)
THEOREM ReplacesAll ==
  ASSUME Calls = {}
  PROVE  Spec => []ReplaceAllReplaces
<1>1. RegInv => ReplaceAllReplaces
  <2>1. ASSUME RegInv, NEW i \in Insts,
               NEW p \in {operand[<<i, k>>] : k \in SlotsOf(i)} \ {Null},
               NEW v \in Alive \ {i}, MayReplaceAll(i, p, v), NEW k \in SlotsOf(i)
        PROVE  ReplaceOperands(Now, i, p, v).operand[<<i, k>>]
                 = IF operand[<<i, k>>] = p THEN v ELSE operand[<<i, k>>]
    <3>1. v \in Values /\ TypeOK /\ Now \in States /\ Sound(Now)
      BY <2>1, RegSound DEF Alive, Values
    <3>2. \A l \in SlotsOf(i) : l \in 1 .. 3
      <4>1. GoodRow(class[i], Layout[class[i]])
        BY <3>1, LayoutRows DEF TypeOK
      <4>. QED BY <4>1 DEF GoodRow, SlotsOf, Slots
    <3>3. <<i, k>> \in Uses /\ <<i, k>>[1] = i /\ <<i, k>>[2] = k /\ k < 4
      BY <3>2 DEF Uses, Slots
    <3>4. p \in Values
      BY <3>1, <3>2 DEF TypeOK, Uses, Slots
    <3>5. Replaced(ReplaceOperands(Now, i, p, v), i, p, v, 4)
      BY <2>1, <3>1, <3>4, ReplaceIs
    <3>. QED BY <3>3, <3>5 DEF Replaced
  <2>. QED BY <2>1 DEF ReplaceAllReplaces
<1>. QED BY <1>1, RegAlways, PTL
=============================================================================
