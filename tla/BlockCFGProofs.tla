--------------------------- MODULE BlockCFGProofs ---------------------------
(***************************************************************************)
(* Proofs about BlockCFG, for every number of blocks, instructions and     *)
(* cases.                                                                  *)
(*   - Whatever clients call, the types hold (AlwaysTyped) and every       *)
(*     successor knows its predecessor (AlwaysSuccessorsCovered); both     *)
(*     copies of the edges agree unless a target of a switch case can be   *)
(*     replaced (AlwaysMirror).                                            *)
(*   - As long as no call of ListsRespected's kinds is made, every         *)
(*     instruction is in its place (Placed), so blocks are well formed,    *)
(*     have one owner each for their instructions, and split in order.     *)
(*   - Without any such call, the edges recorded at a block are those of   *)
(*     the terminator at its end (Exact).                                  *)
(***************************************************************************)
EXTENDS BlockCFG, FiniteSetTheorems, SequenceFacts

(***************************************************************************)
(* Part 1: the two copies of the control flow graph.                       *)
(***************************************************************************)

(***************************************************************************)
(* The inductive invariant, of a graph value g because an operation makes  *)
(* several changes to the graph in a row: the counts are natural numbers,  *)
(* no edge is missing at its target, and the copies agree unless a target  *)
(* of a switch case can be replaced.                                       *)
(***************************************************************************)
Sound(g) ==
  /\ g.to \in [Blocks -> [Blocks -> Nat]]
  /\ g.from \in [Blocks -> [Blocks -> Nat]]
  /\ \A p, q \in Blocks : g.to[p][q] <= g.from[q][p]
  /\ "switch_replace" \notin Calls =>
       \A p, q \in Blocks : g.to[p][q] = g.from[q][p]

IInv == Sound(Graph)

(* A number of slots is a natural number.                                  *)
LEMMA CountNat ==
  ASSUME NEW S \in SUBSET Slots PROVE Cardinality(S) \in Nat
BY FiniteSlots, FS_Subset, FS_CardinalityType

(* So are the multiplicities of the targets of a terminator.               *)
LEMMA CountType ==
  ASSUME NEW tg, NEW S \in SUBSET Slots PROVE Count(tg, S) \in [Blocks -> Nat]
<1>1. ASSUME NEW q \in Blocks PROVE Cardinality({s \in S : tg[s] = q}) \in Nat
  <2>1. {s \in S : tg[s] = q} \in SUBSET Slots
    OBVIOUS
  <2> QED
    BY <2>1, CountNat
<1> QED
  BY <1>1 DEF Count

(* The targets of any terminator are counted.                              *)
LEMMA TargetsType == ASSUME NEW t PROVE Targets(t) \in [Blocks -> Nat]
BY CountType DEF Targets

(* One target counts once.                                                 *)
LEMMA OneType == ASSUME NEW q PROVE One(q) \in [Blocks -> Nat]
BY DEF One

(* addJumpsTo and addComesFrom, called in pairs, keep the graph sound.     *)
LEMMA RegisterSound ==
  ASSUME NEW g, Sound(g), NEW p, NEW m \in [Blocks -> Nat]
  PROVE  Sound(Register(g, p, m))
BY DEF Sound, Register

(* So do removeJumpsTo and removeComesFrom.                                *)
LEMMA UnregisterSound ==
  ASSUME NEW g, Sound(g), NEW p, NEW m \in [Blocks -> Nat]
  PROVE  Sound(Unregister(g, p, m))
<1>1. \A a, b \in Nat : Minus(a, b) \in Nat
  BY DEF Minus
<1>2. \A a, b, c \in Nat : a <= b => Minus(a, c) <= Minus(b, c)
  BY DEF Minus
<1> DEFINE h == Unregister(g, p, m)
<1>3. /\ h.to \in [Blocks -> [Blocks -> Nat]]
      /\ h.from \in [Blocks -> [Blocks -> Nat]]
  <2>1. \A b, q \in Blocks :
          /\ g.to[b][q] \in Nat /\ g.from[q][b] \in Nat /\ m[q] \in Nat
          /\ Minus(g.to[b][q], m[q]) \in Nat /\ Minus(g.from[q][b], m[q]) \in Nat
    BY <1>1 DEF Sound
  <2> QED
    BY <2>1 DEF Unregister
<1>4. ASSUME NEW b \in Blocks, NEW q \in Blocks
      PROVE  /\ h.to[b][q] <= h.from[q][b]
             /\ "switch_replace" \notin Calls => h.to[b][q] = h.from[q][b]
  <2>1. /\ h.to[b][q] = IF b = p THEN Minus(g.to[b][q], m[q]) ELSE g.to[b][q]
        /\ h.from[q][b] = IF b = p THEN Minus(g.from[q][b], m[q]) ELSE g.from[q][b]
    BY DEF Unregister
  <2>2. /\ g.to[b][q] \in Nat /\ g.from[q][b] \in Nat /\ m[q] \in Nat
        /\ g.to[b][q] <= g.from[q][b]
        /\ "switch_replace" \notin Calls => g.to[b][q] = g.from[q][b]
    BY DEF Sound
  <2>3. Minus(g.to[b][q], m[q]) <= Minus(g.from[q][b], m[q])
    BY <2>2, <1>2
  <2> QED
    BY <2>1, <2>2, <2>3
<1> QED
  BY <1>3, <1>4 DEF Sound

(* Plugging a terminator registers its targets or does nothing.            *)
LEMMA PlugSound ==
  ASSUME NEW g, Sound(g), NEW t, NEW b PROVE Sound(PlugGraph(g, t, b))
BY TargetsType, RegisterSound DEF PlugGraph

(* Unplugging one unregisters them.                                        *)
LEMMA UnplugSound ==
  ASSUME NEW g, Sound(g), NEW t PROVE Sound(UnplugGraph(g, t))
BY TargetsType, UnregisterSound DEF UnplugGraph

(* What an operation leaves as the graph is the next state's graph.        *)
LEMMA SetGraphSound ==
  ASSUME NEW g, Sound(g), SetGraph(g) PROVE IInv'
<1>1. jumps_to' = g.to /\ comes_from' = g.from
  BY DEF SetGraph
<1> QED
  BY <1>1 DEF IInv, Sound, Graph

(* An operation that leaves the graph alone.                               *)
LEMMA SameGraph == ASSUME IInv, UNCHANGED edges PROVE IInv'
BY DEF IInv, Sound, Graph, edges

(* The empty graph is sound.                                               *)
LEMMA InitIInv == Init => IInv
BY DEF Init, NoEdges, IInv, Sound, Graph

(* The operations that only move instructions between lists.               *)
LEMMA ListsIInv ==
  ASSUME IInv
  PROVE  /\ \A t, p, q : NewJump(t, p, q) \/ NewBranch(t, p, q) \/ NewSwitch(t, p, q)
                         => IInv'
         /\ \A t : Release(t) => IInv'
         /\ \A b, i : append(b, i) \/ prepend(b, i) => IInv'
         /\ \A a, i : append_to(a, i) \/ prepend_to(a, i) => IInv'
         /\ \A i, st : unplugThis(i, st) => IInv'
         /\ \A b, k, i : replace_this(b, k, i) => IInv'
         /\ \A t : swapTargets(t) => IInv'
<1>1. ASSUME NEW t, NEW p, NEW tg, NewTerminator(t, p, tg) PROVE IInv'
  BY <1>1, SameGraph DEF NewTerminator
<1>2. ASSUME NEW t, NEW p, NEW q, NewJump(t, p, q) \/ NewBranch(t, p, q) \/ NewSwitch(t, p, q)
      PROVE  IInv'
  BY <1>2, <1>1 DEF NewJump, NewBranch, NewSwitch
<1>3. ASSUME NEW t, Release(t) PROVE IInv'
  BY <1>3, SameGraph DEF Release, edges
<1>4. ASSUME NEW b, NEW k, NEW i, InsertInto(b, k, i) PROVE IInv'
  BY <1>4, SameGraph DEF InsertInto, edges
<1>5. ASSUME NEW b, NEW i, append(b, i) \/ prepend(b, i) PROVE IInv'
  BY <1>5, <1>4 DEF append, prepend
<1>6. ASSUME NEW a, NEW i, append_to(a, i) \/ prepend_to(a, i) PROVE IInv'
  BY <1>6, <1>4 DEF append_to, prepend_to
<1>7. ASSUME NEW i, NEW st, unplugThis(i, st) PROVE IInv'
  BY <1>7, SameGraph DEF unplugThis, edges
<1>8. ASSUME NEW b, NEW k, NEW i, replace_this(b, k, i) PROVE IInv'
  BY <1>8, SameGraph DEF replace_this, edges
<1>9. ASSUME NEW t, swapTargets(t) PROVE IInv'
  BY <1>9, SameGraph DEF swapTargets, edges
<1> QED
  BY <1>3, <1>5, <1>6, <1>7, <1>8, <1>9, <1>2

(* Mounting terminators: the factories of BasicBlock and set_terminator.   *)
LEMMA MountIInv ==
  ASSUME IInv, NEW b, NEW t, NewBlock(b, t) \/ set_terminator(b, t) PROVE IInv'
<1>1. CASE NewBlock(b, t)
  BY <1>1, PlugSound, SetGraphSound DEF NewBlock, IInv
<1>2. CASE set_terminator(b, t)
  <2> DEFINE old  == Ending(b)
             gone == UnplugGraph(Graph, old)
  <2>1. CASE status[t] = "DISCONNECTED" /\ old \in Terminators \ {t}
    <3>1. SetGraph(PlugGraph(gone, t, parent[old]))
      BY <1>2, <2>1 DEF set_terminator
    <3>2. Sound(gone)
      BY UnplugSound DEF IInv
    <3> QED
      BY <3>1, <3>2, PlugSound, SetGraphSound
  <2>2. CASE ~(status[t] = "DISCONNECTED" /\ old \in Terminators \ {t})
    BY <1>2, <2>2, SameGraph DEF set_terminator
  <2> QED
    BY <2>1, <2>2
<1> QED
  BY <1>1, <1>2

(* Splitting takes the old ending's edges away, adds the jump's, and gives *)
(* the new block the old ending's unless that one was refused.             *)
LEMMA SplitIInv ==
  ASSUME IInv, NEW i, NEW r, NEW j, NEW u, split(i, r, j, u) PROVE IInv'
<1> DEFINE last == Ending(parent[i])
           away == Register(UnplugGraph(Graph, last), parent[last], One(r))
           all  == Register(away, r, Targets(last))
<1>1. Sound(away)
  BY UnplugSound, RegisterSound, OneType DEF IInv
<1>2. Sound(all)
  BY <1>1, TargetsType, RegisterSound
<1>3. SetGraph(away) \/ SetGraph(all)
  BY DEF split
<1> QED
  BY <1>1, <1>2, <1>3, SetGraphSound

(* Editing one slot.                                                       *)
LEMMA SetSlotIInv ==
  ASSUME IInv, NEW t, NEW s, NEW q, set_slot(t, s, q) PROVE IInv'
<1> DEFINE g == Unregister(Graph, parent[t], One(target[t][s]))
<1>1. Sound(g)
  BY UnregisterSound, OneType DEF IInv
<1>2. SetGraph(Register(g, parent[t], One(q)))
  BY DEF set_slot
<1> QED
  BY <1>1, <1>2, RegisterSound, OneType, SetGraphSound

(* The setters of single slots.                                            *)
LEMMA SettersIInv ==
  ASSUME IInv, NEW t, NEW c, NEW q,
         \/ set_default_target(t, q) \/ set_if_true(t, q)
         \/ setCase(t, c, q) \/ removeCase(t, c)
  PROVE  IInv'
BY SetSlotIInv DEF set_default_target, set_if_true, setCase, removeCase

(* Removing targets.                                                       *)
LEMMA RemoveIInv ==
  ASSUME IInv, NEW t, NEW X,
         \/ remove_target(t, X) \/ switch_remove_if(t, X)
         \/ clean_jump(t) \/ clean_branch(t) \/ clean_switch(t)
  PROVE  IInv'
<1>1. CASE remove_target(t, X)
  <2> DEFINE S == {s \in Slots : target[t][s] \in X}
  <2>1. SetGraph(Unregister(Graph, parent[t], Count(target[t], S)))
    BY <1>1 DEF remove_target
  <2>2. Count(target[t], S) \in [Blocks -> Nat]
    BY CountType
  <2> QED
    BY <2>1, <2>2, UnregisterSound, SetGraphSound DEF IInv
<1>2. CASE switch_remove_if(t, X)
  <2> DEFINE S == {c \in Cases : target[t][c] \in X}
             m == [q \in Blocks |-> IF q = target[t]["default"] THEN Cardinality(S) ELSE 0]
  <2>1. SetGraph(Unregister(Graph, parent[t], m))
    BY <1>2 DEF switch_remove_if
  <2>2. Cardinality(S) \in Nat
    <3>1. S \in SUBSET Slots
      BY DEF Slots
    <3> QED
      BY <3>1, CountNat
  <2>3. m \in [Blocks -> Nat]
    BY <2>2
  <2> QED
    BY <2>1, <2>3, UnregisterSound, SetGraphSound DEF IInv
<1>3. ASSUME NEW S, clean_slots(t, S) PROVE IInv'
  BY <1>3, TargetsType, UnregisterSound, SetGraphSound DEF clean_slots, IInv
<1>4. CASE clean_jump(t) \/ clean_branch(t) \/ clean_switch(t)
  BY <1>3, <1>4 DEF clean_jump, clean_branch, clean_switch
<1> QED
  BY <1>1, <1>2, <1>4

(* Replacing targets.  A case adds its edge at the target and a wrong one  *)
(* at the source, so what is missing is only ever missing in jumps_to.     *)
LEMMA ReplaceIInv ==
  ASSUME IInv, NEW t, NEW S, NEW old, NEW q, replace_target(t, S, old, q)
  PROVE  IInv'
<1> DEFINE p      == parent[t]
           cases  == [r \in Blocks |-> IF r = q THEN Cardinality(S \cap Cases) ELSE 0]
           others == [r \in Blocks |-> IF r = q THEN Cardinality(S \ Cases) ELSE 0]
           less   == Unregister(Graph, p, Count(target[t], S))
           g      == Register(less, p, others)
<1>1. S \in SUBSET Slots
  BY DEF replace_target
<1>2. Cardinality(S \cap Cases) \in Nat /\ Cardinality(S \ Cases) \in Nat
  BY <1>1, CountNat
<1>3. cases \in [Blocks -> Nat] /\ others \in [Blocks -> Nat]
  BY <1>2
<1>4. Sound(g)
  <2>1. Count(target[t], S) \in [Blocks -> Nat]
    BY <1>1, CountType
  <2>2. Sound(less)
    BY <2>1, UnregisterSound DEF IInv
  <2> QED
    BY <2>2, <1>3, RegisterSound
<1>5. /\ jumps_to' = g.to
      /\ comes_from' = [x \in Blocks |-> [y \in Blocks |->
                          g.from[x][y] + (IF y = p THEN cases[x] ELSE 0)
                                       + (IF x = p THEN cases[y] ELSE 0)]]
  BY DEF replace_target
<1>6. ASSUME "switch_replace" \notin Calls PROVE \A r \in Blocks : cases[r] = 0
  <2>1. S \cap Cases = {}
    BY <1>6 DEF replace_target
  <2>2. Cardinality(S \cap Cases) = 0
    BY <2>1, FS_EmptySet
  <2> QED
    BY <2>2
<1> HIDE DEF g, cases
<1>7. IInv'
  BY <1>3, <1>4, <1>5, <1>6 DEF IInv, Sound, Graph
<1> QED
  BY <1>7

(* Every step keeps the graph sound.                                       *)
LEMMA NextIInv == IInv /\ [Next]_vars => IInv'
<1> SUFFICES ASSUME IInv, [Next]_vars PROVE IInv'
  OBVIOUS
<1>1. CASE UNCHANGED vars
  BY <1>1, SameGraph DEF vars
<1>2. CASE Next
  BY <1>2, ListsIInv, MountIInv, SplitIInv, SettersIInv, RemoveIInv, ReplaceIInv DEF Next
<1> QED
  BY <1>1, <1>2

(* The graph is sound in every reachable state.                            *)
LEMMA AlwaysSound == Spec => []IInv
BY InitIInv, NextIInv, PTL DEF Spec

(* Whatever clients do, detached edits and refused mounts included, a jump *)
(* from p to q recorded at p is recorded at q too: removing the predecessor*)
(* q lists never leaves a successor p lists.                               *)
THEOREM AlwaysSuccessorsCovered == Spec => []SuccessorsCovered
<1>1. IInv => SuccessorsCovered
  BY DEF IInv, Sound, Graph, SuccessorsCovered
<1> QED
  BY <1>1, AlwaysSound, PTL

(* As long as no target of a switch case is replaced, the two copies agree *)
(* with their counts: replace_target of SwitchSSA is the only code that    *)
(* can tell them apart.                                                    *)
THEOREM AlwaysMirror ==
  ASSUME "switch_replace" \notin Calls
  PROVE  Spec => []Mirror
<1>1. IInv => Mirror
  BY DEF IInv, Sound, Graph, Mirror
<1> QED
  BY <1>1, AlwaysSound, PTL

-----------------------------------------------------------------------------
(***************************************************************************)
(* Part 2: the instruction lists and the edges that belong to them.        *)
(***************************************************************************)

(* The first part of a list that is cut before position k, closed with e.  *)
Closed(s, k, e) == Kept(s, k) \o <<e>>

(* Cutting a list before position k and closing the first part with e.     *)
LEMMA ClosedAt ==
  ASSUME NEW s \in Seq(Insts), NEW k \in 1 .. Len(s), NEW e \in Insts
  PROVE  /\ Closed(s, k, e) \in Seq(Insts) /\ Len(Closed(s, k, e)) = k /\ Closed(s, k, e)[k] = e
         /\ \A n \in 1 .. k - 1 : Closed(s, k, e)[n] = s[n]
<1>1. Kept(s, k) \in Seq(Insts) /\ Len(Kept(s, k)) = k - 1
  BY DEF Kept
<1>2. \A n \in 1 .. k - 1 : Kept(s, k)[n] = s[n]
  BY DEF Kept
<1> HIDE DEF Kept
<1> QED
  BY <1>1, <1>2 DEF Closed

(* What a split moves is the list from position k on.                      *)
LEMMA MovedAt ==
  ASSUME NEW s \in Seq(Insts), NEW k \in 1 .. Len(s)
  PROVE  /\ Moved(s, k) \in Seq(Insts) /\ Len(Moved(s, k)) = Len(s) - k + 1
         /\ \A n \in 1 .. Len(s) - k + 1 : Moved(s, k)[n] = s[n + k - 1]
BY DEF Moved

(* The two parts of a cut list, the jump left out, are the list.           *)
LEMMA CutAt ==
  ASSUME NEW s \in Seq(Insts), NEW k \in 1 .. Len(s), NEW e \in Insts
  PROVE  s = Front(Closed(s, k, e)) \o Moved(s, k)
<1>1. Kept(s, k) \in Seq(Insts) /\ Len(Kept(s, k)) = k - 1
  BY DEF Kept
<1>2. Front(Closed(s, k, e)) = Kept(s, k)
  <2> DEFINE h == Closed(s, k, e)
  <2>1. h = Kept(s, k) \o <<e>> /\ h \in Seq(Insts) /\ Len(h) = k
    BY ClosedAt, ZenonT(30) DEF Closed
  <2> HIDE DEF h
  <2>2. Front(h) \in Seq(Insts) /\ Len(Front(h)) = k - 1 /\ \A n \in 1 .. k - 1 : Front(h)[n] = h[n]
    BY <2>1 DEF Front
  <2>3. \A n \in 1 .. k - 1 : Front(h)[n] = Kept(s, k)[n]
    BY <1>1, <2>1, <2>2
  <2> QED
    BY <1>1, <2>2, <2>3, SeqEqual DEF h
<1>3. SubSeq(s, 1, k - 1) \o SubSeq(s, (k - 1) + 1, Len(s)) = SubSeq(s, 1, Len(s))
  BY ConcatAdjacentSubSeq, LenProperties
<1> QED
  BY <1>2, <1>3, SubSeqFull DEF Kept, Moved

-----------------------------------------------------------------------------
(* Typing.                                                                 *)

(* Which slots each class of terminator has.                               *)
LEMMA SlotsOfClass ==
  /\ \A t \in Unreachable : SlotsOf(t) = {}
  /\ \A t \in Jump : SlotsOf(t) = {"default"}
  /\ \A t \in Branch : SlotsOf(t) = {"default", "true"}
  /\ \A t \in Switch : SlotsOf(t) = {"default"} \cup Cases
BY ClassesAssumption, Zenon DEF SlotsOf, JumpBases, Terminators

(* Nothing exists at first, so every variable has its empty value.         *)
LEMMA InitTyped == Init => TypeOK
BY DEF Init, TypeOK, NoTargets, NoEdges, Insts, Terminators, JumpBases

(* Where the graph is typed the rest need not look at it.                  *)
EdgesTyped == jumps_to \in [Blocks -> [Blocks -> Nat]] /\ comes_from \in [Blocks -> [Blocks -> Nat]]

(* The constructors fill only the slots of the class they make.            *)
LEMMA NewTerminatorTyped ==
  ASSUME TypeOK, NEW q \in MadeBlocks, NEW t,
         \/ \E p \in MadeBlocks : NewJump(t, p, q) \/ NewBranch(t, p, q)
         \/ \E cases \in [Cases -> MadeBlocks \cup {Null}] : NewSwitch(t, q, cases)
  PROVE  TypeOK'
<1>1. ASSUME NEW b \in MadeBlocks \cup {Null}, NEW tg \in [Slots -> Blocks \cup {Null}],
             NewTerminator(t, b, tg), \A s \in Slots \ SlotsOf(t) : tg[s] = Null
      PROVE  TypeOK'
  BY <1>1 DEF NewTerminator, TypeOK, MadeBlocks, lists, edges, Insts, Terminators, JumpBases
<1>2. ASSUME NEW p \in MadeBlocks, NewJump(t, p, q) PROVE TypeOK'
  <2> DEFINE tg == [NoTargets EXCEPT !["default"] = q]
  <2>1. tg \in [Slots -> Blocks \cup {Null}] /\ \A s \in Slots \ {"default"} : tg[s] = Null
    BY DEF NoTargets, MadeBlocks
  <2> QED
    BY <1>1, <1>2, <2>1, SlotsOfClass DEF NewJump
<1>3. ASSUME NEW p \in MadeBlocks, NewBranch(t, p, q) PROVE TypeOK'
  <2> DEFINE tg == [NoTargets EXCEPT !["default"] = q, !["true"] = p]
  <2>1. /\ tg \in [Slots -> Blocks \cup {Null}]
        /\ \A s \in Slots \ {"default", "true"} : tg[s] = Null
    BY DEF NoTargets, MadeBlocks
  <2> QED
    BY <1>1, <1>3, <2>1, SlotsOfClass DEF NewBranch
<1>4. ASSUME NEW cases \in [Cases -> MadeBlocks \cup {Null}], NewSwitch(t, q, cases)
      PROVE  TypeOK'
  <2> DEFINE tg == [s \in Slots |-> IF s = "default" THEN q
                                   ELSE IF s \in Cases THEN cases[s] ELSE Null]
  <2>1. /\ tg \in [Slots -> Blocks \cup {Null}]
        /\ \A s \in Slots \ ({"default"} \cup Cases) : tg[s] = Null
    BY DEF MadeBlocks
  <2> QED
    BY <1>1, <1>4, <2>1, SlotsOfClass DEF NewSwitch
<1> QED
  BY <1>2, <1>3, <1>4

(* A factory of blocks puts at most a terminator into the new list.        *)
LEMMA NewBlockTyped ==
  ASSUME TypeOK, EdgesTyped', NEW b \in Blocks, NEW t \in Terminators, NewBlock(b, t)
  PROVE  TypeOK'
<1>1. insts' \in [Blocks -> Seq(Insts)] /\ self_node' \in [Insts -> Insts \cup {Null}]
  <2>1. t \in Insts /\ <<t>> \in Seq(Insts)
    BY DEF Insts
  <2>2. CASE status[t] = "DISCONNECTED"
    BY <2>1, <2>2 DEF NewBlock, TypeOK
  <2>3. CASE status[t] # "DISCONNECTED"
    BY <2>3 DEF NewBlock, TypeOK, lists
  <2> QED
    BY <2>2, <2>3
<1> QED
  BY <1>1 DEF NewBlock, TypeOK, EdgesTyped, Insts

(* Releasing a terminator takes its targets away.                          *)
LEMMA ReleaseTyped ==
  ASSUME TypeOK, NEW t, Release(t) PROVE TypeOK'
BY DEF Release, TypeOK, edges, Insts, NoTargets

(* Insertion at any position of a list.                                    *)
LEMMA InsertTyped ==
  ASSUME TypeOK, NEW b \in Blocks, NEW k \in 1 .. Len(insts[b]) + 1, NEW i,
         InsertInto(b, k, i)
  PROVE  TypeOK'
<1>1. insts[b] \in Seq(Insts) /\ i \in Insts
  BY DEF InsertInto, TypeOK, Insts
<1>2. insts' \in [Blocks -> Seq(Insts)]
  BY <1>1, InsertedAt DEF InsertInto, TypeOK
<1>3. ListParent(b) \in Blocks \cup {Null}
  <2>1. Len(insts[b]) \in 1 .. Len(insts[b])
    BY <1>1 DEF InsertInto
  <2>2. insts[b][Len(insts[b])] \in Insts
    BY <1>1, <2>1, ElementOfSeq
  <2> QED
    BY <2>2 DEF ListParent, Ending, TypeOK
<1> QED
  BY <1>1, <1>2, <1>3 DEF InsertInto, TypeOK, edges, Plugged

(* A list that is not empty ends in an instruction.                        *)
LEMMA EndingTyped ==
  ASSUME TypeOK, NEW b \in Blocks, insts[b] # << >>
  PROVE  /\ Len(insts[b]) \in Nat \ {0} /\ DOMAIN insts[b] = 1 .. Len(insts[b])
         /\ Ending(b) \in Insts
<1>1. insts[b] \in Seq(Insts)
  BY DEF TypeOK
<1>2. Len(insts[b]) \in Nat \ {0} /\ DOMAIN insts[b] = 1 .. Len(insts[b])
  BY <1>1
<1> QED
  BY <1>1, <1>2, ElementOfSeq DEF Ending

(* The four ways to insert.                                                *)
LEMMA AppendTyped ==
  ASSUME TypeOK, NEW b \in Blocks, NEW at \in Insts, NEW i,
         append(b, i) \/ prepend(b, i) \/ append_to(at, i) \/ prepend_to(at, i)
  PROVE  TypeOK'
<1>1. \A c \in Blocks : insts[c] \in Seq(Insts) /\ DOMAIN insts[c] = 1 .. Len(insts[c])
  BY DEF TypeOK
<1>2. CASE append(b, i)
  <2>1. insts[b] # << >>
    BY <1>2 DEF append, InsertInto
  <2> QED
    BY <1>2, <2>1, EndingTyped, InsertTyped DEF append
<1>3. CASE prepend(b, i)
  BY <1>1, <1>3, InsertTyped DEF prepend
<1>4. CASE append_to(at, i)
  <2>1. PICK c \in Blocks : \E k \in DOMAIN insts[c] : InsertInto(c, k + 1, i)
    BY <1>4 DEF append_to
  <2>2. PICK k \in DOMAIN insts[c] : InsertInto(c, k + 1, i)
    BY <2>1
  <2>3. k + 1 \in 1 .. Len(insts[c]) + 1
    BY <1>1
  <2> QED
    BY <2>2, <2>3, InsertTyped
<1>5. CASE prepend_to(at, i)
  BY <1>1, <1>5, InsertTyped DEF prepend_to
<1> QED
  BY <1>2, <1>3, <1>4, <1>5

(* Removal, whether or not the instruction is where it should be.          *)
LEMMA UnplugTyped ==
  ASSUME TypeOK, NEW i \in Insts, NEW st \in {"DISCONNECTED", "FINALIZED"}, unplugThis(i, st)
  PROVE  TypeOK'
<1>1. CASE \E b \in Blocks : \E k \in DOMAIN insts[b] :
             /\ insts' = [insts EXCEPT ![b] = RemoveAt(@, k)]
             /\ self_node[i] \in Plain \cup Phi
             /\ self_node' = [self_node EXCEPT ![self_node[i]] = Null]
             /\ status' = [status EXCEPT ![self_node[i]] = "DISCONNECTED", ![i] = st]
  <2>1. PICK b \in Blocks : \E k \in DOMAIN insts[b] : insts' = [insts EXCEPT ![b] = RemoveAt(@, k)]
    BY <1>1
  <2>2. PICK k \in DOMAIN insts[b] : insts' = [insts EXCEPT ![b] = RemoveAt(@, k)]
    BY <2>1
  <2>3. insts[b] \in Seq(Insts) /\ k \in 1 .. Len(insts[b])
    BY DEF TypeOK
  <2>4. RemoveAt(insts[b], k) \in Seq(Insts)
    BY <2>3, RemovedAt
  <2> QED
    BY <1>1, <2>2, <2>4 DEF unplugThis, TypeOK, edges
<1>2. CASE status' = [status EXCEPT ![i] = st] /\ UNCHANGED lists
  BY <1>2 DEF unplugThis, TypeOK, edges, lists
<1> QED
  BY <1>1, <1>2 DEF unplugThis

(* Replacement in place.                                                   *)
LEMMA ReplaceThisTyped ==
  ASSUME TypeOK, NEW b \in Blocks, NEW k \in DOMAIN insts[b], NEW i, replace_this(b, k, i)
  PROVE  TypeOK'
<1>1. insts[b] \in Seq(Insts) /\ k \in 1 .. Len(insts[b]) /\ i \in Insts /\ insts[b][k] \in Insts
  BY DEF replace_this, TypeOK, Insts
<1>2. [insts[b] EXCEPT ![k] = i] \in Seq(Insts)
  BY <1>1, ExceptSeq
<1>3. insts' = [insts EXCEPT ![b] = [insts[b] EXCEPT ![k] = i]]
  BY DEF replace_this
<1> QED
  BY <1>1, <1>2, <1>3 DEF replace_this, TypeOK, edges, Plugged

(* Replacing the ending.                                                   *)
LEMMA SetTerminatorTyped ==
  ASSUME TypeOK, EdgesTyped', NEW b \in Blocks, NEW t \in Terminators, set_terminator(b, t)
  PROVE  TypeOK'
<1> DEFINE old == Ending(b)
<1>1. CASE status[t] = "DISCONNECTED" /\ old \in Terminators \ {t}
  <2>1. insts[b] \in Seq(Insts) /\ Len(insts[b]) \in 1 .. Len(insts[b]) /\ old \in Insts /\ t \in Insts
    BY EndingTyped DEF set_terminator, TypeOK, Insts
  <2>2. [insts[b] EXCEPT ![Len(insts[b])] = t] \in Seq(Insts)
    BY <2>1, ExceptSeq
  <2>3. /\ insts' = [insts EXCEPT ![b] = [insts[b] EXCEPT ![Len(insts[b])] = t]]
        /\ self_node' = [j \in Insts |-> IF self_node[j] = old THEN t ELSE self_node[j]]
        /\ parent' = [parent EXCEPT ![t] = parent[old]]
        /\ status' = [status EXCEPT ![old] = "DISCONNECTED", ![t] = "CONNECTED"]
        /\ terminator' = [terminator EXCEPT ![b] = t]
        /\ UNCHANGED <<made, target>>
    BY <1>1 DEF set_terminator
  <2> QED
    BY <2>1, <2>2, <2>3 DEF TypeOK, EdgesTyped
<1>2. CASE ~(status[t] = "DISCONNECTED" /\ old \in Terminators \ {t})
  BY <1>2 DEF set_terminator, TypeOK, EdgesTyped, lists, edges
<1> QED
  BY <1>1, <1>2

(* Splitting, at the front or behind it.                                   *)
LEMMA SplitTyped ==
  ASSUME TypeOK, EdgesTyped', NEW i \in Insts, NEW r \in Blocks \ made,
         NEW j \in Jump \ made, NEW u \in Unreachable \ made, split(i, r, j, u)
  PROVE  TypeOK'
<1> DEFINE b    == parent[i]
           list == insts[b]
           size == Len(list)
           last == Ending(b)
           k    == IF i \in Terminators THEN size
                   ELSE CHOOSE n \in DOMAIN list : list[n] = i
           moved   == ToSet(Front(Moved(list, k)))
           atFront == k = 1 /\ moved # {}
           tail    == IF atFront THEN <<u>> \o Front(list) ELSE Moved(list, k)
<1>1. b \in Blocks /\ list # << >> /\ last \in Terminators
  BY ZenonT(30) DEF split, TypeOK
<1>2. /\ list \in Seq(Insts) /\ size \in Nat \ {0} /\ DOMAIN list = 1 .. size
      /\ last \in Insts /\ j \in Insts /\ u \in Insts
  BY <1>1, EndingTyped DEF TypeOK, Insts, Terminators, JumpBases
<1>3. k \in 1 .. size
  <2>1. CASE i \in Terminators
    BY <1>2, <2>1
  <2>2. CASE i \notin Terminators
    <3>1. \E n \in DOMAIN list : list[n] = i
      BY <2>2 DEF split, ToSet
    <3> QED
      BY <1>2, <2>2, <3>1
  <2> QED
    BY <2>1, <2>2
<1>4. Kept(list, k) \o <<j>> \in Seq(Insts) /\ Moved(list, k) \in Seq(Insts)
  BY <1>2, <1>3, ClosedAt, MovedAt DEF Closed
<1>5. tail \in Seq(Insts)
  <2>1. Front(list) \in Seq(Insts)
    BY <1>2 DEF Front
  <2> QED
    BY <1>2, <1>4, <2>1
<1>6. /\ made' = made \cup {r, j} \cup (IF atFront THEN {u} ELSE {})
      /\ insts' = [insts EXCEPT ![b] = Kept(list, k) \o <<j>>, ![r] = tail]
      /\ self_node' = [n \in Insts |-> IF self_node[n] = last THEN j
                                       ELSE IF n = u /\ atFront THEN u ELSE self_node[n]]
      /\ terminator' = [terminator EXCEPT ![b] = j, ![r] = last]
      /\ target' = [target EXCEPT ![j]["default"] = r]
  BY DEF split
<1>7. LET mounted == moved \cup {j} \cup (IF atFront THEN {u} ELSE {last}) IN
      /\ parent' = [n \in Insts |-> IF n = j THEN parent[last]
                                    ELSE IF n \in mounted THEN r ELSE parent[n]]
      /\ status' = [n \in Insts |->
                      IF n \in mounted /\ n \notin Phi THEN "CONNECTED"
                      ELSE IF n \in mounted \cup {last} THEN "DISCONNECTED" ELSE status[n]]
  BY DEF split
<1> HIDE DEF moved, tail, atFront, k
<1>8. parent' \in [Insts -> Blocks \cup {Null}]
  BY <1>1, <1>2, <1>7 DEF TypeOK
<1>9. status' \in [Insts -> {"DISCONNECTED", "CONNECTED", "FINALIZED"}]
  BY <1>7 DEF TypeOK
<1>10. self_node' \in [Insts -> Insts \cup {Null}]
  BY <1>2, <1>6 DEF TypeOK
<1>11. insts' \in [Blocks -> Seq(Insts)] /\ terminator' \in [Blocks -> Terminators \cup {Null}]
  BY <1>1, <1>4, <1>5, <1>6 DEF TypeOK, Terminators, JumpBases
<1>12. made' \subseteq Blocks \cup Terminators
  BY <1>6 DEF TypeOK, Terminators, JumpBases
<1>13. /\ target' \in [Terminators -> [Slots -> Blocks \cup {Null}]]
       /\ \A t \in Terminators : \A s \in Slots \ SlotsOf(t) : target'[t][s] = Null
  BY <1>6, SlotsOfClass DEF TypeOK, Terminators, JumpBases
<1> QED
  BY <1>8, <1>9, <1>10, <1>11, <1>12, <1>13 DEF TypeOK, EdgesTyped

(* The operations on targets change them within the slots of the class.    *)
LEMMA EditTyped ==
  ASSUME TypeOK, EdgesTyped', NEW t \in JumpBases, NEW tg \in [Slots -> Blocks \cup {Null}],
         \A s \in Slots \ SlotsOf(t) : tg[s] = Null,
         target' = [target EXCEPT ![t] = tg],
         UNCHANGED <<made, lists, terminator, parent, status>>
  PROVE  TypeOK'
BY DEF TypeOK, EdgesTyped, lists, Terminators

(* One slot is written.                                                    *)
LEMMA SlotTyped ==
  ASSUME TypeOK, EdgesTyped', NEW t \in JumpBases, NEW q \in Blocks \cup {Null}, NEW s,
         set_slot(t, s, q)
  PROVE  TypeOK'
<1> DEFINE tg == [target[t] EXCEPT ![s] = q]
<1>1. s \in SlotsOf(t) /\ SlotsOf(t) \subseteq Slots /\ t \in Terminators
  BY SlotsOfClass DEF set_slot, Slots, JumpBases, Terminators
<1>2. tg \in [Slots -> Blocks \cup {Null}] /\ \A x \in Slots \ SlotsOf(t) : tg[x] = Null
  BY <1>1 DEF TypeOK
<1>3. /\ target' = [target EXCEPT ![t] = tg]
      /\ UNCHANGED <<made, lists, terminator, parent, status>>
  BY DEF set_slot
<1> QED
  BY <1>2, <1>3, EditTyped

(* Several slots are written alike.                                        *)
LEMMA ClearTyped ==
  ASSUME TypeOK, EdgesTyped', NEW t \in JumpBases, NEW S, NEW q \in Blocks \cup {Null},
         q # Null => \A s \in S \cap Slots : target[t][s] # Null,
         target' = [target EXCEPT ![t] = [s \in Slots |-> IF s \in S THEN q ELSE @[s]]],
         UNCHANGED <<made, lists, terminator, parent, status>>
  PROVE  TypeOK'
<1> DEFINE tg == [s \in Slots |-> IF s \in S THEN q ELSE target[t][s]]
<1>1. t \in Terminators
  BY DEF Terminators
<1>2. tg \in [Slots -> Blocks \cup {Null}] /\ \A x \in Slots \ SlotsOf(t) : tg[x] = Null
  BY <1>1 DEF TypeOK
<1> QED
  BY <1>2, EditTyped

(* The targets of a branch change places.                                  *)
LEMMA SwapTyped ==
  ASSUME TypeOK, EdgesTyped', NEW t \in JumpBases, swapTargets(t)
  PROVE  TypeOK'
<1> DEFINE tg == [target[t] EXCEPT !["default"] = target[t]["true"],
                                   !["true"] = target[t]["default"]]
<1>1. t \in Branch /\ t \in Terminators /\ {"default", "true"} \subseteq Slots
  BY DEF swapTargets, JumpBases, Terminators, Slots
<1>2. tg \in [Slots -> Blocks \cup {Null}] /\ \A x \in Slots \ SlotsOf(t) : tg[x] = Null
  <2>1. target[t] \in [Slots -> Blocks \cup {Null}]
    BY <1>1 DEF TypeOK
  <2>2. SlotsOf(t) = {"default", "true"} /\ \A x \in Slots \ SlotsOf(t) : target[t][x] = Null
    BY <1>1, SlotsOfClass DEF TypeOK
  <2> QED
    BY <1>1, <2>1, <2>2
<1>3. target' = [target EXCEPT ![t] = tg]
  BY <1>1 DEF swapTargets, TypeOK
<1> QED
  BY <1>2, <1>3, EditTyped DEF swapTargets

(* Every step keeps the types; that counts are natural is IInv.            *)
LEMMA NextTyped == TypeOK /\ IInv /\ [Next]_vars => TypeOK'
<1> SUFFICES ASSUME TypeOK, IInv, [Next]_vars PROVE TypeOK'
  OBVIOUS
<1>1. EdgesTyped'
  BY NextIInv DEF IInv, Sound, Graph, EdgesTyped
<1>2. MadeBlocks \subseteq Blocks /\ MadeBlocks \cup {Null} \subseteq Blocks \cup {Null}
  BY DEF MadeBlocks
<1>3. CASE UNCHANGED vars
  BY <1>3 DEF vars, TypeOK, lists, edges
<1>4. ASSUME NEW t \in JumpBases, NEW X \in SUBSET MadeBlocks,
             remove_target(t, X) \/ switch_remove_if(t, X)
      PROVE  TypeOK'
  <2>1. CASE remove_target(t, X)
    BY <1>1, <2>1, ClearTyped DEF remove_target
  <2>2. CASE switch_remove_if(t, X)
    BY <1>1, <2>2, ClearTyped DEF switch_remove_if
  <2> QED
    BY <1>4, <2>1, <2>2
<1>5. ASSUME NEW t \in JumpBases, NEW old \in MadeBlocks, NEW q \in MadeBlocks,
             NEW S, replace_target(t, S, old, q)
      PROVE  TypeOK'
  <2>1. old # Null /\ \A s \in S : target[t][s] = old
    BY <1>2, <1>5, ClassesAssumption DEF replace_target
  <2> QED
    BY <1>1, <1>2, <1>5, <2>1, ClearTyped DEF replace_target
<1>6. ASSUME NEW t \in JumpBases, clean_jump(t) \/ clean_branch(t) \/ clean_switch(t)
      PROVE  TypeOK'
  <2>1. ASSUME NEW S, clean_slots(t, S) PROVE TypeOK'
    BY <1>1, <2>1, ClearTyped DEF clean_slots
  <2> QED
    BY <1>6, <2>1 DEF clean_jump, clean_branch, clean_switch
<1>7. ASSUME NEW t \in JumpBases, NEW q \in MadeBlocks \cup {Null}, NEW c,
             \/ set_default_target(t, q) \/ set_if_true(t, q)
             \/ setCase(t, c, q) \/ removeCase(t, c)
      PROVE  TypeOK'
  BY <1>1, <1>2, <1>7, SlotTyped DEF set_default_target, set_if_true, setCase, removeCase
<1>8. CASE Next
  <2>1. CASE \/ \E t \in Jump, p, q \in MadeBlocks : NewJump(t, p, q)
             \/ \E t \in Branch, p, q \in MadeBlocks : NewBranch(t, p, q)
             \/ \E t \in Switch, q \in MadeBlocks, cases \in [Cases -> MadeBlocks \cup {Null}] :
                  NewSwitch(t, q, cases)
    BY <2>1, NewTerminatorTyped
  <2>2. CASE \/ \E b \in Blocks, t \in Terminators : NewBlock(b, t)
             \/ \E t \in Terminators : Release(t)
             \/ \E b \in MadeBlocks, t \in Terminators : set_terminator(b, t)
    BY <1>1, <1>2, <2>2, NewBlockTyped, ReleaseTyped, SetTerminatorTyped
  <2>3. CASE \/ \E b \in MadeBlocks, i \in Plain \cup Phi : append(b, i) \/ prepend(b, i)
             \/ \E at \in Insts, i \in Plain \cup Phi : append_to(at, i) \/ prepend_to(at, i)
    <3>1. CASE \E b \in MadeBlocks, i \in Plain \cup Phi : append(b, i) \/ prepend(b, i)
      <4>1. PICK b \in MadeBlocks, i \in Plain \cup Phi : append(b, i) \/ prepend(b, i)
        BY <3>1
      <4>2. i \in Insts
        BY DEF Insts
      <4> QED
        BY <1>2, <4>1, <4>2, AppendTyped
    <3>2. CASE \E at \in Insts, i \in Plain \cup Phi : append_to(at, i) \/ prepend_to(at, i)
      <4>1. PICK at \in Insts, i \in Plain \cup Phi : append_to(at, i) \/ prepend_to(at, i)
        BY <3>2
      <4>2. PICK b \in Blocks : TRUE
        BY <4>1 DEF append_to, prepend_to
      <4> QED
        BY <4>1, <4>2, AppendTyped
    <3> QED
      BY <2>3, <3>1, <3>2
  <2>4. CASE \E i \in Insts, st \in {"DISCONNECTED", "FINALIZED"} : unplugThis(i, st)
    BY <2>4, UnplugTyped
  <2>5. CASE \E b \in MadeBlocks, i \in Plain \cup Phi :
               \E k \in DOMAIN insts[b] : replace_this(b, k, i)
    BY <1>2, <2>5, ReplaceThisTyped
  <2>6. CASE \E i \in Insts, r \in Blocks \ made, j \in Jump \ made, u \in Unreachable \ made :
               split(i, r, j, u)
    BY <1>1, <2>6, SplitTyped
  <2>7. CASE \/ \E t \in JumpBases, q \in MadeBlocks \cup {Null} :
                  set_default_target(t, q) \/ set_if_true(t, q)
             \/ \E t \in Switch, c \in Cases :
                  removeCase(t, c) \/ \E q \in MadeBlocks : setCase(t, c, q)
    BY <1>7, <2>7 DEF JumpBases
  <2>8. CASE \E t \in JumpBases, X \in SUBSET MadeBlocks :
               remove_target(t, X) \/ switch_remove_if(t, X)
    BY <1>4, <2>8
  <2>9. CASE \E t \in JumpBases, old, q \in MadeBlocks :
               \E S \in Replaced(t, old) : replace_target(t, S, old, q)
    BY <1>5, <2>9
  <2>10. CASE \E t \in JumpBases :
                swapTargets(t) \/ clean_jump(t) \/ clean_branch(t) \/ clean_switch(t)
    BY <1>1, <1>6, <2>10, SwapTyped
  <2> QED
    BY <1>8, <2>1, <2>2, <2>3, <2>4, <2>5, <2>6, <2>7, <2>8, <2>9, <2>10 DEF Next
<1> QED
  BY <1>3, <1>8

(* No sequence of calls, whatever it breaks, makes a count negative, gives *)
(* a terminator a target in a slot of another class or leaves anything but *)
(* instructions in a list.                                                 *)
THEOREM AlwaysTyped == Spec => []TypeOK
BY InitTyped, AlwaysSound, NextTyped, PTL DEF Spec

-----------------------------------------------------------------------------
(* Lists and their owners.                                                 *)

(***************************************************************************)
(* The calls that leave an instruction in two places, or in none with a    *)
(* status that says otherwise, are not made.                               *)
(***************************************************************************)
ListsRespected ==
  Calls \cap {"split_front", "unplug_ending", "after_ending", "adopt_connected",
              "phi_remount", "replace_plain"} = {}

(***************************************************************************)
(* What WellFormedBlocks and SingleOwner need to be inductive: only blocks *)
(* that exist have lists, only terminators that exist are in them, and no  *)
(* proxy of a terminator points to the node of another class.              *)
(***************************************************************************)
Founded ==
  /\ \A b \in Blocks \ made : insts[b] = << >>
  /\ \A t \in Terminators : Listed(t) => t \in made
  /\ \A t \in Terminators : self_node[t] \in Terminators \cup {Null}

Placed == TypeOK /\ Founded /\ WellFormedBlocks /\ SingleOwner

(* Facts about a state in which every instruction is placed.               *)
LEMMA PlacedFacts ==
  ASSUME Placed
  PROVE  /\ \A b \in Blocks : insts[b] \in Seq(Insts) /\ Len(insts[b]) \in Nat
                              /\ DOMAIN insts[b] = 1 .. Len(insts[b])
         /\ \A b \in Blocks : insts[b] # << >> => b \in MadeBlocks /\ Ending(b) = terminator[b]
         /\ \A b \in Blocks : insts[b] # << >> =>
              /\ Len(insts[b]) \in 1 .. Len(insts[b]) /\ Ending(b) \in Terminators
              /\ parent[Ending(b)] = b /\ Listed(Ending(b))
         /\ \A b \in Blocks : \A k \in DOMAIN insts[b] :
              /\ insts[b] # << >> /\ insts[b][k] \in Insts
              /\ insts[b][k] \in Terminators => k = Len(insts[b])
<1>1. ASSUME NEW b \in Blocks
      PROVE  insts[b] \in Seq(Insts) /\ Len(insts[b]) \in Nat /\ DOMAIN insts[b] = 1 .. Len(insts[b])
  BY DEF Placed, TypeOK
<1>2. ASSUME NEW b \in Blocks, insts[b] # << >>
      PROVE  b \in MadeBlocks /\ Ending(b) = terminator[b]
  BY <1>2 DEF Placed, Founded, WellFormedBlocks, MadeBlocks, Last, Ending
<1>3. ASSUME NEW b \in Blocks, insts[b] # << >>
      PROVE  /\ Len(insts[b]) \in 1 .. Len(insts[b]) /\ Ending(b) \in Terminators
             /\ parent[Ending(b)] = b /\ Listed(Ending(b))
  <2>1. Len(insts[b]) \in DOMAIN insts[b]
    BY <1>1, <1>3
  <2> QED
    BY <1>1, <1>2, <1>3, <2>1 DEF Placed, WellFormedBlocks, SingleOwner, Ending, Listed
<1>4. ASSUME NEW b \in Blocks, NEW k \in DOMAIN insts[b]
      PROVE  /\ insts[b] # << >> /\ insts[b][k] \in Insts
             /\ insts[b][k] \in Terminators => k = Len(insts[b])
  BY <1>1, <1>2 DEF Placed, WellFormedBlocks
<1> QED
  BY <1>1, <1>2, <1>3, <1>4

(* Nothing is listed that has no type.                                     *)
LEMMA InitPlaced == Init => Placed
BY InitTyped DEF Init, Placed, Founded, WellFormedBlocks, SingleOwner, Listed, MadeBlocks,
                 Insts, Terminators, JumpBases

(* Operations on the targets.                                              *)
LEMMA EditPlaced ==
  ASSUME Placed, TypeOK', UNCHANGED <<made, lists, terminator, parent, status>>
  PROVE  Placed'
BY DEF Placed, Founded, WellFormedBlocks, SingleOwner, Listed, MadeBlocks, lists

(* Making and destroying terminators that are in no list.                  *)
LEMMA OutsidePlaced ==
  ASSUME Placed, TypeOK', NEW t \in Terminators, ~Listed(t),
         UNCHANGED <<insts, terminator>>,
         made' \in {made \cup {t}, made \ {t}},
         \A x \in Insts \ {t} :
           /\ parent'[x] = parent[x] /\ status'[x] = status[x] /\ self_node'[x] = self_node[x],
         status'[t] # "CONNECTED", self_node'[t] \in Terminators \cup {Null}
  PROVE  Placed'
<1>1. t \in Insts /\ t \notin Blocks /\ t \notin Plain \cup Phi
  BY ClassesAssumption DEF Insts
<1>2. MadeBlocks' = MadeBlocks /\ \A b \in Blocks : b \in made' <=> b \in made
  BY <1>1 DEF MadeBlocks
<1>3. \A x : Listed(x)' <=> Listed(x)
  BY DEF Listed
<1>4. Founded'
  BY <1>2, <1>3 DEF Placed, Founded, Insts
<1>5. WellFormedBlocks'
  BY <1>2 DEF Placed, WellFormedBlocks
<1>6. SingleOwner'
  <2>1. \A b \in Blocks : \A k \in DOMAIN insts[b] : insts[b][k] \in Insts \ {t}
    BY PlacedFacts DEF Listed
  <2>2. \A b \in Blocks : \A k \in DOMAIN insts'[b] : parent'[insts'[b][k]] = b
    BY <2>1 DEF Placed, SingleOwner
  <2>3. \A x \in Insts \ Phi : Listed(x)' <=> status'[x] = "CONNECTED"
    BY <1>3 DEF Placed, SingleOwner
  <2>4. \A x \in Plain \cup Phi : self_node'[x] = IF Listed(x)' THEN x ELSE Null
    BY <1>1, <1>3 DEF Placed, SingleOwner, Insts
  <2> QED
    BY <2>2, <2>3, <2>4 DEF Placed, SingleOwner
<1> QED
  BY <1>4, <1>5, <1>6 DEF Placed

(* Insertion before the end of a list.                                     *)
LEMMA InsertPlaced ==
  ASSUME Placed, TypeOK', NEW b \in Blocks, NEW k \in 1 .. Len(insts[b]), NEW i,
         ~Listed(i), InsertInto(b, k, i)
  PROVE  Placed'
<1> DEFINE size == Len(insts[b])
           old(c, m) == IF c = b /\ m > k THEN m - 1 ELSE m
           new(c, m) == IF c = b /\ m >= k THEN m + 1 ELSE m
<1>1. /\ insts[b] \in Seq(Insts) /\ i \in Insts /\ i \notin Terminators /\ insts[b] # << >>
      /\ i \in Plain \cup Phi /\ size \in Nat
      /\ insts' = [insts EXCEPT ![b] = InsertAt(insts[b], k, i)]
      /\ UNCHANGED <<made, terminator>>
  BY ClassesAssumption DEF InsertInto, Placed, TypeOK, Insts
<1>2. /\ insts'[b] \in Seq(Insts) /\ Len(insts'[b]) = size + 1 /\ DOMAIN insts'[b] = 1 .. size + 1
      /\ \A n \in 1 .. size + 1 :
           insts'[b][n] = IF n < k THEN insts[b][n] ELSE IF n = k THEN i ELSE insts[b][n - 1]
  <2> DEFINE t == InsertAt(insts[b], k, i)
  <2>1. insts'[b] = t
    BY <1>1 DEF Placed, TypeOK
  <2>2. /\ t \in Seq(Insts) /\ Len(t) = size + 1
        /\ \A n \in 1 .. size + 1 :
             t[n] = IF n < k THEN insts[b][n] ELSE IF n = k THEN i ELSE insts[b][n - 1]
    <3>1. PICK s \in Seq(Insts) : s = insts[b] /\ size = Len(s)
      BY <1>1
    <3>2. k \in 1 .. Len(s) + 1 /\ i \in Insts
      BY <1>1, <3>1
    <3>3. /\ InsertAt(s, k, i) \in Seq(Insts) /\ Len(InsertAt(s, k, i)) = Len(s) + 1
          /\ \A n \in 1 .. Len(s) + 1 :
               InsertAt(s, k, i)[n] = IF n < k THEN s[n] ELSE IF n = k THEN i ELSE s[n - 1]
      BY <3>2, InsertedAt
    <3> QED
      BY <3>1, <3>3
  <2> HIDE DEF t
  <2>3. DOMAIN t = 1 .. size + 1
    BY <2>2
  <2> QED
    BY <2>1, <2>2, <2>3
<1>3. \A c \in Blocks \ {b} : insts'[c] = insts[c]
  BY <1>1 DEF Placed, TypeOK
<1>4. ASSUME NEW c \in Blocks, NEW m \in DOMAIN insts'[c], c # b \/ m # k
      PROVE  old(c, m) \in DOMAIN insts[c] /\ insts'[c][m] = insts[c][old(c, m)]
  <2>1. CASE c = b
    <3>1. m \in 1 .. size + 1 /\ m # k /\ DOMAIN insts[b] = 1 .. size
      BY <1>2, <1>4, <2>1, PlacedFacts
    <3>2. CASE m < k
      BY <1>2, <2>1, <3>1, <3>2
    <3>3. CASE m > k
      BY <1>2, <2>1, <3>1, <3>3
    <3> QED
      BY <3>1, <3>2, <3>3
  <2>2. CASE c # b
    BY <1>3, <2>2
  <2> QED
    BY <2>1, <2>2
<1>5. ASSUME NEW c \in Blocks, NEW m \in DOMAIN insts[c]
      PROVE  new(c, m) \in DOMAIN insts'[c] /\ insts'[c][new(c, m)] = insts[c][m]
  <2>1. CASE c = b
    <3>1. m \in 1 .. size
      BY <2>1, PlacedFacts
    <3>2. CASE m < k
      BY <1>1, <1>2, <2>1, <3>1, <3>2
    <3>3. CASE m >= k
      <4>1. m + 1 \in 1 .. size + 1 /\ m + 1 > k /\ (m + 1) - 1 = m
        BY <1>1, <3>1, <3>3
      <4>2. insts'[b][m + 1] = insts[b][(m + 1) - 1]
        BY <1>2, <4>1
      <4> QED
        BY <1>2, <2>1, <3>3, <4>1, <4>2
    <3> QED
      BY <3>1, <3>2, <3>3
  <2>2. CASE c # b
    BY <1>3, <2>2
  <2> QED
    BY <2>1, <2>2
<1>6. \A x : Listed(x)' <=> Listed(x) \/ x = i
  <2>1. ASSUME NEW x, Listed(x)' PROVE Listed(x) \/ x = i
    <3>1. PICK c \in Blocks : \E m \in DOMAIN insts'[c] : insts'[c][m] = x
      BY <2>1 DEF Listed
    <3>2. PICK m \in DOMAIN insts'[c] : insts'[c][m] = x
      BY <3>1
    <3>3. CASE c = b /\ m = k
      BY <1>2, <3>2, <3>3
    <3>4. CASE c # b \/ m # k
      BY <1>4, <3>2, <3>4 DEF Listed
    <3> QED
      BY <3>3, <3>4
  <2>2. ASSUME NEW x, Listed(x) PROVE Listed(x)'
    BY <1>5, <2>2 DEF Listed
  <2>3. Listed(i)'
    BY <1>1, <1>2 DEF Listed
  <2> QED
    BY <2>1, <2>2, <2>3
<1>7. \A c, d \in Blocks : \A m \in DOMAIN insts'[c], n \in DOMAIN insts'[d] :
        insts'[c][m] = insts'[d][n] => c = d /\ m = n
  <2> SUFFICES ASSUME NEW c \in Blocks, NEW d \in Blocks,
                      NEW m \in DOMAIN insts'[c], NEW n \in DOMAIN insts'[d],
                      insts'[c][m] = insts'[d][n]
               PROVE  c = d /\ m = n
    OBVIOUS
  <2>1. CASE (c # b \/ m # k) /\ (d # b \/ n # k)
    <3>1. insts[c][old(c, m)] = insts[d][old(d, n)]
      BY <1>4, <2>1
    <3>2. c = d /\ old(c, m) = old(d, n)
      BY <1>4, <2>1, <3>1 DEF Placed, SingleOwner
    <3>3. m \in Int /\ n \in Int
      BY <1>2, <1>3, PlacedFacts
    <3> QED
      BY <2>1, <3>2, <3>3
  <2>2. CASE c = b /\ m = k /\ (d # b \/ n # k)
    <3>1. Listed(i)
      BY <1>2, <1>4, <2>2 DEF Listed
    <3> QED
      BY <3>1
  <2>3. CASE d = b /\ n = k /\ (c # b \/ m # k)
    <3>1. Listed(i)
      BY <1>2, <1>4, <2>3 DEF Listed
    <3> QED
      BY <3>1
  <2> QED
    BY <2>1, <2>2, <2>3
<1>8. /\ parent' = [parent EXCEPT ![i] = b] /\ self_node' = [self_node EXCEPT ![i] = i]
      /\ status' = [status EXCEPT ![i] = Plugged(i)]
  BY <1>1, PlacedFacts DEF InsertInto, ListParent
<1>9. Founded'
  BY <1>1, <1>3, <1>6, <1>8 DEF Placed, Founded, TypeOK, Insts
<1>10. WellFormedBlocks'
  <2> SUFFICES ASSUME NEW c \in MadeBlocks
               PROVE  /\ insts'[c] # << >> /\ Last(insts'[c]) = terminator'[c]
                      /\ \A m \in DOMAIN insts'[c] : insts'[c][m] \in Terminators <=> m = Len(insts'[c])
    BY <1>1 DEF WellFormedBlocks, MadeBlocks
  <2>1. CASE c = b
    <3>1. insts'[b] # << >> /\ Last(insts'[b]) = insts[b][size]
      BY <1>1, <1>2 DEF Last
    <3>2. Last(insts[b]) = insts[b][size] /\ Last(insts[b]) = terminator[b]
      BY <2>1 DEF Placed, WellFormedBlocks, Last
    <3>3. ASSUME NEW m \in 1 .. size + 1
          PROVE  insts'[b][m] \in Terminators <=> m = size + 1
      <4>1. \A n \in 1 .. size : insts[b][n] \in Terminators <=> n = size
        BY <2>1, PlacedFacts DEF Placed, WellFormedBlocks
      <4> QED
        BY <1>1, <1>2, <4>1
    <3> QED
      BY <1>1, <1>2, <2>1, <3>1, <3>2, <3>3
  <2>2. CASE c # b
    BY <1>1, <1>3, <2>2 DEF Placed, WellFormedBlocks, MadeBlocks
  <2> QED
    BY <2>1, <2>2
<1>11. SingleOwner'
  <2>1. \A c \in Blocks : \A m \in DOMAIN insts'[c] : parent'[insts'[c][m]] = c
    <3> SUFFICES ASSUME NEW c \in Blocks, NEW m \in DOMAIN insts'[c]
                 PROVE  parent'[insts'[c][m]] = c
      OBVIOUS
    <3>1. CASE c = b /\ m = k
      BY <1>1, <1>2, <1>8, <3>1 DEF Placed, TypeOK
    <3>2. CASE c # b \/ m # k
      <4>1. insts'[c][m] # i /\ insts'[c][m] \in Insts /\ parent[insts'[c][m]] = c
        BY <1>4, <3>2, PlacedFacts DEF Listed, Placed, SingleOwner
      <4> QED
        BY <1>8, <4>1 DEF Placed, TypeOK
    <3> QED
      BY <3>1, <3>2
  <2>2. \A x \in Insts \ Phi : Listed(x)' <=> status'[x] = "CONNECTED"
    BY <1>1, <1>6, <1>8 DEF Placed, SingleOwner, TypeOK, Plugged
  <2>3. \A x \in Plain \cup Phi : self_node'[x] = IF Listed(x)' THEN x ELSE Null
    BY <1>1, <1>6, <1>8 DEF Placed, SingleOwner, TypeOK, Insts
  <2> QED
    BY <1>7, <2>1, <2>2, <2>3 DEF SingleOwner
<1> QED
  BY <1>9, <1>10, <1>11 DEF Placed

(* Removal of an instruction that does not end its list.                   *)
LEMMA RemovePlaced ==
  ASSUME Placed, TypeOK', NEW b \in Blocks, NEW k \in DOMAIN insts[b], NEW i \in Plain \cup Phi,
         NEW st \in {"DISCONNECTED", "FINALIZED"},
         insts[b][k] = i, insts' = [insts EXCEPT ![b] = RemoveAt(@, k)],
         self_node' = [self_node EXCEPT ![i] = Null],
         status' = [status EXCEPT ![i] = st],
         UNCHANGED <<made, terminator, parent>>
  PROVE  Placed'
<1> DEFINE size == Len(insts[b])
           old(c, m) == IF c = b /\ m >= k THEN m + 1 ELSE m
           new(c, m) == IF c = b /\ m > k THEN m - 1 ELSE m
<1>1. /\ insts[b] \in Seq(Insts) /\ i \in Insts /\ i \notin Terminators /\ b \in MadeBlocks
      /\ size \in Nat /\ DOMAIN insts[b] = 1 .. size /\ k \in 1 .. size
  BY PlacedFacts, ClassesAssumption DEF Insts
<1>2. k < size
  BY <1>1, PlacedFacts DEF Placed, WellFormedBlocks
<1>3. /\ insts'[b] \in Seq(Insts) /\ Len(insts'[b]) = size - 1 /\ DOMAIN insts'[b] = 1 .. size - 1
      /\ \A n \in 1 .. size - 1 :
           insts'[b][n] = IF n < k THEN insts[b][n] ELSE insts[b][n + 1]
  <2> DEFINE t == RemoveAt(insts[b], k)
  <2>1. insts'[b] = t
    BY <1>1 DEF Placed, TypeOK
  <2>2. /\ t \in Seq(Insts) /\ Len(t) = size - 1
        /\ \A n \in 1 .. size - 1 : t[n] = IF n < k THEN insts[b][n] ELSE insts[b][n + 1]
    BY <1>1, RemovedAt
  <2> HIDE DEF t
  <2>3. DOMAIN t = 1 .. size - 1
    BY <2>2
  <2> QED
    BY <2>1, <2>2, <2>3
<1>4. \A c \in Blocks \ {b} : insts'[c] = insts[c]
  BY <1>1 DEF Placed, TypeOK
<1>5. ASSUME NEW c \in Blocks, NEW m \in DOMAIN insts'[c]
      PROVE  /\ old(c, m) \in DOMAIN insts[c] /\ insts'[c][m] = insts[c][old(c, m)]
             /\ insts'[c][m] # i
  <2>1. old(c, m) \in DOMAIN insts[c] /\ insts'[c][m] = insts[c][old(c, m)]
    <3>1. CASE c = b
      <4>1. m \in 1 .. size - 1
        BY <1>3, <3>1
      <4>2. CASE m < k
        BY <1>1, <1>3, <3>1, <4>1, <4>2, SMTT(30)
      <4>3. CASE m >= k
        BY <1>1, <1>3, <3>1, <4>1, <4>3
      <4> QED
        BY <1>1, <4>1, <4>2, <4>3
    <3>2. CASE c # b
      BY <1>4, <3>2
    <3> QED
      BY <3>1, <3>2
  <2>2. old(c, m) # k \/ c # b
    BY <1>1, <1>3
  <2> QED
    BY <2>1, <2>2 DEF Placed, SingleOwner
<1>6. ASSUME NEW c \in Blocks, NEW m \in DOMAIN insts[c], c # b \/ m # k
      PROVE  new(c, m) \in DOMAIN insts'[c] /\ insts'[c][new(c, m)] = insts[c][m]
  <2>1. CASE c = b
    <3>1. m \in 1 .. size /\ m # k
      BY <1>1, <1>6, <2>1
    <3>2. CASE m < k
      BY <1>1, <1>2, <1>3, <2>1, <3>1, <3>2
    <3>3. CASE m > k
      <4>1. m - 1 \in 1 .. size - 1 /\ m - 1 >= k /\ (m - 1) + 1 = m
        BY <1>1, <3>1, <3>3
      <4>2. insts'[b][m - 1] = insts[b][(m - 1) + 1]
        <5> DEFINE n == m - 1
        <5>1. n \in 1 .. size - 1 /\ ~(n < k)
          BY <1>1, <4>1
        <5> HIDE DEF n
        <5>2. insts'[b][n] = insts[b][n + 1]
          BY <1>3, <5>1
        <5> QED
          BY <5>2 DEF n
      <4> QED
        BY <1>3, <2>1, <3>3, <4>1, <4>2
    <3> QED
      BY <1>1, <3>1, <3>2, <3>3
  <2>2. CASE c # b
    BY <1>4, <2>2
  <2> QED
    BY <2>1, <2>2
<1>7. \A x : Listed(x)' <=> Listed(x) /\ x # i
  <2>1. ASSUME NEW x, Listed(x)' PROVE Listed(x) /\ x # i
    <3>1. PICK c \in Blocks : \E m \in DOMAIN insts'[c] : insts'[c][m] = x
      BY <2>1 DEF Listed
    <3>2. PICK m \in DOMAIN insts'[c] : insts'[c][m] = x
      BY <3>1
    <3> QED
      BY <1>5, <3>2 DEF Listed
  <2>2. ASSUME NEW x, Listed(x), x # i PROVE Listed(x)'
    <3>1. PICK c \in Blocks : \E m \in DOMAIN insts[c] : insts[c][m] = x
      BY <2>2 DEF Listed
    <3>2. PICK m \in DOMAIN insts[c] : insts[c][m] = x
      BY <3>1
    <3>3. c # b \/ m # k
      BY <2>2, <3>2
    <3> QED
      BY <1>6, <3>2, <3>3 DEF Listed
  <2> QED
    BY <2>1, <2>2
<1>8. \A c, d \in Blocks : \A m \in DOMAIN insts'[c], n \in DOMAIN insts'[d] :
        insts'[c][m] = insts'[d][n] => c = d /\ m = n
  <2> SUFFICES ASSUME NEW c \in Blocks, NEW d \in Blocks,
                      NEW m \in DOMAIN insts'[c], NEW n \in DOMAIN insts'[d],
                      insts'[c][m] = insts'[d][n]
               PROVE  c = d /\ m = n
    OBVIOUS
  <2>1. c = d /\ old(c, m) = old(d, n)
    BY <1>5 DEF Placed, SingleOwner
  <2>2. CASE c = b
    <3>1. m \in Int /\ n \in Int /\ k \in Int
      BY <1>1, <1>3, <2>1, <2>2
    <3> QED
      BY <2>1, <2>2, <3>1
  <2> QED
    BY <2>1, <2>2
<1>9. Founded'
  BY <1>1, <1>4, <1>7 DEF Placed, Founded, TypeOK, Insts, MadeBlocks
<1>10. WellFormedBlocks'
  <2> SUFFICES ASSUME NEW c \in MadeBlocks
               PROVE  /\ insts'[c] # << >> /\ Last(insts'[c]) = terminator'[c]
                      /\ \A m \in DOMAIN insts'[c] : insts'[c][m] \in Terminators <=> m = Len(insts'[c])
    BY DEF WellFormedBlocks, MadeBlocks
  <2>1. CASE c = b
    <3>1. insts'[b] # << >> /\ Last(insts'[b]) = insts[b][size]
      BY <1>1, <1>2, <1>3 DEF Last
    <3>2. Last(insts[b]) = insts[b][size] /\ Last(insts[b]) = terminator[b]
      BY <2>1 DEF Placed, WellFormedBlocks, Last
    <3>3. ASSUME NEW m \in 1 .. size - 1
          PROVE  insts'[b][m] \in Terminators <=> m = size - 1
      <4>1. \A n \in 1 .. size : insts[b][n] \in Terminators <=> n = size
        BY <2>1, PlacedFacts DEF Placed, WellFormedBlocks
      <4>2. CASE m < k
        BY <1>1, <1>2, <1>3, <4>1, <4>2
      <4>3. CASE m >= k
        <5>1. insts'[b][m] = insts[b][m + 1] /\ m + 1 \in 1 .. size
          BY <1>1, <1>3, <4>3
        <5> QED
          BY <1>1, <4>1, <5>1
      <4> QED
        BY <1>1, <4>2, <4>3
    <3> QED
      BY <1>3, <2>1, <3>1, <3>2, <3>3
  <2>2. CASE c # b
    BY <1>4, <2>2 DEF Placed, WellFormedBlocks, MadeBlocks
  <2> QED
    BY <2>1, <2>2
<1>11. SingleOwner'
  <2>1. \A c \in Blocks : \A m \in DOMAIN insts'[c] : parent'[insts'[c][m]] = c
    BY <1>5 DEF Placed, SingleOwner
  <2>2. \A x \in Insts \ Phi : Listed(x)' <=> status'[x] = "CONNECTED"
    BY <1>1, <1>7 DEF Placed, SingleOwner, TypeOK
  <2>3. \A x \in Plain \cup Phi : self_node'[x] = IF Listed(x)' THEN x ELSE Null
    BY <1>1, <1>7 DEF Placed, SingleOwner, TypeOK, Insts
  <2> QED
    BY <1>8, <2>1, <2>2, <2>3 DEF SingleOwner
<1> QED
  BY <1>9, <1>10, <1>11 DEF Placed

(* No proxy but its own stands on the node of an ordinary instruction.     *)
LEMMA UnplugPlaced ==
  ASSUME ListsRespected, Placed, TypeOK', NEW i \in Insts,
         NEW st \in {"DISCONNECTED", "FINALIZED"}, unplugThis(i, st)
  PROVE  Placed'
<1>1. /\ i \in Terminators => self_node[i] \in Terminators \cup {Null}
      /\ i \notin Terminators => i \in Plain \cup Phi /\ self_node[i] \in {i, Null}
      /\ i \in Plain \cup Phi /\ Listed(i) => self_node[i] = i
  BY DEF Placed, Founded, SingleOwner, Insts
<1>2. Null \notin Insts /\ (Plain \cup Phi) \cap Terminators = {}
  BY ClassesAssumption
<1>3. CASE /\ self_node[i] \in Plain \cup Phi
           /\ \E b \in Blocks : \E k \in DOMAIN insts[b] :
                /\ insts[b][k] = self_node[i]
                /\ insts' = [insts EXCEPT ![b] = RemoveAt(@, k)]
                /\ self_node' = [self_node EXCEPT ![self_node[i]] = Null]
                /\ status' = [status EXCEPT ![self_node[i]] = "DISCONNECTED", ![i] = st]
  <2>1. self_node[i] = i /\ i \in Plain \cup Phi
    BY <1>1, <1>2, <1>3 DEF Insts
  <2>2. [status EXCEPT ![i] = "DISCONNECTED", ![i] = st] = [status EXCEPT ![i] = st]
    BY DEF Placed, TypeOK
  <2>3. PICK b \in Blocks : \E k \in DOMAIN insts[b] :
             /\ insts[b][k] = i /\ insts' = [insts EXCEPT ![b] = RemoveAt(@, k)]
             /\ self_node' = [self_node EXCEPT ![i] = Null]
             /\ status' = [status EXCEPT ![i] = "DISCONNECTED", ![i] = st]
    BY <1>3, <2>1
  <2>4. UNCHANGED <<made, terminator, parent>>
    BY DEF unplugThis
  <2>5. PICK k \in DOMAIN insts[b] :
             /\ insts[b][k] = i /\ insts' = [insts EXCEPT ![b] = RemoveAt(@, k)]
             /\ self_node' = [self_node EXCEPT ![i] = Null]
             /\ status' = [status EXCEPT ![i] = "DISCONNECTED", ![i] = st]
    BY <2>3
  <2>6. status' = [status EXCEPT ![i] = st]
    BY <2>2, <2>5
  <2> QED
    BY <2>1, <2>4, <2>5, <2>6, RemovePlaced
<1>4. CASE /\ Listed(i) /\ self_node[i] \in Terminators \cup {Null}
           /\ i \in Terminators => "unplug_ending" \in Calls
  BY <1>1, <1>2, <1>4 DEF ListsRespected, Insts
<1> QED
  BY <1>3, <1>4 DEF unplugThis

(* A terminator that is in no list begins a new one.                       *)
LEMMA NewBlockPlaced ==
  ASSUME ListsRespected, Placed, TypeOK', NEW b \in Blocks, NEW t \in Terminators, NewBlock(b, t)
  PROVE  Placed'
<1>1. /\ status[t] = "DISCONNECTED" /\ ~Listed(t) /\ b \notin made /\ insts[b] = << >>
      /\ insts' = [insts EXCEPT ![b] = <<t>>] /\ self_node' = [self_node EXCEPT ![t] = t]
      /\ status' = [status EXCEPT ![t] = "CONNECTED"] /\ parent' = [parent EXCEPT ![t] = b]
      /\ terminator' = [terminator EXCEPT ![b] = t] /\ made' = made \cup {b, t}
  BY DEF NewBlock, ListsRespected, Placed, Founded
<1>2. t \in Insts /\ t \notin Blocks /\ t \notin Plain \cup Phi /\ b \notin Terminators
  BY ClassesAssumption DEF Insts
<1>3. /\ insts'[b] = <<t>> /\ \A c \in Blocks \ {b} : insts'[c] = insts[c]
      /\ DOMAIN insts'[b] = {1} /\ insts'[b][1] = t /\ Len(insts'[b]) = 1
  BY <1>1 DEF Placed, TypeOK
<1>4. \A x : Listed(x)' <=> Listed(x) \/ x = t
  BY <1>1, <1>3 DEF Listed
<1>5. MadeBlocks' = MadeBlocks \cup {b}
  BY <1>1, <1>2 DEF MadeBlocks
<1>6. Founded'
  BY <1>1, <1>2, <1>3, <1>4 DEF Placed, Founded, TypeOK
<1>7. WellFormedBlocks'
  <2> SUFFICES ASSUME NEW c \in MadeBlocks'
               PROVE  /\ insts'[c] # << >> /\ Last(insts'[c]) = terminator'[c]
                      /\ \A m \in DOMAIN insts'[c] : insts'[c][m] \in Terminators <=> m = Len(insts'[c])
    BY DEF WellFormedBlocks
  <2>1. CASE c = b
    <3>1. terminator'[b] = t
      BY <1>1 DEF Placed, TypeOK
    <3> QED
      <4>1. insts'[b] # << >> /\ Last(insts'[b]) = t
        BY <1>3 DEF Last
      <4>2. \A m \in DOMAIN insts'[b] : m = 1 /\ insts'[b][m] = t
        BY <1>3
      <4> QED
        BY <1>3, <2>1, <3>1, <4>1, <4>2
  <2>2. CASE c # b
    <3>1. c \in MadeBlocks /\ insts'[c] = insts[c] /\ terminator'[c] = terminator[c]
      BY <1>1, <1>3, <1>5, <2>2 DEF MadeBlocks, Placed, TypeOK
    <3> QED
      BY <3>1 DEF Placed, WellFormedBlocks
  <2> QED
    BY <2>1, <2>2
<1>8. SingleOwner'
  <2>1. \A c \in Blocks \ {b} : \A m \in DOMAIN insts[c] : insts[c][m] # t /\ insts[c][m] \in Insts
    BY <1>1, PlacedFacts DEF Listed
  <2>2. \A c \in Blocks : \A m \in DOMAIN insts'[c] : parent'[insts'[c][m]] = c
    BY <1>1, <1>2, <1>3, <2>1, SMTT(30) DEF Placed, SingleOwner, TypeOK
  <2>3. \A x \in Insts \ Phi : Listed(x)' <=> status'[x] = "CONNECTED"
    BY <1>1, <1>2, <1>4 DEF Placed, SingleOwner, TypeOK
  <2>4. \A x \in Plain \cup Phi : self_node'[x] = IF Listed(x)' THEN x ELSE Null
    BY <1>1, <1>2, <1>4 DEF Placed, SingleOwner, TypeOK, Insts
  <2>5. \A c, d \in Blocks : \A m \in DOMAIN insts'[c], n \in DOMAIN insts'[d] :
          insts'[c][m] = insts'[d][n] => c = d /\ m = n
    BY <1>3, <2>1 DEF Placed, SingleOwner
  <2> QED
    BY <2>2, <2>3, <2>4, <2>5 DEF SingleOwner
<1> QED
  BY <1>6, <1>7, <1>8 DEF Placed

(* A terminator that is in no list takes the place of another.             *)
LEMMA SetTerminatorPlaced ==
  ASSUME ListsRespected, Placed, TypeOK', NEW b \in MadeBlocks, NEW t \in Terminators,
         set_terminator(b, t)
  PROVE  Placed'
<1> DEFINE size == Len(insts[b])
           old  == Ending(b)
<1>1. /\ b \in Blocks /\ insts[b] # << >> /\ DOMAIN insts[b] = 1 .. size /\ size \in 1 .. size
      /\ old \in Terminators /\ old # t /\ parent[old] = b /\ Listed(old) /\ old = insts[b][size]
      /\ status[t] = "DISCONNECTED" /\ ~Listed(t) /\ t \in made
  BY PlacedFacts DEF set_terminator, ListsRespected, MadeBlocks, Ending
<1>2. /\ insts' = [insts EXCEPT ![b][size] = t]
      /\ self_node' = [j \in Insts |-> IF self_node[j] = old THEN t ELSE self_node[j]]
      /\ parent' = [parent EXCEPT ![t] = b]
      /\ status' = [status EXCEPT ![old] = "DISCONNECTED", ![t] = "CONNECTED"]
      /\ terminator' = [terminator EXCEPT ![b] = t] /\ UNCHANGED made
  BY <1>1 DEF set_terminator
<1>3. /\ t \in Insts /\ t \notin Plain \cup Phi /\ old \in Insts /\ old \notin Plain \cup Phi
      /\ old # Null
  BY <1>1, ClassesAssumption DEF Insts
<1>4. /\ \A c \in Blocks : DOMAIN insts'[c] = DOMAIN insts[c]
      /\ insts'[b][size] = t /\ insts'[b] # << >> /\ Len(insts'[b]) = size
      /\ \A c \in Blocks : \A m \in DOMAIN insts[c] :
           c # b \/ m # size => insts'[c][m] = insts[c][m]
  <2>1. insts'[b] = [insts[b] EXCEPT ![size] = t] /\ \A c \in Blocks \ {b} : insts'[c] = insts[c]
    BY <1>1, <1>2 DEF Placed, TypeOK
  <2>2. insts[b] \in Seq(Insts)
    BY <1>1 DEF Placed, TypeOK
  <2>3. insts'[b] \in Seq(Insts) /\ Len(insts'[b]) = size
    BY <1>1, <1>3, <2>1, <2>2, ExceptSeq
  <2> QED
    BY <1>1, <2>1, <2>2, <2>3
<1>5. \A c \in Blocks : \A m \in DOMAIN insts[c] :
        /\ insts[c][m] # t /\ insts[c][m] \in Insts
        /\ c # b \/ m # size => insts[c][m] # old
  BY <1>1, PlacedFacts DEF Listed, Placed, SingleOwner
<1>6. \A x : Listed(x)' <=> (Listed(x) /\ x # old) \/ x = t
  <2>1. ASSUME NEW x, Listed(x)' PROVE (Listed(x) /\ x # old) \/ x = t
    BY <1>4, <1>5, <2>1 DEF Listed
  <2>2. ASSUME NEW x, Listed(x), x # old PROVE Listed(x)'
    BY <1>1, <1>4, <2>2 DEF Listed
  <2>3. Listed(t)'
    BY <1>1, <1>4 DEF Listed
  <2> QED
    BY <2>1, <2>2, <2>3
<1>7. Founded'
  BY <1>1, <1>2, <1>3, <1>4, <1>6 DEF Placed, Founded, TypeOK, MadeBlocks, Insts
<1>8. WellFormedBlocks'
  <2> SUFFICES ASSUME NEW c \in MadeBlocks
               PROVE  /\ insts'[c] # << >> /\ Last(insts'[c]) = terminator'[c]
                      /\ \A m \in DOMAIN insts'[c] : insts'[c][m] \in Terminators <=> m = Len(insts'[c])
    BY <1>2 DEF WellFormedBlocks, MadeBlocks
  <2>1. CASE c = b
    <3>1. Last(insts'[b]) = t /\ terminator'[b] = t
      BY <1>1, <1>2, <1>4 DEF Placed, TypeOK, Last
    <3>2. \A m \in 1 .. size : insts[b][m] \in Terminators <=> m = size
      BY <1>1, <2>1 DEF Placed, WellFormedBlocks
    <3> QED
      BY <1>1, <1>4, <2>1, <3>1, <3>2
  <2>2. CASE c # b
    <3>1. insts'[c] = insts[c] /\ terminator'[c] = terminator[c]
      BY <1>2, <2>2 DEF MadeBlocks, Placed, TypeOK
    <3> QED
      BY <3>1 DEF Placed, WellFormedBlocks
  <2> QED
    BY <2>1, <2>2
<1>9. SingleOwner'
  <2>1. \A c \in Blocks : \A m \in DOMAIN insts'[c] : parent'[insts'[c][m]] = c
    BY <1>1, <1>2, <1>3, <1>4, <1>5, SMTT(30) DEF Placed, SingleOwner, TypeOK
  <2>2. \A x \in Insts \ Phi : Listed(x)' <=> status'[x] = "CONNECTED"
    BY <1>1, <1>2, <1>3, <1>6 DEF Placed, SingleOwner, TypeOK
  <2>3. \A x \in Plain \cup Phi : self_node'[x] = IF Listed(x)' THEN x ELSE Null
    BY <1>2, <1>3, <1>6 DEF Placed, SingleOwner, TypeOK, Insts
  <2>4. \A c, d \in Blocks : \A m \in DOMAIN insts'[c], n \in DOMAIN insts'[d] :
          insts'[c][m] = insts'[d][n] => c = d /\ m = n
    BY <1>4, <1>5 DEF Placed, SingleOwner
  <2> QED
    BY <2>1, <2>2, <2>3, <2>4 DEF SingleOwner
<1> QED
  BY <1>7, <1>8, <1>9 DEF Placed

(***************************************************************************)
(* What a split does that does not begin at the front of a block: the list *)
(* of b is cut before position k, the new jump j ends the first part and   *)
(* the second part becomes the list of r.                                  *)
(***************************************************************************)
Cut(b, k, r, j) ==
  LET last   == Ending(b)
      behind == {insts[b][n] : n \in k .. Len(insts[b])}
  IN
  /\ insts' = [insts EXCEPT ![b] = Kept(insts[b], k) \o <<j>>, ![r] = Moved(insts[b], k)]
  /\ made' = made \cup {r, j}
  /\ terminator' = [terminator EXCEPT ![b] = j, ![r] = last]
  /\ target' = [target EXCEPT ![j]["default"] = r]
  /\ self_node' = [n \in Insts |-> IF self_node[n] = last THEN j ELSE self_node[n]]
  /\ parent' = [n \in Insts |-> IF n = j THEN b ELSE IF n \in behind THEN r ELSE parent[n]]
  /\ status' = [n \in Insts |-> IF n \in behind \cup {j} /\ n \notin Phi THEN "CONNECTED"
                                ELSE IF n \in behind THEN "DISCONNECTED" ELSE status[n]]
  /\ SetGraph(Register(Register(UnplugGraph(Graph, last), b, One(r)), r, Targets(last)))

(* A split that is not at the front cuts the list, and does no more.       *)
LEMMA SplitCuts ==
  ASSUME ListsRespected, Placed, NEW i \in Insts, NEW r \in Blocks \ made,
         NEW j \in Jump \ made, NEW u \in Unreachable \ made, split(i, r, j, u)
  PROVE  \E b \in MadeBlocks : \E k \in 1 .. Len(insts[b]) : Cut(b, k, r, j)
<1> DEFINE b    == parent[i]
           list == insts[b]
           size == Len(list)
           last == Ending(b)
           k    == IF i \in Terminators THEN size
                   ELSE CHOOSE n \in DOMAIN list : list[n] = i
           moved   == ToSet(Front(Moved(list, k)))
           atFront == k = 1 /\ moved # {}
           behind  == {list[n] : n \in k .. size}
           away    == Register(UnplugGraph(Graph, last), parent[last], One(r))
<1>1. b \in Blocks /\ list # << >>
  BY DEF split, Placed, TypeOK
<1>2. /\ b \in MadeBlocks /\ list \in Seq(Insts) /\ size \in Nat /\ DOMAIN list = 1 .. size
      /\ size \in 1 .. size /\ last = list[size] /\ parent[last] = b /\ last \in Terminators
  BY <1>1, PlacedFacts DEF Ending
<1>3. k \in 1 .. size
  <2>1. CASE i \in Terminators
    BY <1>2, <2>1
  <2>2. CASE i \notin Terminators
    <3>1. \E n \in DOMAIN list : list[n] = i
      BY <2>2 DEF split, ToSet
    <3> QED
      BY <1>2, <2>2, <3>1
  <2> QED
    BY <2>1, <2>2
<1>4. ~atFront
  <2>1. atFront => "split_front" \in Calls
    BY DEF split
  <2> QED
    BY <2>1 DEF ListsRespected
<1>5. moved \cup {last} = behind
  <2> HIDE DEF k
  <2> DEFINE m == Moved(list, k)
  <2>1. /\ m \in Seq(Insts) /\ Len(m) = size - k + 1
        /\ \A n \in 1 .. size - k + 1 : m[n] = list[n + k - 1]
    BY <1>2, <1>3, SMTT(30) DEF Moved
  <2> HIDE DEF m
  <2>2. /\ Front(m) \in Seq(Insts) /\ Len(Front(m)) = size - k
        /\ \A n \in 1 .. size - k : Front(m)[n] = m[n]
    BY <1>2, <1>3, <2>1 DEF Front
  <2>3. DOMAIN Front(m) = 1 .. size - k
    BY <2>2
  <2>4. moved = {list[n + k - 1] : n \in 1 .. size - k}
    <3>1. moved = {Front(m)[n] : n \in 1 .. size - k}
      BY <2>3 DEF ToSet, m
    <3>2. \A n \in 1 .. size - k : Front(m)[n] = list[n + k - 1]
      BY <1>2, <1>3, <2>1, <2>2
    <3> QED
      BY <3>1, <3>2
  <2>5. ASSUME NEW n \in k .. size, n # size PROVE list[n] \in moved
    <3>1. n - k + 1 \in 1 .. size - k /\ (n - k + 1) + k - 1 = n
      BY <1>2, <1>3, <2>5
    <3> QED
      BY <2>4, <3>1
  <2>6. ASSUME NEW n \in 1 .. size - k PROVE n + k - 1 \in k .. size
    BY <1>2, <1>3
  <2>7. size \in k .. size
    BY <1>2, <1>3
  <2> QED
    BY <1>2, <2>4, <2>5, <2>6, <2>7
<1> DEFINE tail    == IF atFront THEN <<u>> \o Front(list) ELSE Moved(list, k)
           mounted == moved \cup {j} \cup (IF atFront THEN {u} ELSE {last})
<1>6. /\ made' = made \cup {r, j} \cup (IF atFront THEN {u} ELSE {})
       /\ insts' = [insts EXCEPT ![b] = Kept(list, k) \o <<j>>, ![r] = tail]
       /\ self_node' = [n \in Insts |-> IF self_node[n] = last THEN j
                                        ELSE IF n = u /\ atFront THEN u ELSE self_node[n]]
       /\ terminator' = [terminator EXCEPT ![b] = j, ![r] = last]
       /\ target' = [target EXCEPT ![j]["default"] = r]
       /\ SetGraph(IF atFront THEN away ELSE Register(away, r, Targets(last)))
  BY DEF split
<1>7. /\ parent' = [n \in Insts |-> IF n = j THEN parent[last]
                                     ELSE IF n \in mounted THEN r ELSE parent[n]]
       /\ status' = [n \in Insts |->
                       IF n \in mounted /\ n \notin Phi THEN "CONNECTED"
                       ELSE IF n \in mounted \cup {last} THEN "DISCONNECTED" ELSE status[n]]
  BY DEF split
<1> HIDE DEF moved, k, atFront, last, away
<1>8. mounted = moved \cup {j} \cup {last} /\ tail = Moved(list, k)
  BY <1>4
<1>9. /\ made' = made \cup {r, j}
      /\ insts' = [insts EXCEPT ![b] = Kept(list, k) \o <<j>>, ![r] = Moved(list, k)]
      /\ self_node' = [n \in Insts |-> IF self_node[n] = last THEN j ELSE self_node[n]]
      /\ terminator' = [terminator EXCEPT ![b] = j, ![r] = last]
      /\ target' = [target EXCEPT ![j]["default"] = r]
      /\ SetGraph(Register(away, r, Targets(last)))
  BY <1>4, <1>6, <1>8
<1>10. /\ parent' = [n \in Insts |-> IF n = j THEN parent[last]
                                    ELSE IF n \in moved \cup {j} \cup {last} THEN r ELSE parent[n]]
      /\ status' = [n \in Insts |->
                      IF n \in moved \cup {j} \cup {last} /\ n \notin Phi THEN "CONNECTED"
                      ELSE IF n \in (moved \cup {j} \cup {last}) \cup {last} THEN "DISCONNECTED"
                      ELSE status[n]]
  BY <1>7, <1>8
<1>11. moved \cup {j} \cup {last} = behind \cup {j} /\ (moved \cup {j} \cup {last}) \cup {last} = behind \cup {j}
  BY <1>5
<1>12. j \notin Phi
  BY ClassesAssumption DEF Terminators, JumpBases
<1> HIDE DEF behind
<1>13. /\ parent' = [n \in Insts |-> IF n = j THEN b
                                     ELSE IF n \in behind THEN r ELSE parent[n]]
       /\ status' = [n \in Insts |->
                       IF n \in behind \cup {j} /\ n \notin Phi THEN "CONNECTED"
                       ELSE IF n \in behind THEN "DISCONNECTED" ELSE status[n]]
  BY <1>2, <1>10, <1>11, <1>12
<1>14. away = Register(UnplugGraph(Graph, last), b, One(r))
  BY <1>2 DEF away
<1>15. Cut(b, k, r, j)
  BY <1>9, <1>13, <1>14 DEF last, behind, Cut
<1> QED
  BY <1>2, <1>3, <1>15

(* The two parts of a cut list are blocks like any other.                  *)
LEMMA CutPlaced ==
  ASSUME Placed, TypeOK', NEW b \in MadeBlocks, NEW k \in Nat, k \in 1 .. Len(insts[b]),
         NEW r \in Blocks \ made, NEW j \in Jump, j \notin made, Cut(b, k, r, j)
  PROVE  Placed'
<1> DEFINE list   == insts[b]
           size   == Len(list)
           last   == Ending(b)
           behind == {list[n] : n \in k .. size}
           head   == Closed(list, k, j)
           tail   == Moved(list, k)
           old(c, m) == IF c = r THEN m + k - 1 ELSE m
           from(c)   == IF c = r THEN b ELSE c
<1>1. /\ insts' = [insts EXCEPT ![b] = head, ![r] = tail]
      /\ made' = made \cup {r, j}
      /\ terminator' = [terminator EXCEPT ![b] = j, ![r] = last]
      /\ self_node' = [n \in Insts |-> IF self_node[n] = last THEN j ELSE self_node[n]]
      /\ parent' = [n \in Insts |-> IF n = j THEN b ELSE IF n \in behind THEN r ELSE parent[n]]
      /\ status' = [n \in Insts |-> IF n \in behind \cup {j} /\ n \notin Phi THEN "CONNECTED"
                                    ELSE IF n \in behind THEN "DISCONNECTED" ELSE status[n]]
  BY DEF Cut, Closed
<1>2. /\ b \in Blocks /\ list \in Seq(Insts) /\ size \in Nat /\ DOMAIN list = 1 .. size
      /\ k \in 1 .. size /\ size \in 1 .. size /\ last = list[size] /\ last \in Terminators
      /\ r \in Blocks /\ r # b /\ insts[r] = << >> /\ j \in Insts /\ j \in Terminators
      /\ j \notin Plain \cup Phi /\ ~Listed(j) /\ last = terminator[b]
      /\ last \notin Plain \cup Phi /\ list # << >>
  BY PlacedFacts, ClassesAssumption
     DEF MadeBlocks, Placed, Founded, Ending, Insts, Terminators, JumpBases
<1>3. /\ head \in Seq(Insts) /\ Len(head) = k /\ DOMAIN head = 1 .. k /\ head[k] = j
      /\ \A n \in 1 .. k - 1 : head[n] = list[n]
      /\ tail \in Seq(Insts) /\ Len(tail) = size - k + 1 /\ DOMAIN tail = 1 .. size - k + 1
      /\ \A n \in 1 .. size - k + 1 : tail[n] = list[n + k - 1]
  <2>1. PICK s \in Seq(Insts) : s = list
    BY <1>2
  <2>2. head = Closed(s, k, j) /\ tail = Moved(s, k) /\ Len(s) = size
    BY <2>1 DEF Closed, Kept, Moved
  <2> HIDE DEF head, tail, list, size, last, behind
  <2>3. k \in 1 .. Len(s) /\ j \in Insts
    BY <1>2, <2>2
  <2>4. /\ Closed(s, k, j) \in Seq(Insts) /\ Len(Closed(s, k, j)) = k /\ Closed(s, k, j)[k] = j
        /\ \A n \in 1 .. k - 1 : Closed(s, k, j)[n] = s[n]
    <3> HIDE DEF Cut, Placed, TypeOK
    <3> QED
      BY <2>3, ClosedAt, SMTT(30)
  <2>5. /\ Moved(s, k) \in Seq(Insts) /\ Len(Moved(s, k)) = Len(s) - k + 1
        /\ \A n \in 1 .. Len(s) - k + 1 : Moved(s, k)[n] = s[n + k - 1]
    BY <2>3, MovedAt
  <2>6. head \in Seq(Insts) /\ Len(head) = k /\ DOMAIN head = 1 .. k
    BY <2>2, <2>4
  <2>7. head[k] = j /\ \A n \in 1 .. k - 1 : head[n] = list[n]
    BY <2>1, <2>2, <2>4
  <2>8. tail \in Seq(Insts) /\ Len(tail) = size - k + 1 /\ DOMAIN tail = 1 .. size - k + 1
    BY <2>2, <2>5
  <2>9. \A n \in 1 .. size - k + 1 : tail[n] = list[n + k - 1]
    BY <2>1, <2>2, <2>5
  <2> QED
    BY <2>6, <2>7, <2>8, <2>9
<1>4. /\ insts'[b] = head /\ insts'[r] = tail
      /\ \A c \in Blocks \ {b, r} : insts'[c] = insts[c]
  BY <1>1, <1>2 DEF Placed, TypeOK
<1>5. \A n \in DOMAIN list : Listed(list[n]) /\ list[n] # j
  BY <1>2 DEF Listed
<1>6. \A n \in DOMAIN list : insts[b][n] = list[n]
  OBVIOUS
<1> HIDE DEF head, tail, list, size, last, behind
<1>7. ASSUME NEW c \in Blocks, NEW m \in DOMAIN insts'[c], c # b \/ m # k
      PROVE  /\ old(c, m) \in DOMAIN insts[from(c)] /\ insts'[c][m] = insts[from(c)][old(c, m)]
             /\ from(c) = b => (c = r <=> old(c, m) >= k)
  <2>1. CASE c = b
    <3>1. m \in 1 .. k - 1
      BY <1>2, <1>3, <1>4, <1>7, <2>1
    <3>2. m \in 1 .. size /\ head[m] = list[m] /\ m < k
      BY <1>2, <1>3, <3>1
    <3> QED
      BY <1>2, <1>4, <2>1, <3>2 DEF list
  <2>2. CASE c = r
    <3>1. m \in 1 .. size - k + 1
      BY <1>3, <1>4, <2>2
    <3>2. m + k - 1 \in 1 .. size /\ tail[m] = list[m + k - 1] /\ m + k - 1 >= k
      BY <1>2, <1>3, <3>1
    <3> QED
      BY <1>2, <1>4, <2>2, <3>2 DEF list
  <2>3. CASE c \notin {b, r}
    BY <1>4, <2>3
  <2> QED
    BY <2>1, <2>2, <2>3
<1>8. ASSUME NEW c \in Blocks, NEW m \in DOMAIN insts[c]
      PROVE  \E d \in Blocks : \E n \in DOMAIN insts'[d] : insts'[d][n] = insts[c][m]
  <2>1. CASE c = b /\ m < k
    <3>1. m \in 1 .. k - 1
      BY <1>2, <2>1 DEF list
    <3>2. m \in DOMAIN head /\ head[m] = list[m]
      BY <1>2, <1>3, <3>1
    <3> QED
      BY <1>2, <1>4, <2>1, <3>2 DEF list
  <2>2. CASE c = b /\ m >= k
    <3>1. m - k + 1 \in 1 .. size - k + 1 /\ (m - k + 1) + k - 1 = m
      <4>1. m \in 1 .. size
        BY <1>2, <2>2 DEF list
      <4> QED
        BY <1>2, <2>2, <4>1
    <3>2. tail[m - k + 1] = list[(m - k + 1) + k - 1]
      BY <1>3, <3>1
    <3>3. m - k + 1 \in DOMAIN insts'[r] /\ insts'[r][m - k + 1] = list[m]
      BY <1>3, <1>4, <3>1, <3>2
    <3> QED
      BY <1>2, <2>2, <3>3 DEF list
  <2>3. CASE c # b
    <3>1. c # r
      BY <1>2
    <3> QED
      BY <1>4, <2>3, <3>1
  <2>4. c = b => m \in 1 .. size
    BY <1>2 DEF list
  <2>5. c = b => m < k \/ m >= k
    BY <1>2, <2>4
  <2> QED
    BY <2>1, <2>2, <2>3, <2>5
<1>9. \A x : Listed(x)' <=> Listed(x) \/ x = j
  <2>1. ASSUME NEW x, Listed(x)' PROVE Listed(x) \/ x = j
    <3>1. PICK c \in Blocks : \E m \in DOMAIN insts'[c] : insts'[c][m] = x
      BY <2>1 DEF Listed
    <3>2. PICK m \in DOMAIN insts'[c] : insts'[c][m] = x
      BY <3>1
    <3>3. CASE c = b /\ m = k
      BY <1>3, <1>4, <3>2, <3>3
    <3>4. CASE c # b \/ m # k
      <4>1. from(c) \in Blocks
        BY <1>2
      <4> QED
        BY <1>7, <3>2, <3>4, <4>1 DEF Listed
    <3> QED
      BY <3>3, <3>4
  <2>2. ASSUME NEW x, Listed(x) PROVE Listed(x)'
    BY <1>8, <2>2 DEF Listed
  <2>3. Listed(j)'
    <3>1. k \in DOMAIN insts'[b] /\ insts'[b][k] = j
      BY <1>2, <1>3, <1>4
    <3> QED
      BY <1>2, <3>1 DEF Listed
  <2> QED
    BY <2>1, <2>2, <2>3
<1>10. \A c, d \in Blocks : \A m \in DOMAIN insts'[c], n \in DOMAIN insts'[d] :
        insts'[c][m] = insts'[d][n] => c = d /\ m = n
  <2> SUFFICES ASSUME NEW c \in Blocks, NEW d \in Blocks,
                      NEW m \in DOMAIN insts'[c], NEW n \in DOMAIN insts'[d],
                      insts'[c][m] = insts'[d][n]
               PROVE  c = d /\ m = n
    OBVIOUS
  <2>0. from(c) \in Blocks /\ from(d) \in Blocks
    BY <1>2
  <2>1. CASE (c # b \/ m # k) /\ (d # b \/ n # k)
    <3>1. insts[from(c)][old(c, m)] = insts[from(d)][old(d, n)]
      BY <1>7, <2>1
    <3>2. from(c) = from(d) /\ old(c, m) = old(d, n)
      BY <1>7, <2>0, <2>1, <3>1 DEF Placed, SingleOwner
    <3>3. c = d
      BY <1>7, <2>1, <3>2
    <3>4. c = r => m \in Int /\ n \in Int
      BY <1>3, <1>4, <3>3
    <3> QED
      BY <1>2, <3>2, <3>3, <3>4
  <2>2. CASE c = b /\ m = k /\ (d # b \/ n # k)
    <3>1. Listed(j)
      <4>1. insts'[c][m] = j
        BY <1>3, <1>4, <2>2
      <4> QED
        BY <1>7, <2>0, <2>2, <4>1 DEF Listed
    <3> QED
      BY <1>2, <3>1
  <2>3. CASE d = b /\ n = k /\ (c # b \/ m # k)
    <3>1. Listed(j)
      <4>1. insts'[d][n] = j
        BY <1>3, <1>4, <2>3
      <4> QED
        BY <1>7, <2>0, <2>3, <4>1 DEF Listed
    <3> QED
      BY <1>2, <3>1
  <2> QED
    BY <2>1, <2>2, <2>3
<1>11. /\ \A x \in behind : Listed(x) /\ x \in Insts /\ x # j
       /\ last \in behind
  <2>1. \A n \in k .. size : n \in DOMAIN list /\ list[n] \in Insts
    <3>1. \A n \in k .. size : n \in DOMAIN list
      BY <1>2
    <3> QED
      BY <1>2, <3>1, PlacedFacts DEF list
  <2>2. size \in k .. size
    BY <1>2
  <2> QED
    BY <1>2, <1>5, <2>1, <2>2 DEF behind
<1>12. Founded'
  <2>1. \A c \in Blocks \ made' : insts'[c] = << >>
    BY <1>1, <1>2, <1>4 DEF Placed, Founded, MadeBlocks
  <2>2. \A t \in Terminators : Listed(t)' => t \in made'
    BY <1>1, <1>9 DEF Placed, Founded
  <2>3. \A t \in Terminators : self_node'[t] \in Terminators \cup {Null}
    BY <1>1, <1>2 DEF Placed, Founded, Insts
  <2> QED
    BY <2>1, <2>2, <2>3 DEF Founded
<1>13. WellFormedBlocks'
  <2>1. \A n \in 1 .. size : list[n] \in Terminators <=> n = size
    BY <1>2 DEF Placed, WellFormedBlocks, list, size
  <2>2. terminator'[b] = j /\ terminator'[r] = last
    BY <1>1, <1>2 DEF Placed, TypeOK
  <2> SUFFICES ASSUME NEW c \in MadeBlocks'
               PROVE  /\ insts'[c] # << >> /\ Last(insts'[c]) = terminator'[c]
                      /\ \A m \in DOMAIN insts'[c] : insts'[c][m] \in Terminators <=> m = Len(insts'[c])
    BY DEF WellFormedBlocks
  <2>3. CASE c = b
    <3>1. head # << >> /\ Last(head) = j
      BY <1>2, <1>3 DEF Last
    <3>2. ASSUME NEW m \in 1 .. k PROVE head[m] \in Terminators <=> m = k
      <4>1. CASE m = k
        BY <1>2, <1>3, <4>1
      <4>2. CASE m # k
        <5>1. m \in 1 .. k - 1 /\ m \in 1 .. size /\ m # size
          BY <1>2, <4>2
        <5> QED
          BY <1>3, <2>1, <4>2, <5>1
      <4> QED
        BY <4>1, <4>2
    <3> QED
      BY <1>3, <1>4, <2>2, <2>3, <3>1, <3>2
  <2>4. CASE c = r
    <3>1. tail # << >> /\ Last(tail) = last
      <4>1. size - k + 1 \in 1 .. size - k + 1 /\ (size - k + 1) + k - 1 = size
        BY <1>2
      <4>2. tail[size - k + 1] = list[(size - k + 1) + k - 1]
        BY <1>3, <4>1
      <4>3. tail[Len(tail)] = last
        BY <1>2, <1>3, <4>1, <4>2
      <4>4. tail # << >>
        BY <1>3, <4>1
      <4> QED
        BY <4>3, <4>4 DEF Last
    <3>2. ASSUME NEW m \in 1 .. size - k + 1 PROVE tail[m] \in Terminators <=> m = size - k + 1
      <4>1. m + k - 1 \in 1 .. size /\ (m + k - 1 = size <=> m = size - k + 1)
        BY <1>2
      <4> QED
        BY <1>3, <2>1, <4>1
    <3> QED
      BY <1>3, <1>4, <2>2, <2>4, <3>1, <3>2
  <2>5. CASE c \notin {b, r}
    <3>1. c \in MadeBlocks /\ insts'[c] = insts[c] /\ terminator'[c] = terminator[c]
      BY <1>1, <1>2, <1>4, <2>5, ClassesAssumption DEF MadeBlocks, Placed, TypeOK, Insts
    <3> QED
      BY <3>1 DEF Placed, WellFormedBlocks
  <2> QED
    BY <2>3, <2>4, <2>5
<1>14. SingleOwner'
  <2>1. \A c \in Blocks : \A m \in DOMAIN insts'[c] : parent'[insts'[c][m]] = c
    <3> SUFFICES ASSUME NEW c \in Blocks, NEW m \in DOMAIN insts'[c]
                 PROVE  parent'[insts'[c][m]] = c
      OBVIOUS
    <3>1. CASE c = b /\ m = k
      BY <1>1, <1>2, <1>3, <1>4, <3>1
    <3>2. CASE c # b \/ m # k
      <4> DEFINE x == insts'[c][m]
      <4>1. /\ from(c) \in Blocks /\ old(c, m) \in DOMAIN insts[from(c)]
            /\ x = insts[from(c)][old(c, m)]
            /\ from(c) = b => (c = r <=> old(c, m) >= k)
        BY <1>2, <1>7, <3>2
      <4>2. x # j /\ x \in Insts /\ parent[x] = from(c)
        BY <1>2, <4>1, PlacedFacts DEF Listed, Placed, SingleOwner
      <4>3. x \in behind <=> c = r
        <5>1. ASSUME c = r PROVE x \in behind
          <6>1. old(c, m) \in 1 .. size /\ old(c, m) >= k /\ x = list[old(c, m)]
            BY <1>2, <4>1, <5>1 DEF list
          <6>2. old(c, m) \in k .. size
            <7> HIDE DEF old
            <7> QED
              BY <1>2, <6>1
          <6> HIDE DEF x, old
          <6> QED
            BY <6>1, <6>2 DEF behind
        <5>2. ASSUME x \in behind PROVE c = r
          <6>1. PICK n \in k .. size : x = list[n]
            <7> HIDE DEF x
            <7> QED
              BY <5>2 DEF behind
          <6>2. n \in DOMAIN insts[b] /\ insts[b][n] = x
            BY <1>2, <6>1 DEF list
          <6>3. from(c) = b /\ old(c, m) = n
            <7> HIDE DEF x, old, from
            <7> QED
              BY <1>2, <4>1, <6>2 DEF Placed, SingleOwner
          <6> QED
            BY <1>2, <4>1, <6>3
        <5> QED
          BY <5>1, <5>2
      <4> HIDE DEF x, behind
      <4> QED
        BY <1>1, <4>2, <4>3 DEF x, behind
    <3> QED
      BY <3>1, <3>2
  <2>2. \A x \in Insts \ Phi : Listed(x)' <=> status'[x] = "CONNECTED"
    <3> HIDE DEF behind
    <3>1. status' = [n \in Insts |->
                       IF n \in behind \cup {j} /\ n \notin Phi THEN "CONNECTED"
                       ELSE IF n \in behind THEN "DISCONNECTED" ELSE status[n]]
      BY <1>1 DEF behind
    <3> QED
      BY <1>9, <1>11, <3>1 DEF Placed, SingleOwner
  <2>3. \A x \in Plain \cup Phi : self_node'[x] = IF Listed(x)' THEN x ELSE Null
    BY <1>1, <1>2, <1>9, ClassesAssumption DEF Placed, SingleOwner, Insts
  <2> QED
    BY <1>10, <2>1, <2>2, <2>3 DEF SingleOwner
<1> QED
  BY <1>12, <1>13, <1>14 DEF Placed

(* So a split leaves every instruction in its place.                       *)
LEMMA SplitPlaced ==
  ASSUME ListsRespected, Placed, TypeOK', NEW i \in Insts, NEW r \in Blocks \ made,
         NEW j \in Jump \ made, NEW u \in Unreachable \ made, split(i, r, j, u)
  PROVE  Placed'
<1>1. PICK b \in MadeBlocks, k \in Nat : k \in 1 .. Len(insts[b]) /\ Cut(b, k, r, j)
  BY SplitCuts
<1> QED
  BY <1>1, CutPlaced

(* Constructing and destroying terminators happens outside every list.     *)
LEMMA NewTerminatorPlaced ==
  ASSUME Placed, TypeOK', NEW t, NEW p, NEW tg, NewTerminator(t, p, tg)
  PROVE  Placed'
<1>1. t \in Terminators /\ t \in Insts /\ t \notin Phi /\ t \notin made
  BY ClassesAssumption DEF NewTerminator, Terminators, Insts, JumpBases
<1>2. ~Listed(t) /\ self_node[t] \in Terminators \cup {Null}
  BY <1>1 DEF Placed, Founded
<1>3. status[t] # "CONNECTED"
  BY <1>1, <1>2 DEF Placed, SingleOwner
<1>4. /\ UNCHANGED <<insts, terminator, status, self_node>> /\ made' = made \cup {t}
      /\ \A x \in Insts \ {t} : parent'[x] = parent[x]
  BY DEF NewTerminator, lists, Placed, TypeOK
<1> QED
  BY <1>1, <1>2, <1>3, <1>4, OutsidePlaced

(* Only a terminator outside every list can be released.                   *)
LEMMA ReleasePlaced ==
  ASSUME Placed, TypeOK', NEW t \in Terminators, Release(t)
  PROVE  Placed'
<1>1. t \in Insts /\ ~Listed(t)
  BY DEF Release, Insts
<1>2. /\ UNCHANGED <<insts, terminator>> /\ made' = made \ {t}
      /\ \A x \in Insts \ {t} :
           parent'[x] = parent[x] /\ status'[x] = status[x] /\ self_node'[x] = self_node[x]
      /\ status'[t] = "DISCONNECTED" /\ self_node'[t] = Null
  BY <1>1 DEF Release, Placed, TypeOK
<1> QED
  BY <1>1, <1>2, OutsidePlaced

(* The four ways to insert all insert before the terminator.               *)
LEMMA AppendPlaced ==
  ASSUME ListsRespected, Placed, TypeOK', NEW i,
         \/ \E b \in MadeBlocks : append(b, i) \/ prepend(b, i)
         \/ \E at \in Insts : append_to(at, i) \/ prepend_to(at, i)
  PROVE  Placed'
<1>1. ASSUME NEW b \in Blocks, NEW k \in 1 .. Len(insts[b]), InsertInto(b, k, i) PROVE Placed'
  <2>1. ~Listed(i)
    BY <1>1 DEF InsertInto, ListsRespected
  <2> QED
    BY <1>1, <2>1, InsertPlaced
<1>2. ASSUME NEW b \in MadeBlocks, append(b, i) \/ prepend(b, i) PROVE Placed'
  <2>1. b \in Blocks /\ insts[b] # << >>
    BY <1>2 DEF MadeBlocks, append, prepend, InsertInto
  <2>2. 1 \in 1 .. Len(insts[b]) /\ Len(insts[b]) \in 1 .. Len(insts[b])
    BY <2>1, PlacedFacts
  <2> QED
    BY <1>1, <1>2, <2>1, <2>2 DEF append, prepend
<1>3. ASSUME NEW at \in Insts, prepend_to(at, i) PROVE Placed'
  <2>1. PICK b \in Blocks : \E k \in DOMAIN insts[b] : InsertInto(b, k, i)
    BY <1>3 DEF prepend_to
  <2>2. DOMAIN insts[b] = 1 .. Len(insts[b])
    BY PlacedFacts
  <2> QED
    BY <1>1, <2>1, <2>2
<1>4. ASSUME NEW at \in Insts, append_to(at, i) PROVE Placed'
  <2>1. PICK b \in Blocks : \E k \in DOMAIN insts[b] :
                              insts[b][k] \notin Terminators /\ InsertInto(b, k + 1, i)
    BY <1>4 DEF append_to, ListsRespected
  <2>2. PICK k \in DOMAIN insts[b] : insts[b][k] \notin Terminators /\ InsertInto(b, k + 1, i)
    BY <2>1
  <2>3. k \in 1 .. Len(insts[b]) /\ Len(insts[b]) \in Nat /\ k # Len(insts[b])
    BY <2>2, PlacedFacts DEF Ending
  <2>4. k + 1 \in 1 .. Len(insts[b])
    BY <2>3
  <2> QED
    BY <1>1, <2>2, <2>4
<1> QED
  BY <1>2, <1>3, <1>4

(* No editing of targets moves an instruction.                             *)
LEMMA TargetsEdited ==
  /\ \A t, s, q : set_slot(t, s, q) => UNCHANGED <<made, lists, terminator, parent, status>>
  /\ \A t, c, q : set_default_target(t, q) \/ set_if_true(t, q) \/ setCase(t, c, q)
                  \/ removeCase(t, c) => UNCHANGED <<made, lists, terminator, parent, status>>
  /\ \A t, X : remove_target(t, X) \/ switch_remove_if(t, X)
               => UNCHANGED <<made, lists, terminator, parent, status>>
  /\ \A t, S, old, q : replace_target(t, S, old, q)
                       => UNCHANGED <<made, lists, terminator, parent, status>>
  /\ \A t : swapTargets(t) \/ clean_jump(t) \/ clean_branch(t) \/ clean_switch(t)
            => UNCHANGED <<made, lists, terminator, parent, status>>
BY DEF set_slot, set_default_target, set_if_true, setCase, removeCase, remove_target,
       switch_remove_if, replace_target, swapTargets, clean_slots, clean_jump, clean_branch,
       clean_switch

(* Every step that respects the lists keeps every instruction in place.    *)
LEMMA NextPlaced ==
  ASSUME ListsRespected, Placed, TypeOK', [Next]_vars
  PROVE  Placed'
<1>1. CASE UNCHANGED vars
  BY <1>1, EditPlaced DEF vars
<1>2. CASE Next
  <2>1. CASE \/ \E t \in Jump, p, q \in MadeBlocks : NewJump(t, p, q)
             \/ \E t \in Branch, p, q \in MadeBlocks : NewBranch(t, p, q)
             \/ \E t \in Switch, q \in MadeBlocks, cases \in [Cases -> MadeBlocks \cup {Null}] :
                  NewSwitch(t, q, cases)
    BY <2>1, NewTerminatorPlaced DEF NewJump, NewBranch, NewSwitch
  <2>2. CASE \/ \E b \in Blocks, t \in Terminators : NewBlock(b, t)
             \/ \E t \in Terminators : Release(t)
             \/ \E b \in MadeBlocks, t \in Terminators : set_terminator(b, t)
    BY <2>2, NewBlockPlaced, ReleasePlaced, SetTerminatorPlaced
  <2>3. CASE \/ \E b \in MadeBlocks, i \in Plain \cup Phi : append(b, i) \/ prepend(b, i)
             \/ \E at \in Insts, i \in Plain \cup Phi : append_to(at, i) \/ prepend_to(at, i)
    BY <2>3, AppendPlaced
  <2>4. CASE \E i \in Insts, st \in {"DISCONNECTED", "FINALIZED"} : unplugThis(i, st)
    BY <2>4, UnplugPlaced
  <2>5. CASE \E b \in MadeBlocks, i \in Plain \cup Phi :
               \E k \in DOMAIN insts[b] : replace_this(b, k, i)
    BY <2>5 DEF replace_this, ListsRespected
  <2>6. CASE \E i \in Insts, r \in Blocks \ made, j \in Jump \ made, u \in Unreachable \ made :
               split(i, r, j, u)
    BY <2>6, SplitPlaced
  <2>7. CASE \/ \E t \in JumpBases, q \in MadeBlocks \cup {Null} :
                  set_default_target(t, q) \/ set_if_true(t, q)
             \/ \E t \in Switch, c \in Cases :
                  removeCase(t, c) \/ \E q \in MadeBlocks : setCase(t, c, q)
             \/ \E t \in JumpBases, X \in SUBSET MadeBlocks :
                  remove_target(t, X) \/ switch_remove_if(t, X)
             \/ \E t \in JumpBases, old, q \in MadeBlocks :
                  \E S \in Replaced(t, old) : replace_target(t, S, old, q)
             \/ \E t \in JumpBases :
                  swapTargets(t) \/ clean_jump(t) \/ clean_branch(t) \/ clean_switch(t)
    <3>1. UNCHANGED <<made, lists, terminator, parent, status>>
      BY <2>7, TargetsEdited
    <3> QED
      BY <3>1, EditPlaced
  <2> QED
    BY <1>2, <2>1, <2>2, <2>3, <2>4, <2>5, <2>6, <2>7 DEF Next
<1> QED
  BY <1>1, <1>2

(* The graph is sound, so typing holds, and every instruction is placed.   *)
LEMMA AlwaysPlaced ==
  ASSUME ListsRespected
  PROVE  Spec => [](IInv /\ Placed)
<1>1. Init => IInv /\ Placed
  BY InitIInv, InitPlaced
<1>2. IInv /\ Placed /\ [Next]_vars => (IInv /\ Placed)'
  <2> SUFFICES ASSUME IInv, Placed, [Next]_vars PROVE IInv' /\ Placed'
    OBVIOUS
  <2>1. IInv' /\ TypeOK'
    BY NextIInv, NextTyped DEF Placed
  <2> QED
    BY <2>1, NextPlaced
<1> QED
  BY <1>1, <1>2, PTL DEF Spec

(* A block always has instructions and ends in its terminator, and nowhere *)
(* else is there one, whatever clients insert, remove, split or replace, as*)
(* long as none splits at the front of a block, unplugs an ending, inserts *)
(* behind one, mounts a connected terminator elsewhere, mounts a phi twice *)
(* or replaces a plain instruction: ListsRespected.                        *)
THEOREM AlwaysWellFormedBlocks ==
  ASSUME ListsRespected
  PROVE  Spec => []WellFormedBlocks
BY AlwaysPlaced, PTL DEF Placed

(* Under the same condition an instruction is in at most one place of one  *)
(* list, and its parent, status and proxy say exactly where.               *)
THEOREM AlwaysSingleOwner ==
  ASSUME ListsRespected
  PROVE  Spec => []SingleOwner
BY AlwaysPlaced, PTL DEF Placed

-----------------------------------------------------------------------------
(* Splitting.                                                              *)

SplitInTwo ==
  \A b \in MadeBlocks, r \in Blocks \ made :
    r \in made' /\ insts'[b] # insts[b] => insts[b] = Front(insts'[b]) \o insts'[r]

(* A cut list is its first part without the jump, then its second.         *)
LEMMA CutInTwo ==
  ASSUME Placed, NEW b \in MadeBlocks, NEW k \in Nat, k \in 1 .. Len(insts[b]),
         NEW r \in Blocks \ made, NEW j \in Jump, j \notin made, Cut(b, k, r, j)
  PROVE  SplitInTwo
<1>1. /\ b \in Blocks /\ r # b /\ insts[b] \in Seq(Insts) /\ j \in Insts /\ j \notin Blocks
  BY ClassesAssumption, PlacedFacts DEF MadeBlocks, Insts, Terminators, JumpBases
<1>2. /\ insts' = [insts EXCEPT ![b] = Kept(insts[b], k) \o <<j>>, ![r] = Moved(insts[b], k)]
      /\ made' = made \cup {r, j}
  BY DEF Cut
<1>3. PICK s \in Seq(Insts) : s = insts[b]
  BY <1>1
<1>4. insts'[b] = Closed(s, k, j) /\ insts'[r] = Moved(s, k)
  BY <1>1, <1>2, <1>3 DEF Placed, TypeOK, Closed, Kept, Moved
<1>5. s = Front(Closed(s, k, j)) \o Moved(s, k)
  <2>1. k \in 1 .. Len(s) /\ j \in Insts
    BY <1>1, <1>3
  <2> QED
    BY <2>1, CutAt
<1>6. \A c \in MadeBlocks : insts'[c] # insts[c] => c = b
  BY <1>2 DEF MadeBlocks, Placed, TypeOK
<1>7. \A c \in Blocks \ made : c \in made' => c = r
  BY <1>1, <1>2
<1> QED
  BY <1>3, <1>4, <1>5, <1>6, <1>7 DEF SplitInTwo

(* Only the factories of a block and split make one.                       *)
LEMMA NextSplits ==
  ASSUME ListsRespected, Placed, [Next]_vars
  PROVE  SplitInTwo
<1>1. CASE made' \cap Blocks \subseteq made
  BY <1>1 DEF SplitInTwo
<1>2. CASE UNCHANGED vars
  BY <1>1, <1>2 DEF vars
<1>3. ASSUME NEW t, NEW p, NEW tg, NewTerminator(t, p, tg) PROVE SplitInTwo
  BY <1>1, <1>3, ClassesAssumption DEF NewTerminator, Insts, Terminators
<1>4. ASSUME NEW b \in Blocks, NEW t \in Terminators, NewBlock(b, t) PROVE SplitInTwo
  <2>1. b \notin made /\ insts' \in {insts, [insts EXCEPT ![b] = <<t>>]}
    BY <1>4 DEF NewBlock, lists
  <2>2. \A c \in MadeBlocks : insts'[c] = insts[c]
    BY <2>1 DEF MadeBlocks, Placed, TypeOK
  <2> QED
    BY <2>2 DEF SplitInTwo
<1>5. ASSUME NEW t, Release(t) PROVE SplitInTwo
  BY <1>1, <1>5 DEF Release
<1>6. ASSUME NEW i,
             \/ \E b \in MadeBlocks : append(b, i) \/ prepend(b, i)
             \/ \E at \in Insts : append_to(at, i) \/ prepend_to(at, i)
             \/ \E st \in {"DISCONNECTED", "FINALIZED"} : unplugThis(i, st)
             \/ \E b \in MadeBlocks : \E k \in DOMAIN insts[b] : replace_this(b, k, i)
             \/ \E b \in MadeBlocks : set_terminator(b, i)
      PROVE  SplitInTwo
  <2>1. UNCHANGED made
    BY <1>6 DEF append, prepend, append_to, prepend_to, InsertInto, unplugThis, replace_this,
                set_terminator
  <2> QED
    BY <1>1, <2>1
<1>7. ASSUME NEW i \in Insts, NEW r \in Blocks \ made, NEW j \in Jump \ made,
             NEW u \in Unreachable \ made, split(i, r, j, u)
      PROVE  SplitInTwo
  <2>1. PICK b \in MadeBlocks, k \in Nat : k \in 1 .. Len(insts[b]) /\ Cut(b, k, r, j)
    BY <1>7, SplitCuts
  <2> QED
    BY <2>1, CutInTwo
<1>8. CASE Next
  <2>1. CASE \/ \E t \in JumpBases, q \in MadeBlocks \cup {Null} :
                  set_default_target(t, q) \/ set_if_true(t, q)
             \/ \E t \in Switch, c \in Cases :
                  removeCase(t, c) \/ \E q \in MadeBlocks : setCase(t, c, q)
             \/ \E t \in JumpBases, X \in SUBSET MadeBlocks :
                  remove_target(t, X) \/ switch_remove_if(t, X)
             \/ \E t \in JumpBases, old, q \in MadeBlocks :
                  \E S \in Replaced(t, old) : replace_target(t, S, old, q)
             \/ \E t \in JumpBases :
                  swapTargets(t) \/ clean_jump(t) \/ clean_branch(t) \/ clean_switch(t)
    BY <1>1, <2>1, TargetsEdited
  <2>2. CASE \/ \E t \in Jump, p, q \in MadeBlocks : NewJump(t, p, q)
             \/ \E t \in Branch, p, q \in MadeBlocks : NewBranch(t, p, q)
             \/ \E t \in Switch, q \in MadeBlocks, cases \in [Cases -> MadeBlocks \cup {Null}] :
                  NewSwitch(t, q, cases)
    BY <1>3, <2>2 DEF NewJump, NewBranch, NewSwitch
  <2> QED
    BY <1>4, <1>5, <1>6, <1>7, <1>8, <2>1, <2>2 DEF Next
<1> QED
  BY <1>2, <1>8

(* A split cuts the list of the old block in two and loses, adds or moves  *)
(* nothing but the new jump, for every place in every list; no other       *)
(* operation makes a block out of another one's instructions.              *)
THEOREM AlwaysSplitPreservesOrder ==
  ASSUME ListsRespected
  PROVE  Spec => SplitPreservesOrder
<1>1. Placed /\ [Next]_vars => [SplitInTwo]_vars
  BY NextSplits
<1> QED
  BY <1>1, AlwaysPlaced, PTL DEF Spec, SplitPreservesOrder, SplitInTwo

-----------------------------------------------------------------------------
(* Exact edges.                                                            *)

(* How many targets of a terminator are q.                                 *)
Uses(tg, q) == Cardinality({s \in Slots : tg[s] = q})

(***************************************************************************)
(* The inductive invariant: the edges recorded at a block that exists are  *)
(* the targets of its terminator, with multiplicity; a block that does not *)
(* exist has none, and a terminator that does not exist no targets.        *)
(***************************************************************************)
Exact ==
  /\ \A b, q \in Blocks :
       jumps_to[b][q] = IF b \in made THEN Uses(target[terminator[b]], q) ELSE 0
  /\ \A t \in Terminators \ made : target[t] = NoTargets

(* Count counts the uses.                                                  *)
LEMMA UsesCount ==
  ASSUME NEW tg, NEW q \in Blocks
  PROVE  Count(tg, Slots)[q] = Uses(tg, q) /\ Uses(tg, q) \in Nat
<1>1. {s \in Slots : tg[s] = q} \in SUBSET Slots
  OBVIOUS
<1> QED
  BY <1>1, CountNat DEF Count, Uses

(* Writing q to all the slots of S takes away what they counted for and    *)
(* adds the size of S to the count of q.                                   *)
LEMMA RewriteUses ==
  ASSUME NEW tg, NEW S \in SUBSET Slots, NEW q, NEW x \in Blocks
  PROVE  Uses([s \in Slots |-> IF s \in S THEN q ELSE tg[s]], x)
           = Minus(Uses(tg, x), Count(tg, S)[x]) + (IF x = q THEN Cardinality(S) ELSE 0)
<1> DEFINE A   == {s \in Slots : tg[s] = x}
           B   == {s \in S : tg[s] = x}
           new == [s \in Slots |-> IF s \in S THEN q ELSE tg[s]]
<1>1. /\ IsFiniteSet(A) /\ IsFiniteSet(B) /\ IsFiniteSet(S)
      /\ Cardinality(A) \in Nat /\ Cardinality(B) \in Nat /\ Cardinality(S) \in Nat
  <2>1. A \in SUBSET Slots /\ B \in SUBSET Slots
    OBVIOUS
  <2> QED
    BY <2>1, CountNat, FiniteSlots, FS_Subset
<1>2. A \cap B = B /\ B \subseteq A
  OBVIOUS
<1>3. Cardinality(A \ B) = Cardinality(A) - Cardinality(B) /\ IsFiniteSet(A \ B)
  BY <1>1, <1>2, FS_Difference, ZenonT(30)
<1>4. Cardinality(B) <= Cardinality(A)
  BY <1>1, <1>2, FS_Subset
<1>5. Uses(tg, x) = Cardinality(A) /\ Count(tg, S)[x] = Cardinality(B)
  BY DEF Uses, Count
<1>6. Minus(Uses(tg, x), Count(tg, S)[x]) = Cardinality(A) - Cardinality(B)
  BY <1>1, <1>4, <1>5 DEF Minus
<1>7. CASE x = q
  <2>1. {s \in Slots : new[s] = x} = (A \ B) \cup S
    BY <1>7
  <2>2. (A \ B) \cap S = {}
    OBVIOUS
  <2>3. Cardinality((A \ B) \cup S) = Cardinality(A \ B) + Cardinality(S)
    <3> DEFINE D == A \ B
    <3>1. IsFiniteSet(D) /\ D \cap S = {} /\ Cardinality(D) \in Nat
      BY <1>3, <2>2, FS_CardinalityType
    <3> HIDE DEF D
    <3>2. Cardinality(D \cup S) = Cardinality(D) + Cardinality(S) - Cardinality(D \cap S)
      BY <1>1, <3>1, FS_Union
    <3>3. Cardinality(D \cap S) = 0
      BY <3>1, FS_EmptySet
    <3>4. Cardinality(D \cup S) = Cardinality(D) + Cardinality(S)
      BY <1>1, <3>1, <3>2, <3>3
    <3> QED
      BY <3>4 DEF D
  <2> QED
    BY <1>1, <1>3, <1>6, <1>7, <2>1, <2>3 DEF Uses
<1>8. CASE x # q
  <2>1. {s \in Slots : new[s] = x} = A \ B
    BY <1>8
  <2>2. Uses(new, x) = Cardinality(A) - Cardinality(B)
    BY <1>3, <2>1 DEF Uses
  <2> HIDE DEF new, A, B
  <2>3. Uses(new, x) = Minus(Uses(tg, x), Count(tg, S)[x]) + 0
    BY <1>1, <1>6, <2>2
  <2> QED
    BY <1>8, <2>3 DEF new
<1> QED
  BY <1>7, <1>8

(* Exchanging the contents of two slots changes no count.                  *)
LEMMA SwapUses ==
  ASSUME NEW tg \in [Slots -> Blocks \cup {Null}], NEW x \in Blocks
  PROVE  Uses([tg EXCEPT !["default"] = tg["true"], !["true"] = tg["default"]], x) = Uses(tg, x)
<1> DEFINE new  == [tg EXCEPT !["default"] = tg["true"], !["true"] = tg["default"]]
           rest == {s \in Slots \ {"default", "true"} : tg[s] = x}
           A    == {s \in Slots : tg[s] = x}
           N    == {s \in Slots : new[s] = x}
<1>1. /\ "default" \in Slots /\ "true" \in Slots /\ "default" # "true"
      /\ "default" \notin rest /\ "true" \notin rest
  BY DEF Slots
<1>2. IsFiniteSet(rest)
  <2>1. rest \in SUBSET Slots
    OBVIOUS
  <2> QED
    BY <2>1, FiniteSlots, FS_Subset
<1>3. /\ new["default"] = tg["true"] /\ new["true"] = tg["default"]
      /\ \A s \in Slots \ {"default", "true"} : new[s] = tg[s]
  BY <1>1
<1>4. CASE (tg["default"] = x) <=> (tg["true"] = x)
  <2>1. N = A
    BY <1>3, <1>4
  <2> QED
    BY <2>1 DEF Uses
<1>5. CASE tg["default"] = x /\ tg["true"] # x
  <2>1. A = rest \cup {"default"} /\ N = rest \cup {"true"}
    BY <1>1, <1>3, <1>5
  <2>2. Cardinality(rest \cup {"default"}) = Cardinality(rest \cup {"true"})
    <3> HIDE DEF rest
    <3> QED
      BY <1>1, <1>2, FS_AddElement
  <2> QED
    BY <2>1, <2>2 DEF Uses
<1>6. CASE tg["default"] # x /\ tg["true"] = x
  <2>1. N = rest \cup {"default"} /\ A = rest \cup {"true"}
    BY <1>1, <1>3, <1>6
  <2>2. Cardinality(rest \cup {"default"}) = Cardinality(rest \cup {"true"})
    <3> HIDE DEF rest
    <3> QED
      BY <1>1, <1>2, FS_AddElement
  <2> QED
    BY <2>1, <2>2 DEF Uses
<1> QED
  BY <1>4, <1>5, <1>6

(* A terminator without targets, and one with one.                         *)
LEMMA FewUses ==
  ASSUME NEW x \in Blocks
  PROVE  /\ Uses(NoTargets, x) = 0
         /\ \A q : Uses([NoTargets EXCEPT !["default"] = q], x) = One(q)[x]
<1>1. Uses(NoTargets, x) = 0
  <2>1. {s \in Slots : NoTargets[s] = x} = {}
    BY ClassesAssumption DEF NoTargets
  <2> QED
    BY <2>1, FS_EmptySet DEF Uses
<1>2. ASSUME NEW q PROVE Uses([NoTargets EXCEPT !["default"] = q], x) = One(q)[x]
  <2> DEFINE new == [NoTargets EXCEPT !["default"] = q]
  <2>1. \A s \in Slots : new[s] = x <=> s = "default" /\ q = x
    BY ClassesAssumption DEF NoTargets
  <2>2. CASE q = x
    <3>1. {s \in Slots : new[s] = x} = {"default"}
      BY <2>1, <2>2 DEF Slots
    <3> QED
      BY <2>2, <3>1, FS_Singleton DEF Uses, One
  <2>3. CASE q # x
    <3>1. {s \in Slots : new[s] = x} = {}
      BY <2>1, <2>3
    <3> QED
      BY <2>3, <3>1, FS_EmptySet DEF Uses, One
  <2> QED
    BY <2>2, <2>3
<1> QED
  BY <1>1, <1>2

(* Mounted terminators and the blocks that end in them.                    *)
LEMMA Mounted ==
  ASSUME Placed
  PROVE  /\ \A b \in MadeBlocks :
              /\ b \in Blocks /\ terminator[b] \in Terminators \cap made
              /\ parent[terminator[b]] = b /\ status[terminator[b]] = "CONNECTED"
              /\ Listed(terminator[b]) /\ Ending(b) = terminator[b]
         /\ \A t \in Terminators : status[t] = "CONNECTED" =>
              parent[t] \in MadeBlocks /\ terminator[parent[t]] = t
<1>1. ASSUME NEW b \in MadeBlocks
      PROVE  /\ b \in Blocks /\ terminator[b] \in Terminators \cap made
             /\ parent[terminator[b]] = b /\ status[terminator[b]] = "CONNECTED"
             /\ Listed(terminator[b]) /\ Ending(b) = terminator[b]
  <2>1. b \in Blocks /\ insts[b] # << >>
    BY DEF MadeBlocks, Placed, WellFormedBlocks
  <2>2. /\ Ending(b) = terminator[b] /\ Ending(b) \in Terminators
        /\ parent[Ending(b)] = b /\ Listed(Ending(b))
    BY <2>1, PlacedFacts
  <2>3. Ending(b) \in Insts \ Phi
    BY <2>2, ClassesAssumption DEF Insts
  <2> QED
    BY <2>1, <2>2, <2>3 DEF Placed, Founded, SingleOwner
<1>2. ASSUME NEW t \in Terminators, status[t] = "CONNECTED"
      PROVE  parent[t] \in MadeBlocks /\ terminator[parent[t]] = t
  <2>1. Listed(t)
    BY <1>2, ClassesAssumption DEF Placed, SingleOwner, Insts
  <2>2. PICK b \in Blocks : \E k \in DOMAIN insts[b] : insts[b][k] = t
    BY <2>1 DEF Listed
  <2>3. PICK k \in DOMAIN insts[b] : insts[b][k] = t
    BY <2>2
  <2>4. insts[b] # << >> /\ k = Len(insts[b])
    BY <2>3, PlacedFacts
  <2>5. Ending(b) = t
    BY <2>3, <2>4 DEF Ending
  <2> QED
    BY <2>4, <2>5, PlacedFacts
<1> QED
  BY <1>1, <1>2

(* There are no edges and no targets at first.                             *)
LEMMA InitExact == Init => Exact
BY DEF Init, NoEdges, Exact

(* An operation that leaves blocks, endings, targets and edges alone.      *)
LEMMA SameExact ==
  ASSUME Exact, UNCHANGED <<made, terminator, target, jumps_to>>
  PROVE  Exact'
BY DEF Exact

(* A terminator that is no block's is constructed or destroyed.            *)
LEMMA OutsideExact ==
  ASSUME Placed, Exact, NEW t \in Terminators, NEW tg,
         \A b \in MadeBlocks : terminator[b] # t,
         target' = [target EXCEPT ![t] = tg],
         \/ made' = made \cup {t}
         \/ made' = made \ {t} /\ tg = NoTargets,
         UNCHANGED <<terminator, jumps_to>>
  PROVE  Exact'
<1>1. target'[t] = tg /\ \A x \in Terminators \ {t} : target'[x] = target[x]
  BY DEF Placed, TypeOK
<1>2. \A b \in Blocks : b \in made' <=> b \in made
  BY ClassesAssumption DEF Insts
<1>3. \A b \in MadeBlocks : terminator[b] \in Terminators \ {t}
  BY Mounted
<1> QED
  BY <1>1, <1>2, <1>3 DEF Exact, MadeBlocks

(* An operation that edits the targets of t makes them tg and changes the  *)
(* edges of its block, if it has one, to match.                            *)
Edits(t, tg) ==
  /\ t \in made /\ target' = [target EXCEPT ![t] = tg] /\ UNCHANGED <<made, terminator>>
  /\ \A b \in MadeBlocks, q \in Blocks :
       jumps_to'[b][q] = IF terminator[b] = t THEN Uses(tg, q) ELSE jumps_to[b][q]
  /\ \A b \in Blocks \ made, q \in Blocks : jumps_to'[b][q] = jumps_to[b][q]

(* Such an edit keeps the edges exact.                                     *)
LEMMA EditExact ==
  ASSUME Placed, Exact, NEW t \in Terminators, NEW tg, Edits(t, tg)
  PROVE  Exact'
<1>1. target'[t] = tg /\ \A x \in Terminators \ {t} : target'[x] = target[x]
  BY DEF Placed, TypeOK, Edits
<1>2. \A b \in MadeBlocks : terminator[b] \in Terminators
  BY Mounted
<1> QED
  BY <1>1, <1>2 DEF Exact, MadeBlocks, Edits

(* Writing q to the slots of S, and the edges that go with it.             *)
Rewritten(tg, S, q) == [s \in Slots |-> IF s \in S THEN q ELSE tg[s]]

Rewrites(t, S, q) ==
  /\ Editable(t)
  /\ target' = [target EXCEPT ![t] = Rewritten(target[t], S, q)]
  /\ UNCHANGED <<made, terminator>>
  /\ \A b, x \in Blocks :
       jumps_to'[b][x] = IF b = parent[t]
                         THEN Minus(jumps_to[b][x], Count(target[t], S)[x])
                              + (IF x = q THEN Cardinality(S) ELSE 0)
                         ELSE jumps_to[b][x]

(* Such a rewriting is an edit, because t is the ending of its parent.     *)
LEMMA RewriteExact ==
  ASSUME Calls = {}, Placed, Exact, NEW t \in Terminators,
         NEW S \in SUBSET Slots, NEW q, Rewrites(t, S, q)
  PROVE  Exact'
<1> DEFINE tg == Rewritten(target[t], S, q)
<1>1. t \in made /\ (parent[t] = Null \/ status[t] = "CONNECTED")
  BY DEF Rewrites, Editable
<1>2. \A b \in MadeBlocks : terminator[b] = t <=> b = parent[t]
  BY <1>1, Mounted, ClassesAssumption DEF MadeBlocks
<1>3. \A b \in Blocks : b = parent[t] => b \in MadeBlocks
  BY <1>1, Mounted, ClassesAssumption
<1>4. \A x \in Blocks : Uses(tg, x) = Minus(Uses(target[t], x), Count(target[t], S)[x])
                                      + (IF x = q THEN Cardinality(S) ELSE 0)
  BY RewriteUses DEF Rewritten
<1> HIDE DEF tg
<1>5. ASSUME NEW b \in MadeBlocks, NEW x \in Blocks
      PROVE  jumps_to'[b][x] = IF terminator[b] = t THEN Uses(tg, x) ELSE jumps_to[b][x]
  <2>1. b \in Blocks /\ b \in made
    BY DEF MadeBlocks
  <2>2. CASE terminator[b] = t
    <3>1. jumps_to[b][x] = Uses(target[t], x) /\ b = parent[t]
      BY <1>2, <2>1, <2>2 DEF Exact
    <3> QED
      BY <1>4, <2>1, <2>2, <3>1 DEF Rewrites
  <2>3. CASE terminator[b] # t
    BY <1>2, <2>1, <2>3 DEF Rewrites
  <2> QED
    BY <2>2, <2>3
<1>6. \A b \in Blocks \ made, x \in Blocks : jumps_to'[b][x] = jumps_to[b][x]
  BY <1>3 DEF MadeBlocks, Rewrites
<1>7. Edits(t, tg)
  BY <1>1, <1>5, <1>6 DEF Edits, Rewrites, tg
<1> QED
  BY <1>7, EditExact

(* One slot is written.                                                    *)
LEMMA SetSlotExact ==
  ASSUME Calls = {}, Placed, Exact, NEW t \in JumpBases, NEW s, NEW q, set_slot(t, s, q)
  PROVE  Exact'
<1>1. t \in Terminators /\ s \in Slots
  BY SlotsOfClass DEF set_slot, Slots, JumpBases, Terminators
<1>2. Editable(t) /\ UNCHANGED <<made, terminator>>
  BY DEF set_slot
<1>3. target' = [target EXCEPT ![t] = Rewritten(target[t], {s}, q)]
  <2>1. target \in [Terminators -> [Slots -> Blocks \cup {Null}]]
    BY DEF Placed, TypeOK
  <2>2. [target[t] EXCEPT ![s] = q] = Rewritten(target[t], {s}, q)
    BY <1>1, <2>1 DEF Rewritten
  <2>3. target' = [target EXCEPT ![t] = [target[t] EXCEPT ![s] = q]]
    BY <1>1, <2>1 DEF set_slot
  <2> QED
    BY <2>2, <2>3
<1>4. ASSUME NEW x \in Blocks
      PROVE  /\ Count(target[t], {s})[x] = One(target[t][s])[x]
             /\ One(q)[x] = IF x = q THEN Cardinality({s}) ELSE 0
  <2>1. {y \in {s} : target[t][y] = x} = IF target[t][s] = x THEN {s} ELSE {}
    OBVIOUS
  <2>2. Cardinality({s}) = 1 /\ Cardinality({}) = 0
    BY FS_Singleton, FS_EmptySet
  <2>3. Count(target[t], {s})[x] = IF target[t][s] = x THEN 1 ELSE 0
    BY <2>1, <2>2 DEF Count
  <2> QED
    BY <2>2, <2>3 DEF One
<1>5. ASSUME NEW b \in Blocks, NEW x \in Blocks
      PROVE  jumps_to'[b][x] = IF b = parent[t]
                               THEN Minus(jumps_to[b][x], Count(target[t], {s})[x])
                                    + (IF x = q THEN Cardinality({s}) ELSE 0)
                               ELSE jumps_to[b][x]
  <2> DEFINE less == Unregister(Graph, parent[t], One(target[t][s]))
  <2>1. jumps_to'[b][x] = Register(less, parent[t], One(q)).to[b][x]
    BY DEF set_slot, SetGraph
  <2>2. less.to[b][x] = IF b = parent[t] THEN Minus(jumps_to[b][x], One(target[t][s])[x])
                        ELSE jumps_to[b][x]
    BY DEF Unregister, Graph
  <2> HIDE DEF less
  <2>3. Register(less, parent[t], One(q)).to[b][x]
          = IF b = parent[t] THEN less.to[b][x] + One(q)[x] ELSE less.to[b][x]
    BY DEF Register
  <2> QED
    BY <1>4, <2>1, <2>2, <2>3
<1>6. {s} \in SUBSET Slots
  BY <1>1
<1>7. Rewrites(t, {s}, q)
  BY <1>2, <1>3, <1>5 DEF Rewrites
<1> QED
  BY <1>1, <1>6, <1>7, RewriteExact

(* Unregistering the targets of the slots S.                               *)
LEMMA ClearExact ==
  ASSUME Calls = {}, Placed, Exact, NEW t \in Terminators, Editable(t), NEW S \in SUBSET Slots,
         target' = [target EXCEPT ![t] = Rewritten(target[t], S, Null)],
         UNCHANGED <<made, terminator>>,
         SetGraph(Unregister(Graph, parent[t], Count(target[t], S)))
  PROVE  Exact'
<1>1. ASSUME NEW b \in Blocks, NEW x \in Blocks
      PROVE  jumps_to'[b][x] = IF b = parent[t]
                               THEN Minus(jumps_to[b][x], Count(target[t], S)[x])
                                    + (IF x = Null THEN Cardinality(S) ELSE 0)
                               ELSE jumps_to[b][x]
  <2> DEFINE gone == Count(target[t], S)
  <2>1. jumps_to'[b][x] = IF b = parent[t] THEN Minus(jumps_to[b][x], gone[x]) ELSE jumps_to[b][x]
    BY DEF SetGraph, Graph, Unregister
  <2>2. gone \in [Blocks -> Nat]
    BY CountType
  <2>3. jumps_to[b][x] \in Nat
    BY DEF Placed, TypeOK
  <2> HIDE DEF gone
  <2>4. Minus(jumps_to[b][x], gone[x]) \in Nat
    BY <2>2, <2>3 DEF Minus
  <2>5. x # Null
    BY ClassesAssumption
  <2> QED
    BY <2>1, <2>4, <2>5 DEF gone
<1>2. Rewrites(t, S, Null)
  BY <1>1 DEF Rewrites
<1> QED
  BY <1>2, RewriteExact

(* Targets are removed.                                                    *)
LEMMA RemoveExact ==
  ASSUME Calls = {}, Placed, Exact, NEW t \in JumpBases, NEW X,
         remove_target(t, X) \/ switch_remove_if(t, X)
  PROVE  Exact'
<1> DEFINE S == {s \in Slots : target[t][s] \in X}
<1>1. t \in Terminators /\ S \in SUBSET Slots
  BY DEF Terminators
<1>2. /\ Editable(t) /\ UNCHANGED <<made, terminator>>
      /\ target' = [target EXCEPT ![t] = Rewritten(target[t], S, Null)]
      /\ SetGraph(Unregister(Graph, parent[t], Count(target[t], S)))
  BY <1>1 DEF remove_target, switch_remove_if, Rewritten, Placed, TypeOK
<1> HIDE DEF S
<1> QED
  BY <1>1, <1>2, ClearExact

(* All targets are removed when a terminator is finalized.                 *)
LEMMA CleanExact ==
  ASSUME Calls = {}, Placed, Exact, NEW t \in JumpBases,
         clean_jump(t) \/ clean_branch(t) \/ clean_switch(t)
  PROVE  Exact'
<1>1. t \in Terminators /\ clean_slots(t, Slots)
  BY DEF Terminators, clean_jump, clean_branch, clean_switch
<1>2. /\ Editable(t) /\ UNCHANGED <<made, terminator>>
      /\ target' = [target EXCEPT ![t] = Rewritten(target[t], Slots, Null)]
      /\ SetGraph(Unregister(Graph, parent[t], Count(target[t], Slots)))
  BY <1>1 DEF clean_slots, Rewritten, Targets, Placed, TypeOK
<1> QED
  BY <1>1, <1>2, ClearExact

(* Targets are replaced.                                                   *)
LEMMA ReplaceExact ==
  ASSUME Calls = {}, Placed, Exact, NEW t \in JumpBases, NEW S, NEW old, NEW q,
         replace_target(t, S, old, q)
  PROVE  Exact'
<1> DEFINE p      == parent[t]
           gone   == Count(target[t], S)
           others == [r \in Blocks |-> IF r = q THEN Cardinality(S \ Cases) ELSE 0]
           less   == Unregister(Graph, p, gone)
<1>1. /\ t \in Terminators /\ S \in SUBSET Slots /\ S \ Cases = S
      /\ Editable(t) /\ UNCHANGED <<made, terminator>>
      /\ target' = [target EXCEPT ![t] = Rewritten(target[t], S, q)]
  BY DEF replace_target, Terminators, Rewritten, Placed, TypeOK
<1>2. jumps_to' = Register(less, p, others).to
  BY DEF replace_target
<1>3. \A x \in Blocks : others[x] = IF x = q THEN Cardinality(S) ELSE 0
  BY <1>1
<1>4. \A b, x \in Blocks :
        less.to[b][x] = IF b = p THEN Minus(jumps_to[b][x], gone[x]) ELSE jumps_to[b][x]
  BY DEF Unregister, Graph
<1> HIDE DEF others, less, gone
<1>5. \A b, x \in Blocks :
        jumps_to'[b][x] = IF b = p THEN less.to[b][x] + others[x] ELSE less.to[b][x]
  BY <1>2 DEF Register
<1>6. Rewrites(t, S, q)
  BY <1>1, <1>3, <1>4, <1>5 DEF Rewrites, gone
<1> QED
  BY <1>1, <1>6, RewriteExact

(* The targets of a branch change places, and no count changes.            *)
LEMMA SwapExact ==
  ASSUME Placed, Exact, NEW t \in JumpBases, swapTargets(t)
  PROVE  Exact'
<1> DEFINE tg == [target[t] EXCEPT !["default"] = target[t]["true"],
                                   !["true"] = target[t]["default"]]
<1>1. t \in Terminators /\ t \in made /\ UNCHANGED <<made, terminator, jumps_to>>
  BY DEF swapTargets, Terminators, edges
<1>2. target[t] \in [Slots -> Blocks \cup {Null}]
  BY <1>1 DEF Placed, TypeOK
<1>3. target' = [target EXCEPT ![t] = tg]
  BY <1>1 DEF swapTargets, Placed, TypeOK
<1>4. \A x \in Blocks : Uses(tg, x) = Uses(target[t], x)
  BY <1>2, SwapUses
<1> HIDE DEF tg
<1>5. \A b \in MadeBlocks, q \in Blocks :
        jumps_to'[b][q] = IF terminator[b] = t THEN Uses(tg, q) ELSE jumps_to[b][q]
  BY <1>1, <1>4 DEF Exact, MadeBlocks
<1>6. Edits(t, tg)
  BY <1>1, <1>3, <1>5 DEF Edits
<1> QED
  BY <1>1, <1>6, EditExact

(* A new block has the edges of the terminator it was made with.           *)
LEMMA NewBlockExact ==
  ASSUME Calls = {}, Placed, Exact, NEW b \in Blocks, NEW t \in Terminators, NewBlock(b, t)
  PROVE  Exact'
<1>1. /\ b \notin made /\ status[t] = "DISCONNECTED" /\ made' = made \cup {b, t}
      /\ terminator' = [terminator EXCEPT ![b] = t] /\ UNCHANGED target
      /\ SetGraph(PlugGraph(Graph, t, b))
  BY DEF NewBlock
<1>2. PlugRegisters(t, b)
  BY <1>1 DEF PlugRegisters
<1>3. \A c, q \in Blocks :
        jumps_to'[c][q] = IF c = b THEN jumps_to[c][q] + Targets(t)[q] ELSE jumps_to[c][q]
  BY <1>1, <1>2 DEF SetGraph, PlugGraph, Register, Graph
<1>4. \A q \in Blocks : Targets(t)[q] = Uses(target[t], q) /\ Uses(target[t], q) \in Nat
  BY UsesCount DEF Targets
<1>5. terminator'[b] = t /\ \A c \in Blocks \ {b} : terminator'[c] = terminator[c]
  BY <1>1 DEF Placed, TypeOK
<1>6. \A c \in Blocks : c \in made' <=> c \in made \/ c = b
  BY <1>1, ClassesAssumption DEF Insts
<1>7. \A q \in Blocks : jumps_to[b][q] = 0
  BY <1>1 DEF Exact
<1>8. \A c, q \in Blocks :
        jumps_to'[c][q] = IF c \in made' THEN Uses(target[terminator'[c]], q) ELSE 0
  BY <1>3, <1>4, <1>5, <1>6, <1>7 DEF Exact
<1> QED
  BY <1>1, <1>8 DEF Exact

(* Replacing a terminator takes its edges away and adds those of the new   *)
(* one, which is not connected anywhere.                                   *)
LEMMA SetTerminatorExact ==
  ASSUME Calls = {}, Placed, Exact, NEW b \in MadeBlocks, NEW t \in Terminators,
         set_terminator(b, t)
  PROVE  Exact'
<1> DEFINE old == Ending(b)
<1>1. /\ b \in Blocks /\ b \in made /\ old = terminator[b] /\ old \in Terminators
      /\ parent[old] = b
  BY Mounted DEF MadeBlocks
<1>2. status[t] = "DISCONNECTED" /\ old # t
  BY <1>1 DEF set_terminator
<1>3. /\ SetGraph(PlugGraph(UnplugGraph(Graph, old), t, b))
      /\ terminator' = [terminator EXCEPT ![b] = t] /\ UNCHANGED <<made, target>>
  BY <1>1, <1>2 DEF set_terminator
<1> HIDE DEF old
<1>4. PlugRegisters(t, b)
  BY <1>2 DEF PlugRegisters
<1>5. \A c, q \in Blocks :
        jumps_to'[c][q] = IF c = b THEN Minus(jumps_to[c][q], Targets(old)[q]) + Targets(t)[q]
                          ELSE jumps_to[c][q]
  BY <1>1, <1>3, <1>4 DEF SetGraph, PlugGraph, UnplugGraph, Register, Unregister, Graph
<1>6. \A x \in Terminators, q \in Blocks :
        Targets(x)[q] = Uses(target[x], q) /\ Uses(target[x], q) \in Nat
  BY UsesCount DEF Targets
<1>7. \A q \in Blocks : Minus(jumps_to[b][q], Targets(old)[q]) = 0
  BY <1>1, <1>6 DEF Exact, Minus
<1>8. terminator'[b] = t /\ \A c \in Blocks \ {b} : terminator'[c] = terminator[c]
  BY <1>1, <1>3 DEF Placed, TypeOK
<1>9. \A c, q \in Blocks :
        jumps_to'[c][q] = IF c \in made THEN Uses(target[terminator'[c]], q) ELSE 0
  BY <1>1, <1>5, <1>6, <1>7, <1>8 DEF Exact
<1> QED
  BY <1>3, <1>9 DEF Exact

(* A split hands the edges of the old block to the new one and leaves the  *)
(* old block the edge of its new jump.                                     *)
LEMMA CutExact ==
  ASSUME Placed, Exact, NEW b \in MadeBlocks, NEW k \in Nat, NEW r \in Blocks \ made,
         NEW j \in Jump, j \notin made, Cut(b, k, r, j)
  PROVE  Exact'
<1> DEFINE last == Ending(b)
<1>1. /\ b \in Blocks /\ b \in made /\ last = terminator[b] /\ last \in Terminators \cap made
      /\ parent[last] = b /\ r # b
  BY Mounted DEF MadeBlocks
<1>2. /\ j \in Terminators /\ j # last /\ j \notin Blocks
  BY <1>1, ClassesAssumption DEF Terminators, JumpBases, Insts
<1>3. /\ made' = made \cup {r, j} /\ terminator' = [terminator EXCEPT ![b] = j, ![r] = last]
      /\ target' = [target EXCEPT ![j]["default"] = r]
      /\ SetGraph(Register(Register(UnplugGraph(Graph, last), b, One(r)), r, Targets(last)))
  BY DEF Cut
<1> HIDE DEF last
<1>4. \A c, q \in Blocks :
        jumps_to'[c][q] = IF c = b THEN Minus(jumps_to[c][q], Targets(last)[q]) + One(r)[q]
                          ELSE IF c = r THEN jumps_to[c][q] + Targets(last)[q]
                          ELSE jumps_to[c][q]
  BY <1>1, <1>3 DEF SetGraph, UnplugGraph, Register, Unregister, Graph
<1>5. \A q \in Blocks : Targets(last)[q] = Uses(target[last], q) /\ Uses(target[last], q) \in Nat
  BY UsesCount DEF Targets
<1>6. \A q \in Blocks : /\ Minus(jumps_to[b][q], Targets(last)[q]) = 0
                        /\ jumps_to[r][q] = 0
  BY <1>1, <1>5 DEF Exact, Minus
<1>7. /\ terminator'[b] = j /\ terminator'[r] = last
      /\ \A c \in Blocks \ {b, r} : terminator'[c] = terminator[c]
  BY <1>1, <1>3 DEF Placed, TypeOK
<1>8. /\ target'[j] = [NoTargets EXCEPT !["default"] = r]
      /\ \A x \in Terminators \ {j} : target'[x] = target[x]
  BY <1>2, <1>3 DEF Placed, TypeOK, Exact
<1>9. \A q \in Blocks : Uses(target'[j], q) = One(r)[q] /\ One(r)[q] \in Nat
  BY <1>8, FewUses, OneType
<1>10. \A c \in Blocks : c \in made' <=> c \in made \/ c = r
  BY <1>2, <1>3
<1>11. \A c \in MadeBlocks : terminator[c] \in Terminators \ {j}
  BY Mounted
<1>12. ASSUME NEW c \in Blocks, NEW q \in Blocks
       PROVE  jumps_to'[c][q] = IF c \in made' THEN Uses(target'[terminator'[c]], q) ELSE 0
  <2>1. CASE c = b
    BY <1>1, <1>4, <1>6, <1>7, <1>9, <1>10, <2>1
  <2>2. CASE c = r
    BY <1>1, <1>2, <1>4, <1>5, <1>6, <1>7, <1>8, <1>10, <2>2
  <2>3. CASE c \notin {b, r}
    BY <1>4, <1>7, <1>8, <1>10, <1>11, <2>3 DEF Exact, MadeBlocks
  <2> QED
    BY <2>1, <2>2, <2>3
<1>13. \A x \in Terminators \ made' : target'[x] = NoTargets
  BY <1>3, <1>8 DEF Exact
<1> QED
  BY <1>12, <1>13 DEF Exact

(* Every step keeps the edges exact.                                       *)
LEMMA NextExact ==
  ASSUME Calls = {}, Placed, Placed', Exact, [Next]_vars
  PROVE  Exact'
<1>0. ListsRespected
  BY DEF ListsRespected
<1>1. CASE UNCHANGED vars
  BY <1>1, SameExact DEF vars, edges
<1>2. ASSUME NEW t \in Terminators, ~Listed(t) PROVE \A b \in MadeBlocks : terminator[b] # t
  BY <1>2, Mounted
<1>3. ASSUME NEW t, NEW p, NEW tg, NewTerminator(t, p, tg) PROVE Exact'
  <2>1. /\ t \in Terminators /\ t \notin made /\ made' = made \cup {t}
        /\ target' = [target EXCEPT ![t] = tg] /\ UNCHANGED <<terminator, jumps_to>>
    BY <1>3 DEF NewTerminator, Terminators, edges
  <2>2. \A b \in MadeBlocks : terminator[b] # t
    BY <1>2, <2>1 DEF Placed, Founded
  <2> QED
    BY <2>1, <2>2, OutsideExact
<1>4. ASSUME NEW t \in Terminators, Release(t) PROVE Exact'
  <2>1. /\ ~Listed(t) /\ made' = made \ {t} /\ target' = [target EXCEPT ![t] = NoTargets]
        /\ UNCHANGED <<terminator, jumps_to>>
    BY <1>4 DEF Release, edges
  <2> QED
    BY <1>2, <2>1, OutsideExact
<1>5. ASSUME NEW i,
             \/ \E b \in MadeBlocks : append(b, i) \/ prepend(b, i)
             \/ \E at \in Insts : append_to(at, i) \/ prepend_to(at, i)
             \/ \E st \in {"DISCONNECTED", "FINALIZED"} : unplugThis(i, st)
             \/ \E b \in MadeBlocks : \E k \in DOMAIN insts[b] : replace_this(b, k, i)
      PROVE  Exact'
  <2>1. UNCHANGED <<made, terminator, target, jumps_to>>
    BY <1>5 DEF append, prepend, append_to, prepend_to, InsertInto, unplugThis, replace_this, edges
  <2> QED
    BY <2>1, SameExact
<1>6. ASSUME NEW i \in Insts, NEW r \in Blocks \ made, NEW j \in Jump \ made,
             NEW u \in Unreachable \ made, split(i, r, j, u)
      PROVE  Exact'
  <2>1. PICK b \in MadeBlocks, k \in Nat : k \in 1 .. Len(insts[b]) /\ Cut(b, k, r, j)
    BY <1>0, <1>6, SplitCuts
  <2> QED
    BY <2>1, CutExact
<1>7. ASSUME NEW t \in JumpBases, NEW c, NEW q,
             \/ set_default_target(t, q) \/ set_if_true(t, q)
             \/ setCase(t, c, q) \/ removeCase(t, c)
      PROVE  Exact'
  BY <1>7, SetSlotExact DEF set_default_target, set_if_true, setCase, removeCase
<1>8. CASE Next
  <2>1. CASE \/ \E t \in Jump, p, q \in MadeBlocks : NewJump(t, p, q)
             \/ \E t \in Branch, p, q \in MadeBlocks : NewBranch(t, p, q)
             \/ \E t \in Switch, q \in MadeBlocks, cases \in [Cases -> MadeBlocks \cup {Null}] :
                  NewSwitch(t, q, cases)
    BY <1>3, <2>1 DEF NewJump, NewBranch, NewSwitch
  <2>2. CASE \/ \E t \in JumpBases, q \in MadeBlocks \cup {Null} :
                  set_default_target(t, q) \/ set_if_true(t, q)
             \/ \E t \in Switch, c \in Cases :
                  removeCase(t, c) \/ \E q \in MadeBlocks : setCase(t, c, q)
    BY <1>7, <2>2 DEF JumpBases
  <2>3. CASE \/ \E t \in JumpBases, X \in SUBSET MadeBlocks :
                  remove_target(t, X) \/ switch_remove_if(t, X)
             \/ \E t \in JumpBases, old, q \in MadeBlocks :
                  \E S \in Replaced(t, old) : replace_target(t, S, old, q)
             \/ \E t \in JumpBases :
                  swapTargets(t) \/ clean_jump(t) \/ clean_branch(t) \/ clean_switch(t)
    BY <2>3, RemoveExact, ReplaceExact, SwapExact, CleanExact
  <2> QED
    BY <1>4, <1>5, <1>6, <1>8, <2>1, <2>2, <2>3, NewBlockExact, SetTerminatorExact DEF Next
<1> QED
  BY <1>1, <1>8

(* The invariants hold together in every reachable state.                  *)
LEMMA AlwaysExact ==
  ASSUME Calls = {}
  PROVE  Spec => [](IInv /\ Placed /\ Exact)
<1>1. Init => Exact
  BY InitExact
<1>2. Placed /\ Placed' /\ Exact /\ [Next]_vars => Exact'
  BY NextExact
<1>3. ListsRespected
  BY DEF ListsRespected
<1> QED
  BY <1>1, <1>2, <1>3, AlwaysPlaced, PTL DEF Spec

(* The edges recorded at a block are exactly the targets of its terminator,*)
(* with multiplicity, after any history of mounting, splitting, editing,   *)
(* swapping and releasing that makes none of the calls named in Calls.     *)
THEOREM AlwaysEdgesExact ==
  ASSUME Calls = {}
  PROVE  Spec => []EdgesExact
<1>1. Placed /\ Exact => EdgesExact
  <2> SUFFICES ASSUME Placed, Exact, NEW b \in MadeBlocks
               PROVE  jumps_to[b] = Count(target[Ending(b)], Slots)
    BY DEF EdgesExact
  <2>1. b \in Blocks /\ b \in made /\ Ending(b) = terminator[b]
    BY Mounted DEF MadeBlocks
  <2>2. \A q \in Blocks : jumps_to[b][q] = Count(target[Ending(b)], Slots)[q]
    BY <2>1, UsesCount DEF Exact
  <2>3. jumps_to[b] \in [Blocks -> Nat] /\ Count(target[Ending(b)], Slots) \in [Blocks -> Nat]
    BY <2>1, CountType DEF Placed, TypeOK
  <2> QED
    BY <2>2, <2>3
<1> QED
  BY <1>1, AlwaysExact, PTL
=============================================================================
