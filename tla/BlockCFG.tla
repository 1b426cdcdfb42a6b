------------------------------ MODULE BlockCFG ------------------------------
(***************************************************************************)
(* Basic blocks, their instruction lists and the control flow graph of     *)
(* MYGL-IR (ir-basicblock, ir-instruction-base, ir-instruction-ctrl-flow). *)
(*                                                                         *)
(* A block owns a list of instructions whose last one, the terminator, has *)
(* the jump targets.  The graph is stored twice, as counted sets: jumps_to *)
(* of the source block and comes_from of the target block.  No single      *)
(* piece of code keeps them: the list sends on_parent_plug/on_parent_unplug*)
(* signals, and each terminator class registers and unregisters its own    *)
(* targets in the handlers and in its setters.                             *)
(*                                                                         *)
(* Calls names the public calls, or circumstances of calls, after which    *)
(* the code does not keep the graph or the list as it promises; with       *)
(* Calls = {} the clients make every other call.                           *)
(***************************************************************************)
EXTENDS Integers, FiniteSets, SequencesExt

CONSTANTS
  Blocks,                      \* basic blocks of one function
  Plain, Phi,                  \* instructions that do not end a block
  Unreachable, Jump, Branch, Switch,     \* the terminators of each class
  Cases,                       \* case numbers of switches
  Null,
  Calls                        \* see above

JumpBases   == Jump \cup Branch \cup Switch
Terminators == Unreachable \cup JumpBases
Insts       == Plain \cup Phi \cup Terminators
Slots       == {"default", "true"} \cup Cases      \* where a target is kept

ASSUME FiniteSlots == IsFiniteSet(Slots)
ASSUME ClassesAssumption ==
  /\ Null \notin Blocks \cup Insts /\ Blocks \cap Insts = {}
  /\ Plain \cap Phi = {} /\ (Plain \cup Phi) \cap Terminators = {}
  /\ Unreachable \cap JumpBases = {} /\ Jump \cap (Branch \cup Switch) = {}
  /\ Branch \cap Switch = {} /\ Cases \cap {"default", "true"} = {}

VARIABLES
  made,        \* blocks and terminators constructed and not yet destroyed
  insts,       \* BasicBlock::_instruction_list
  terminator,  \* BasicBlock::_terminator
  parent,      \* Instruction::_parent
  status,      \* Instruction::_connect_status
  self_node,   \* the instruction in the node the proxy points to
  target,      \* _default_target, _if_true and _cases of a terminator
  jumps_to,    \* BasicBlock::_jumps_to, with use counts
  comes_from   \* BasicBlock::_comes_from, with use counts

lists == <<insts, self_node>>
edges == <<jumps_to, comes_from>>
vars  == <<made, lists, terminator, parent, status, target, edges>>

SlotsOf(t) == CASE t \in Unreachable -> {}
                [] t \in Jump        -> {"default"}
                [] t \in Branch      -> {"default", "true"}
                [] t \in Switch      -> {"default"} \cup Cases

TypeOK ==
  /\ made \subseteq Blocks \cup Terminators
  /\ insts \in [Blocks -> Seq(Insts)]
  /\ terminator \in [Blocks -> Terminators \cup {Null}]
  /\ parent \in [Insts -> Blocks \cup {Null}]
  /\ status \in [Insts -> {"DISCONNECTED", "CONNECTED", "FINALIZED"}]
  /\ self_node \in [Insts -> Insts \cup {Null}]
  /\ target \in [Terminators -> [Slots -> Blocks \cup {Null}]]
  /\ \A t \in Terminators : \A s \in Slots \ SlotsOf(t) : target[t][s] = Null
  /\ jumps_to \in [Blocks -> [Blocks -> Nat]]
  /\ comes_from \in [Blocks -> [Blocks -> Nat]]

NoTargets == [s \in Slots |-> Null]
NoEdges   == [p \in Blocks |-> [q \in Blocks |-> 0]]

Init ==
  /\ made = {}
  /\ insts = [b \in Blocks |-> << >>]
  /\ terminator = [b \in Blocks |-> Null]
  /\ parent = [i \in Insts |-> Null]
  /\ status = [i \in Insts |-> "DISCONNECTED"]
  /\ self_node = [i \in Insts |-> Null]
  /\ target = [t \in Terminators |-> NoTargets]
  /\ jumps_to = NoEdges /\ comes_from = NoEdges

-----------------------------------------------------------------------------
(* The counted sets.  addJumpsTo/addComesFrom count up, removeJumpsTo and  *)
(* removeComesFrom count down and ignore a block that is not in the set;   *)
(* a null parent or target is ignored by every caller.                     *)
MinusWraps(a, b) == a - b                    \* mutant: no test for membership
Minus(a, b) == IF a > b THEN a - b ELSE 0

Graph == [to |-> jumps_to, from |-> comes_from]

(* Targets kept in the slots S of tg, with multiplicity.                   *)
Count(tg, S) == [q \in Blocks |-> Cardinality({s \in S : tg[s] = q})]
One(q)       == [r \in Blocks |-> IF r = q THEN 1 ELSE 0]

(* Mutants: one copy of the graph is forgotten. *)
RegisterSource(g, p, m) ==
  [g EXCEPT !.to = [b \in Blocks |-> [q \in Blocks |->
                      IF b = p THEN @[b][q] + m[q] ELSE @[b][q]]]]

UnregisterTarget(g, p, m) ==
  [g EXCEPT !.from = [q \in Blocks |-> [b \in Blocks |->
                        IF b = p THEN Minus(@[q][b], m[q]) ELSE @[q][b]]]]

Register(g, p, m) ==
  [to   |-> [b \in Blocks |-> [q \in Blocks |->
               IF b = p THEN g.to[b][q] + m[q] ELSE g.to[b][q]]],
   from |-> [q \in Blocks |-> [b \in Blocks |->
               IF b = p THEN g.from[q][b] + m[q] ELSE g.from[q][b]]]]

Unregister(g, p, m) ==
  [to   |-> [b \in Blocks |-> [q \in Blocks |->
               IF b = p THEN Minus(g.to[b][q], m[q]) ELSE g.to[b][q]]],
   from |-> [q \in Blocks |-> [b \in Blocks |->
               IF b = p THEN Minus(g.from[q][b], m[q]) ELSE g.from[q][b]]]]

SetGraph(g) == jumps_to' = g.to /\ comes_from' = g.from

(* Does on_parent_plug(b) of t register anything?  A jump that is already  *)
(* connected, or a branch already connected to b, returns early.           *)
PlugRegisters(t, b) ==
  /\ t \in Jump => status[t] # "CONNECTED"
  /\ t \in Branch => ~(parent[t] = b /\ status[t] = "CONNECTED")

(* The targets of t, with multiplicity: a switch registers and unregisters *)
(* its default target and those of its cases one after another.            *)
Targets(t) == Count(target[t], Slots)

PlugGraph(g, t, b) == IF PlugRegisters(t, b) THEN Register(g, b, Targets(t)) ELSE g

(* Mutant: if_true and the cases are forgotten.                            *)
UnplugDefault(g, t) == Unregister(g, parent[t], Count(target[t], {"default"}))

UnplugGraph(g, t) == Unregister(g, parent[t], Targets(t))

(* The default signal handler only sets the parent: a phi is never marked  *)
(* as connected.                                                           *)
PluggedForgotten(i) == status[i]             \* mutant: never marked as connected
Plugged(i) == IF i \in Phi THEN status[i] ELSE "CONNECTED"

Ending(b) == insts[b][Len(insts[b])]
Listed(i) == \E b \in Blocks : \E k \in DOMAIN insts[b] : insts[b][k] = i

(* The parent the list caches for its signal is that of its last item.     *)
ListParent(b) == parent[Ending(b)]

-----------------------------------------------------------------------------
(* Construction.  No constructor touches the graph; a jump is given the    *)
(* parent it is not yet plugged to.                                        *)
NewTerminator(t, p, tg) ==
  /\ t \in JumpBases \ made
  /\ made' = made \cup {t}
  /\ parent' = [parent EXCEPT ![t] = p]
  /\ target' = [target EXCEPT ![t] = tg]
  /\ UNCHANGED <<lists, terminator, status, edges>>

NewJump(t, p, q) ==
  t \in Jump /\ NewTerminator(t, p, [NoTargets EXCEPT !["default"] = q])

NewBranch(t, if_true, if_false) ==
  /\ t \in Branch
  /\ NewTerminator(t, Null, [NoTargets EXCEPT !["default"] = if_false, !["true"] = if_true])

(* Create (cases are all Null) and CreateWithCases. *)
NewSwitch(t, q, cases) ==
  /\ t \in Switch
  /\ NewTerminator(t, Null, [s \in Slots |-> IF s = "default" THEN q
                                           ELSE IF s \in Cases THEN cases[s] ELSE Null])

(* BasicBlock::Create makes an UnreachableSSA; the other three factories   *)
(* take the terminator.  A terminator that is still connected elsewhere is *)
(* refused by the new list, but plugged to the new block all the same.     *)
NewBlock(b, t) ==
  /\ b \in Blocks \ made
  /\ t \in Unreachable \/ t \in made
  /\ IF status[t] = "DISCONNECTED" THEN ~Listed(t) ELSE "adopt_connected" \in Calls
  /\ made' = made \cup {b, t}
  /\ IF status[t] = "DISCONNECTED"
       THEN /\ insts' = [insts EXCEPT ![b] = <<t>>]
            /\ self_node' = [self_node EXCEPT ![t] = t]
       ELSE UNCHANGED lists
  /\ SetGraph(PlugGraph(Graph, t, b))
  /\ status' = [status EXCEPT ![t] = "CONNECTED"]
  /\ parent' = [parent EXCEPT ![t] = b]
  /\ terminator' = [terminator EXCEPT ![b] = t]
  /\ UNCHANGED target

(* The last reference to an instruction outside every list goes away.  No  *)
(* destructor of a terminator touches the graph.                           *)
Release(t) ==
  /\ t \in made \cap Terminators
  /\ ~Listed(t) /\ \A b \in Blocks : terminator[b] # t
  /\ made' = made \ {t}
  /\ status' = [status EXCEPT ![t] = "DISCONNECTED"]
  /\ parent' = [parent EXCEPT ![t] = Null]
  /\ self_node' = [self_node EXCEPT ![t] = Null]
  /\ target' = [target EXCEPT ![t] = NoTargets]
  /\ UNCHANGED <<insts, terminator, edges>>

-----------------------------------------------------------------------------
(* The instruction list.  Insertion of i at position k of block b, with    *)
(* the checks of ListAction: a non-empty list takes any disconnected       *)
(* instruction that does not end a block.                                  *)
InsertInto(b, k, i) ==
  /\ insts[b] # << >>
  /\ i \in Plain \cup Phi /\ status[i] = "DISCONNECTED"
  /\ Listed(i) => "phi_remount" \in Calls
  /\ insts' = [insts EXCEPT ![b] = InsertAt(@, k, i)]
  /\ self_node' = [self_node EXCEPT ![i] = i]
  /\ parent' = [parent EXCEPT ![i] = ListParent(b)]
  /\ status' = [status EXCEPT ![i] = Plugged(i)]
  /\ UNCHANGED <<made, terminator, target, edges>>

appendBehind(b, i) == InsertInto(b, Len(insts[b]) + 1, i)   \* mutant: append means the end
append(b, i)  == InsertInto(b, Len(insts[b]), i)
prepend(b, i) == InsertInto(b, 1, i)

(* Instruction::prepend and ::append, around the node the proxy points to. *)
(* Behind the terminator the list makes no difference.                     *)
prepend_to(at, i) ==
  \E b \in Blocks : \E k \in DOMAIN insts[b] :
    /\ insts[b][k] = self_node[at] /\ insts[b][k] # i
    /\ InsertInto(b, k, i)

append_to(at, i) ==
  \E b \in Blocks : \E k \in DOMAIN insts[b] :
    /\ insts[b][k] = self_node[at] /\ insts[b][k] # i
    /\ insts[b][k] \in Terminators => "after_ending" \in Calls
    /\ InsertInto(b, k + 1, i)

(* unplugThis (st = DISCONNECTED) and removeThisIfUnused (st = FINALIZED). *)
(* The list refuses to remove a terminator, the status is written anyway.  *)
(* No proxy but that of the removed element may point to the node, which   *)
(* is deleted.                                                             *)
unplugThis(i, st) ==
  /\ \/ \E b \in Blocks : \E k \in DOMAIN insts[b] :
          LET e == self_node[i] IN
          /\ e \in Plain \cup Phi /\ insts[b][k] = e
          /\ \A j \in Insts \ {e} : self_node[j] # e
          /\ insts' = [insts EXCEPT ![b] = RemoveAt(@, k)]
          /\ self_node' = [self_node EXCEPT ![e] = Null]
          /\ status' = [status EXCEPT ![e] = "DISCONNECTED", ![i] = st]
     \/ /\ Listed(i) /\ self_node[i] \in Terminators \cup {Null}
        /\ i \in Terminators => "unplug_ending" \in Calls
        /\ status' = [status EXCEPT ![i] = st]
        /\ UNCHANGED lists
  /\ UNCHANGED <<made, terminator, parent, target, edges>>

(* Modifier::replace_this on an instruction that does not end a block: the *)
(* node changes its element, no proxy changes its node.                    *)
replace_this(b, k, i) ==
  /\ "replace_plain" \in Calls
  /\ insts[b][k] \in Plain \cup Phi /\ insts[b][k] # i
  /\ i \in Plain \cup Phi /\ status[i] = "DISCONNECTED" /\ ~Listed(i)
  /\ LET old == insts[b][k] IN
     /\ insts' = [insts EXCEPT ![b][k] = i]
     /\ self_node' = [j \in Insts |-> IF self_node[j] = old THEN i ELSE self_node[j]]
     /\ parent' = [parent EXCEPT ![i] = parent[old]]
     /\ status' = [status EXCEPT ![old] = "DISCONNECTED", ![i] = Plugged(i)]
  /\ UNCHANGED <<made, terminator, target, edges>>

(* BasicBlock::set_terminator, swapOutEnding and appendOrReplaceBack with  *)
(* a terminator.  The replacement is refused when t is still connected or  *)
(* the last item is not a terminator; _terminator is written all the same. *)
set_terminator(b, t) ==
  /\ insts[b] # << >>
  /\ t \in made \cap Terminators /\ t # terminator[b]
  /\ IF status[t] = "DISCONNECTED" THEN ~Listed(t) ELSE "adopt_connected" \in Calls
  /\ LET old == Ending(b)
         gone == UnplugGraph(Graph, old)
     IN  IF status[t] = "DISCONNECTED" /\ old \in Terminators \ {t}
         THEN /\ insts' = [insts EXCEPT ![b][Len(insts[b])] = t]
              /\ self_node' = [j \in Insts |-> IF self_node[j] = old THEN t
                                               ELSE self_node[j]]
              /\ SetGraph(PlugGraph(gone, t, parent[old]))
              /\ parent' = [parent EXCEPT ![t] = parent[old]]
              /\ status' = [status EXCEPT ![old] = "DISCONNECTED", ![t] = "CONNECTED"]
         ELSE UNCHANGED <<lists, edges, parent, status>>
  /\ terminator' = [terminator EXCEPT ![b] = t]
  /\ UNCHANGED <<made, target>>

(* BasicBlock::split(i): everything from i on goes to the new block r, and *)
(* the new jump j ends the old one.  From the middle (block_move_back) the *)
(* instructions are appended to r before its terminator; from the front    *)
(* (block_move_all) behind it, so that u, the terminator r was made with,  *)
(* comes first and the old terminator is refused.  The guards exclude the  *)
(* exceptions and null dereferences of the code.                           *)
KeptOneMore(list, k) == SubSeq(list, 1, k)    \* mutant: new_begin stays as well
Kept(list, k)  == SubSeq(list, 1, k - 1)
Moved(list, k) == SubSeq(list, k, Len(list))

split(i, r, j, u) ==
  LET b    == parent[i]
      list == insts[b]
      size == Len(list)
      last == Ending(b)
      k    == IF i \in Terminators THEN size
              ELSE CHOOSE n \in DOMAIN list : list[n] = i
      moved   == ToSet(Front(Moved(list, k)))
      away    == Register(UnplugGraph(Graph, last), parent[last], One(r))
      atFront == k = 1 /\ moved # {}
      tail    == IF atFront THEN <<u>> \o Front(list) ELSE Moved(list, k)
  IN
  /\ status[i] = "CONNECTED" /\ b # Null
  /\ list # << >> /\ last \in Terminators
  /\ i \in Terminators => self_node[i] # Null \/ size = 1
  /\ i \notin Terminators => i \in ToSet(list)
  /\ \A n \in Insts, m \in moved : self_node[n] = m <=> n = m
  /\ atFront => "split_front" \in Calls
  /\ made' = made \cup {r, j} \cup (IF atFront THEN {u} ELSE {})
  /\ insts' = [insts EXCEPT ![b] = Kept(list, k) \o <<j>>, ![r] = tail]
  /\ self_node' = [n \in Insts |-> IF self_node[n] = last THEN j
                                   ELSE IF n = u /\ atFront THEN u ELSE self_node[n]]
  /\ terminator' = [terminator EXCEPT ![b] = j, ![r] = last]
  /\ target' = [target EXCEPT ![j]["default"] = r]
  /\ SetGraph(IF atFront THEN away
              ELSE Register(away, r, Targets(last)))
  /\ LET mounted == moved \cup {j} \cup (IF atFront THEN {u} ELSE {last}) IN
     /\ parent' = [n \in Insts |-> IF n = j THEN parent[last]
                                   ELSE IF n \in mounted THEN r ELSE parent[n]]
     /\ status' = [n \in Insts |->
                     IF n \in mounted /\ n \notin Phi THEN "CONNECTED"
                     ELSE IF n \in mounted \cup {last} THEN "DISCONNECTED" ELSE status[n]]

-----------------------------------------------------------------------------
(* Editing targets.  Every setter moves edges whenever the parent is not   *)
(* null, and a detached terminator keeps its parent.                       *)
Editable(t) ==
  /\ t \in made
  /\ parent[t] # Null /\ status[t] # "CONNECTED" => "edit_detached" \in Calls

(* What every setter of one slot does. *)
set_slot(t, s, q) ==
  /\ Editable(t) /\ s \in SlotsOf(t) /\ target[t][s] # q
  /\ target' = [target EXCEPT ![t][s] = q]
  /\ SetGraph(Register(Unregister(Graph, parent[t], One(target[t][s])), parent[t], One(q)))
  /\ UNCHANGED <<made, lists, terminator, parent, status>>

set_default_target(t, q) == set_slot(t, "default", q)
set_if_true(t, q) == t \in Branch /\ set_slot(t, "true", q)
setCase(t, c, q)  == t \in Switch /\ q # Null /\ set_slot(t, c, q)
removeCase(t, c)  == t \in Switch /\ set_slot(t, c, Null)

(* remove_target (X has one block) and remove_target_if: all slots with a  *)
(* target in X lose it.                                                    *)
remove_target(t, X) ==
  LET S == {s \in Slots : target[t][s] \in X} IN
  /\ Editable(t) /\ S # {}
  /\ target' = [target EXCEPT ![t] = [s \in Slots |-> IF s \in S THEN Null ELSE @[s]]]
  /\ SetGraph(Unregister(Graph, parent[t], Count(target[t], S)))
  /\ UNCHANGED <<made, lists, terminator, parent, status>>

(* The overload of SwitchSSA::remove_target_if that takes a closure drops  *)
(* an edge to the default target for every case it erases.                 *)
switch_remove_if(t, X) ==
  LET S == {c \in Cases : target[t][c] \in X}
      d == target[t]["default"]
  IN
  /\ "switch_remove_if" \in Calls
  /\ Editable(t) /\ t \in Switch /\ S # {} /\ d \notin X \cup {Null}
  /\ target' = [target EXCEPT ![t] = [s \in Slots |-> IF s \in S THEN Null ELSE @[s]]]
  /\ SetGraph(Unregister(Graph, parent[t],
                         [q \in Blocks |-> IF q = d THEN Cardinality(S) ELSE 0]))
  /\ UNCHANGED <<made, lists, terminator, parent, status>>

(* replace_target (S: every slot with target old) and replace_target_once  *)
(* (S: the first one).  For each case of a switch, parent->addComesFrom(q) *)
(* is called where parent->addJumpsTo(q) belongs.                          *)
replace_target(t, S, old, q) ==
  LET p == parent[t]
      cases  == [r \in Blocks |-> IF r = q THEN Cardinality(S \cap Cases) ELSE 0]
      others == [r \in Blocks |-> IF r = q THEN Cardinality(S \ Cases) ELSE 0]
      g == Register(Unregister(Graph, p, Count(target[t], S)), p, others)
  IN
  /\ Editable(t) /\ S # {} /\ old # q
  /\ S \subseteq {s \in Slots : target[t][s] = old}
  /\ S \cap Cases # {} => p # Null /\ "switch_replace" \in Calls
  /\ target' = [target EXCEPT ![t] = [s \in Slots |-> IF s \in S THEN q ELSE @[s]]]
  /\ jumps_to' = g.to
  /\ comes_from' = [x \in Blocks |-> [y \in Blocks |->
                      g.from[x][y] + (IF y = p THEN cases[x] ELSE 0)
                                   + (IF x = p THEN cases[y] ELSE 0)]]
  /\ UNCHANGED <<made, lists, terminator, parent, status>>

(* The first slot the code visits: default, then if_true or any case.      *)
First(S) == IF "default" \in S THEN {{"default"}} ELSE {{s} : s \in S}

(* The slots of t one call replaces: all with target old, or the first.    *)
Replaced(t, old) ==
  LET All == {s \in Slots : target[t][s] = old} IN {All} \cup First(All)

swapTargets(t) ==
  /\ t \in made \cap Branch
  /\ target' = [target EXCEPT ![t]["default"] = target[t]["true"],
                              ![t]["true"] = target[t]["default"]]
  /\ UNCHANGED <<made, lists, terminator, parent, status, edges>>

(* clean_targets: all targets are unregistered and the slots S lose them.  *)
clean_slots(t, S) ==
  /\ Editable(t)
  /\ target' = [target EXCEPT ![t] = [s \in Slots |-> IF s \in S THEN Null ELSE @[s]]]
  /\ SetGraph(Unregister(Graph, parent[t], Targets(t)))
  /\ UNCHANGED <<made, lists, terminator, parent, status>>

(* A branch keeps both pointers, a switch its default one.                 *)
clean_jump(t)   == t \in Jump /\ clean_slots(t, Slots)
clean_branch(t) == t \in Branch /\ "clean_static" \in Calls /\ clean_slots(t, {})
clean_switch(t) ==
  /\ t \in Switch /\ "clean_static" \in Calls /\ target[t]["default"] # Null
  /\ clean_slots(t, Cases)

-----------------------------------------------------------------------------
MadeBlocks == made \cap Blocks

Next ==
  \/ \E t \in Jump, p, q \in MadeBlocks : NewJump(t, p, q)
  \/ \E t \in Branch, p, q \in MadeBlocks : NewBranch(t, p, q)
  \/ \E t \in Switch, q \in MadeBlocks, cases \in [Cases -> MadeBlocks \cup {Null}] :
       NewSwitch(t, q, cases)
  \/ \E b \in Blocks, t \in Terminators : NewBlock(b, t)
  \/ \E t \in Terminators : Release(t)
  \/ \E b \in MadeBlocks, i \in Plain \cup Phi : append(b, i) \/ prepend(b, i)
  \/ \E at \in Insts, i \in Plain \cup Phi : append_to(at, i) \/ prepend_to(at, i)
  \/ \E i \in Insts, st \in {"DISCONNECTED", "FINALIZED"} : unplugThis(i, st)
  \/ \E b \in MadeBlocks, i \in Plain \cup Phi :
       \E k \in DOMAIN insts[b] : replace_this(b, k, i)
  \/ \E b \in MadeBlocks, t \in Terminators : set_terminator(b, t)
  \/ \E i \in Insts, r \in Blocks \ made, j \in Jump \ made, u \in Unreachable \ made :
       split(i, r, j, u)
  \/ \E t \in JumpBases, q \in MadeBlocks \cup {Null} :
       set_default_target(t, q) \/ set_if_true(t, q)
  \/ \E t \in Switch, c \in Cases :
       removeCase(t, c) \/ \E q \in MadeBlocks : setCase(t, c, q)
  \/ \E t \in JumpBases, X \in SUBSET MadeBlocks :
       remove_target(t, X) \/ switch_remove_if(t, X)
  \/ \E t \in JumpBases, old, q \in MadeBlocks :
       \E S \in Replaced(t, old) : replace_target(t, S, old, q)
  \/ \E t \in JumpBases :
       swapTargets(t) \/ clean_jump(t) \/ clean_branch(t) \/ clean_switch(t)

Spec == Init /\ [][Next]_vars

-----------------------------------------------------------------------------
(***************************************************************************)
(* WellFormedBlocks: a block always has instructions, it ends in the       *)
(* terminator get_terminator() returns, and in no other place does it have *)
(* one (IllegalTerminatorException, ir-basicblock.hxx).                    *)
(***************************************************************************)
WellFormedBlocks ==
  \A b \in MadeBlocks :
    /\ insts[b] # << >> /\ Last(insts[b]) = terminator[b]
    /\ \A k \in DOMAIN insts[b] : insts[b][k] \in Terminators <=> k = Len(insts[b])

(***************************************************************************)
(* SingleOwner: an instruction is in at most one place of one list; it is  *)
(* there exactly when its own fields say so (parent and CONNECTED; a phi   *)
(* has only the parent to tell), and get_modifier() of one that does not   *)
(* end a block stands on its own node (ir-instruction-base.hxx:283-293),   *)
(* whatever was inserted, removed, split or moved between lists before.    *)
(***************************************************************************)
SingleOwner ==
  /\ \A b, c \in Blocks : \A k \in DOMAIN insts[b], n \in DOMAIN insts[c] :
       insts[b][k] = insts[c][n] => b = c /\ k = n
  /\ \A b \in Blocks : \A k \in DOMAIN insts[b] : parent[insts[b][k]] = b
  /\ \A i \in Insts \ Phi : Listed(i) <=> status[i] = "CONNECTED"
  /\ \A i \in Plain \cup Phi : self_node[i] = IF Listed(i) THEN i ELSE Null

(***************************************************************************)
(* TerminatorIterator: get_modifier() of the terminator at a block's end   *)
(* stands on its own node too, which split_end needs when it splits a      *)
(* block at its terminator (utils/irtuil-basicblock.cpp:52; "get the       *)
(* iterator that points to this", ir-instruction-base.hxx:268).  It holds  *)
(* until swapOutEnding or set_terminator replaces a terminator.            *)
(***************************************************************************)
TerminatorIterator ==
  \A b \in MadeBlocks : insts[b] # << >> => self_node[Ending(b)] = Ending(b)

(***************************************************************************)
(* EdgesExact: jumps_to of a block counts exactly the targets of the       *)
(* terminator at its end.                                                  *)
(***************************************************************************)
EdgesExact ==
  \A b \in MadeBlocks : insts[b] # << >> /\ Ending(b) \in Terminators =>
    jumps_to[b] = Count(target[Ending(b)], Slots)

(***************************************************************************)
(* Mirror: every edge is known to both its ends, with the same count.      *)
(***************************************************************************)
Mirror == \A p, q \in Blocks : jumps_to[p][q] = comes_from[q][p]

(***************************************************************************)
(* SuccessorsCovered: what survives of Mirror whatever clients do: no jump *)
(* goes to a block that does not know its source.                          *)
(***************************************************************************)
SuccessorsCovered == \A p, q \in Blocks : jumps_to[p][q] <= comes_from[q][p]

(***************************************************************************)
(* SplitPreservesOrder: split cuts the list of the old block in two: the   *)
(* old block without its new jump, followed by the new block, is the old   *)
(* list (ir-basicblock.hxx:281-284).                                       *)
(***************************************************************************)
SplitPreservesOrder ==
  [][\A b \in MadeBlocks, r \in Blocks \ made :
      r \in made' /\ insts'[b] # insts[b]
        => insts[b] = Front(insts'[b]) \o insts'[r]]_vars
=============================================================================
