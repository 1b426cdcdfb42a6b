------------------------------ MODULE Mem2Reg ------------------------------
(***************************************************************************)
(* The LLVM pass that promotes integer allocas to registers                *)
(* (mem2reg_pass.cpp), and a run of the function it leaves.                *)
(*                                                                         *)
(* A function has blocks 1..n, block 1 the entry, each with its successors *)
(* and its instructions but the terminator: allocas, loads and stores of a *)
(* variable.  A store writes the result of an earlier load or a value of   *)
(* its own.  The pass replaces every load by a value and erases the memory *)
(* instructions; a value is <<"undef">>, <<"inst", b, i>> (what the store  *)
(* at i in block b computed), <<"load", b, i>> or <<"phi", b, a, k>>, the  *)
(* phi inserted in block b for the k-th entry, variable a, of Allocas.     *)
(***************************************************************************)
EXTENDS Integers, SequencesExt

CONSTANT Functions       \* [succ: Seq(Seq(block)), code: Seq(Seq(instruction))]

(***************************************************************************)
(* What LLVM makes sure of.  A variable has one alloca, in any block; what *)
(* is used dominates its use: it is before it in its block, or in a block  *)
(* that all ways to the use lead through, so that some set of blocks       *)
(* around the entry is left through that block only.  A store writes its   *)
(* own value, that of a load, or the address <<"addr", a>> of a variable.  *)
(***************************************************************************)
Separates(f, c, b) ==
  \E S \in SUBSET (DOMAIN f.succ \ {c, b}) :
    1 \in S \cup {c} /\ \A x \in S : Range(f.succ[x]) \subseteq S \cup {c}

Precedes(f, c, j, b, i) == IF c = b THEN j < i ELSE Separates(f, c, b)

LoadBefore(f, c, j, b, i) == f.code[c][j].op = "load" /\ Precedes(f, c, j, b, i)

AllocaBefore(f, a, b, i) ==
  \E c \in DOMAIN f.succ : \E k \in DOMAIN f.code[c] :
    f.code[c][k].op = "alloca" /\ f.code[c][k].var = a /\ Precedes(f, c, k, b, i)

Declares(f, b, i) ==
  LET inst == f.code[b][i] IN
  /\ inst.op = "alloca" /\ inst.integer \in BOOLEAN
  /\ \A c \in DOMAIN f.succ : \A k \in DOMAIN f.code[c] :
       f.code[c][k].op = "alloca" /\ f.code[c][k].var = inst.var => c = b /\ k = i

Accesses(f, b, i) ==
  LET inst == f.code[b][i] IN
  /\ inst.op \in {"load", "store"} /\ AllocaBefore(f, inst.var, b, i)
  /\ inst.op = "store" =>
       \/ inst.val = <<"inst", b, i>>
       \/ inst.val[1] = "addr" /\ AllocaBefore(f, inst.val[2], b, i)
       \/ \E c \in DOMAIN f.succ : \E j \in DOMAIN f.code[c] :
            inst.val = <<"load", c, j>> /\ LoadBefore(f, c, j, b, i)

Verified(f) ==
  /\ Len(f.succ) \in Nat /\ DOMAIN f.succ = 1..Len(f.succ) /\ DOMAIN f.code = 1..Len(f.succ)
  /\ 1 \in DOMAIN f.succ
  /\ \A b \in DOMAIN f.succ :
       /\ f.succ[b] \in Seq(DOMAIN f.succ)
       /\ Len(f.code[b]) \in Nat /\ DOMAIN f.code[b] = 1..Len(f.code[b])
  /\ \A b \in DOMAIN f.succ : \A i \in DOMAIN f.code[b] : Declares(f, b, i) \/ Accesses(f, b, i)

(* What LLVM does not make sure of, and the pass takes for granted: every  *)
(* block is reachable (the dominator tree has no node for one that is not, *)
(* which calcuDf would go to) ...                                          *)
Reachable(f) ==
  \A S \in SUBSET DOMAIN f.succ :
    1 \in S /\ (\A b \in S : Range(f.succ[b]) \subseteq S) => S = DOMAIN f.succ

(* ... and no address is stored: isPromote accepts a variable whose        *)
(* address is, and its alloca is erased while that store still uses it.    *)
AddressesKept(f) ==
  \A b \in DOMAIN f.succ : \A i \in DOMAIN f.code[b] :
    f.code[b][i].op = "store" => f.code[b][i].val[1] # "addr"

ASSUME FunctionsAssumption == \A f \in Functions : Verified(f) /\ Reachable(f) /\ AddressesKept(f)

VARIABLES
  fn,           \* the function
  phase,        \* where runOnFunction stands
  Allocas,      \* the variables to promote
  num,          \* the place in Allocas of the loop of this phase
  DefsBlock, DomFsBlock,
  PhiSet, W,    \* blocks that have their phi for this alloca, and to look at
  phis,         \* phis inserted and not erased: PhiMap
  incoming,     \* their operands: <<predecessor, value>>, in order
  WorkList, VisitedSet,
  BB, it,       \* the block of a loop over blocks, 0 if none, and the place in it
  IncommingValues,
  repl,         \* what each load was replaced by
  removable,    \* InstCanBeRemoveList
  erased,       \* instructions erased, by block and place
  run           \* the function running, before and after
round    == <<Allocas, num, DefsBlock, DomFsBlock>>
placing  == <<PhiSet, W>>
renaming == <<WorkList, VisitedSet, IncommingValues>>
code     == <<phis, incoming, repl, removable, erased>>
passVars == <<fn, phase, round, placing, renaming, BB, it, code, run>>

Undef  == <<"undef">>
Blocks == DOMAIN fn.succ
Insts  == UNION {{b} \X DOMAIN fn.code[b] : b \in Blocks}
Edges  == UNION {{b} \X DOMAIN fn.succ[b] : b \in Blocks}
At(p)  == fn.code[p[1]][p[2]]
Left   == Insts \ erased
Preds(b) == {e \in Edges : fn.succ[e[1]][e[2]] = b}

AllocaOf(a) == CHOOSE p \in Insts : At(p).op = "alloca" /\ At(p).var = a
UsersOf(a)  ==
  {p \in Left : /\ At(p).op # "alloca"
                /\ At(p).var = a \/ (At(p).op = "store" /\ At(p).val = <<"addr", a>>)}

-----------------------------------------------------------------------------
(* Dominators, by the definition: the blocks on every path from the entry. *)

Reached(avoid) ==
  LET within[k \in 0..Len(fn.succ)] ==
        IF k = 0 THEN {1} \ avoid
        ELSE within[k - 1] \cup (UNION {Range(fn.succ[b]) : b \in within[k - 1]} \ avoid)
  IN within[Len(fn.succ)]

Dominates(b, c) == c \notin Reached({b})

IDom(c) == CHOOSE b \in Blocks \ {c} :
             /\ Dominates(b, c)
             /\ \A d \in Blocks \ {c} : Dominates(d, c) => Dominates(d, b)

calcuDf ==
  LET climb[pb \in Blocks, stop \in Blocks] ==
        IF pb = stop THEN {} ELSE {pb} \cup climb[IDom(pb), stop]
  IN [b \in Blocks |-> {c \in Blocks : /\ Cardinality(Preds(c)) > 1
                                       /\ \E e \in Preds(c) : b \in climb[e[1], IDom(c)]}]

-----------------------------------------------------------------------------
(* The pass. *)

Stopped == [at |-> 0, env |-> <<>>, mem |-> <<>>, regs |-> <<>>, seen |-> {}]

PassInit ==
  /\ fn \in Functions /\ phase = "collect"
  /\ Allocas = <<>> /\ num = 0
  /\ DefsBlock = <<>> /\ DomFsBlock = <<>> /\ PhiSet = {} /\ W = {}
  /\ WorkList = <<>> /\ VisitedSet = {} /\ IncommingValues = <<>>
  /\ BB = 1 /\ it = 1
  /\ phis = {} /\ incoming = <<>> /\ repl = <<>> /\ removable = <<>> /\ erased = {}
  /\ run = Stopped

(* For every block of the function the entry is searched: an alloca is in  *)
(* the list as often as there are blocks.                                  *)
isPromote(p) == p \in Left /\ At(p).op = "alloca" /\ At(p).integer

CollectInst ==
  /\ phase = "collect" /\ BB \in Blocks /\ it \in DOMAIN fn.code[1]
  /\ Allocas' = IF isPromote(<<1, it>>) THEN Append(Allocas, fn.code[1][it].var) ELSE Allocas
  /\ it' = it + 1
  /\ UNCHANGED <<fn, phase, num, DefsBlock, DomFsBlock, placing, renaming, BB, code, run>>

CollectBlock ==
  /\ phase = "collect" /\ BB \in Blocks /\ it \notin DOMAIN fn.code[1]
  /\ BB' = BB + 1 /\ it' = 1
  /\ UNCHANGED <<fn, phase, round, placing, renaming, code, run>>

Collected ==
  /\ phase = "collect" /\ BB \notin Blocks
  /\ IF Allocas = <<>> THEN phase' = "run" /\ UNCHANGED DomFsBlock
     ELSE phase' = "dead" /\ DomFsBlock' = calcuDf
  /\ num' = 1 /\ DefsBlock' = [a \in Range(Allocas) |-> {}]
  /\ BB' = 0
  /\ UNCHANGED <<fn, Allocas, placing, renaming, it, code, run>>

(* analysisAlloca *)
Analyse ==
  /\ phase = "dead" /\ num <= Len(Allocas) /\ UsersOf(Allocas[num]) # {}
  /\ DefsBlock' = [DefsBlock EXCEPT ![Allocas[num]] =
                     {p[1] : p \in {q \in UsersOf(Allocas[num]) : At(q).op = "store"}}]
  /\ num' = num + 1
  /\ UNCHANGED <<fn, phase, Allocas, DomFsBlock, placing, renaming, BB, it, code, run>>

(* A dead alloca is erased and the last of the list takes its place; then  *)
(* the erased instruction's users are read, which may end anywhere or find *)
(* none.  Erasing it once more ends anywhere.                              *)
DeleteDead ==
  /\ phase = "dead" /\ num <= Len(Allocas) /\ UsersOf(Allocas[num]) = {}
  /\ Allocas' = Front([Allocas EXCEPT ![num] = Last(Allocas)])
  /\ erased' = erased \cup {AllocaOf(Allocas[num])}
  /\ phase' \in IF AllocaOf(Allocas[num]) \in erased THEN {"undefined"} ELSE {"undefined", "dead"}
  /\ UNCHANGED <<fn, num, DefsBlock, DomFsBlock, placing, renaming, BB, it,
                 phis, incoming, repl, removable, run>>

PhisFor(k) ==
  /\ num' = k /\ PhiSet' = {}
  /\ W' = IF k > Len(Allocas) THEN {} ELSE DefsBlock[Allocas[k]]

StartPhis ==
  /\ phase = "dead" /\ num > Len(Allocas)
  /\ phase' = "phis" /\ PhisFor(1)
  /\ UNCHANGED <<fn, Allocas, DefsBlock, DomFsBlock, renaming, BB, it, code, run>>

(* The blocks to get a phi are those at the frontier that have none yet;   *)
(* such a block defines the variable, and is looked at in turn.            *)
NeedPhiAgain(X) == DomFsBlock[X]
NeedPhi(X) == DomFsBlock[X] \ PhiSet
LookAtOnce(fresh) == {}
LookAt(fresh) == fresh

InsertPhis ==
  /\ phase = "phis" /\ num <= Len(Allocas)
  /\ \E X \in W :
       LET fresh == NeedPhi(X)
           made  == {<<"phi", Y, Allocas[num], num>> : Y \in fresh}
       IN /\ phis' = phis \cup made
          /\ incoming' = [p \in phis' |-> IF p \in made THEN <<>> ELSE incoming[p]]
          /\ PhiSet' = PhiSet \cup fresh
          /\ W' = (W \ {X}) \cup LookAt(fresh)
  /\ UNCHANGED <<fn, phase, round, renaming, BB, it, repl, removable, erased, run>>

NextAlloca ==
  /\ phase = "phis" /\ num <= Len(Allocas) /\ W = {}
  /\ PhisFor(num + 1)
  /\ UNCHANGED <<fn, phase, Allocas, DefsBlock, DomFsBlock, renaming, BB, it, code, run>>

StartRenaming ==
  /\ phase = "phis" /\ num > Len(Allocas)
  /\ phase' = "rename"
  /\ WorkList' = <<[block |-> 1, values |-> [a \in Range(Allocas) |-> Undef]]>>
  /\ VisitedSet' = {}
  /\ UNCHANGED <<fn, round, placing, IncommingValues, BB, it, code, run>>

PhisOf(b) == {p \in phis : p[2] = b}

(* The phis come first in their block, those inserted last before others;  *)
(* of a variable's phis the first one inserted is the last one read.       *)
FirstPhi(b, a) ==
  CHOOSE p \in PhisOf(b) : p[3] = a /\ \A q \in PhisOf(b) : q[3] = a => p[4] <= q[4]
AfterPhis(b, values) ==
  LET merged == {p[3] : p \in PhisOf(b)}
  IN [a \in merged \cup DOMAIN values |-> IF a \in merged THEN FirstPhi(b, a) ELSE values[a]]

VisitBlock ==
  /\ phase = "rename" /\ BB = 0 /\ WorkList # <<>>
  /\ LET top == Last(WorkList)
     IN IF top.block \in VisitedSet THEN UNCHANGED <<VisitedSet, BB, it, IncommingValues>>
        ELSE /\ VisitedSet' = VisitedSet \cup {top.block}
             /\ BB' = top.block /\ it' = 1
             /\ IncommingValues' = AfterPhis(top.block, top.values)
  /\ WorkList' = Front(WorkList)
  /\ UNCHANGED <<fn, phase, round, placing, code, run>>

(* replaceAllUsesWith: in every instruction, phis included.  The values of *)
(* the work list are no uses.                                              *)
ReplacedOperand(s, from, to) == [k \in DOMAIN s |-> IF s[k][2] = from THEN <<s[k][1], to>> ELSE s[k]]
replaceAllUsesWith(from, to) ==
  /\ repl' = [v \in DOMAIN repl \cup {from} |-> IF v = from \/ repl[v] = from THEN to ELSE repl[v]]
  /\ incoming' = [p \in DOMAIN incoming |-> ReplacedOperand(incoming[p], from, to)]
Operand(r, v) == IF v \in DOMAIN r THEN r[v] ELSE v

(* The next instruction of the block, which is an alloca to promote or one *)
(* that accesses such a variable.                                          *)
Renames(op) ==
  /\ phase = "rename" /\ BB # 0 /\ it \in DOMAIN fn.code[BB]
  /\ <<BB, it>> \notin erased /\ fn.code[BB][it].var \in Range(Allocas)
  /\ fn.code[BB][it].op = op
  /\ removable' = Append(removable, <<BB, it>>) /\ it' = it + 1
  /\ UNCHANGED <<fn, phase, round, placing, WorkList, VisitedSet, BB, phis, erased, run>>

RenameAlloca == Renames("alloca") /\ UNCHANGED <<IncommingValues, repl, incoming>>

RenameLoad ==
  /\ Renames("load")
  /\ LET a == fn.code[BB][it].var
     IN  /\ IncommingValues' = [x \in DOMAIN IncommingValues \cup {a} |->
                                  IF x \in DOMAIN IncommingValues THEN IncommingValues[x] ELSE Undef]
         /\ replaceAllUsesWith(<<"load", BB, it>>, IncommingValues'[a])

RenameStore ==
  /\ Renames("store")
  /\ LET inst == fn.code[BB][it]
     IN  IncommingValues' = [x \in DOMAIN IncommingValues \cup {inst.var} |->
                               IF x = inst.var THEN Operand(repl, inst.val) ELSE IncommingValues[x]]
  /\ UNCHANGED <<repl, incoming>>

PassOver ==
  /\ phase = "rename" /\ BB # 0 /\ it \in DOMAIN fn.code[BB]
  /\ <<BB, it>> \in erased \/ fn.code[BB][it].var \notin Range(Allocas)
  /\ it' = it + 1
  /\ UNCHANGED <<fn, phase, round, placing, renaming, BB, code, run>>

(* One entry for every edge, whether or not the successor was visited.     *)
EdgesToFillUnvisited(b) == {k \in DOMAIN fn.succ[b] : fn.succ[b][k] \notin VisitedSet}
EdgesToFill(b) == DOMAIN fn.succ[b]

Filled(b) ==
  [p \in DOMAIN incoming |->
     incoming[p] \o
     [k \in 1..Cardinality({j \in EdgesToFill(b) :
                              fn.succ[b][j] = p[2] /\ p[3] \in DOMAIN IncommingValues}) |->
        <<b, IncommingValues[p[3]]>>]]

FillSuccessors ==
  /\ phase = "rename" /\ BB # 0 /\ it \notin DOMAIN fn.code[BB]
  /\ WorkList' = WorkList \o
       [k \in DOMAIN fn.succ[BB] |-> [block |-> fn.succ[BB][k], values |-> IncommingValues]]
  /\ incoming' = Filled(BB)
  /\ BB' = 0
  /\ UNCHANGED <<fn, phase, round, placing, VisitedSet, IncommingValues, it,
                 phis, repl, removable, erased, run>>

(* Last in, first out: loads and stores go before the alloca. *)
eraseFromParent ==
  /\ phase = "rename" /\ BB = 0 /\ WorkList = <<>> /\ removable # <<>>
  /\ erased' = erased \cup {Last(removable)} /\ removable' = Front(removable)
  /\ UNCHANGED <<fn, phase, round, placing, renaming, BB, it, phis, incoming, repl, run>>

(* One pass over the phis, by address; those without a use are erased.     *)
(* Addresses may grow or fall as blocks and phis are made.                 *)
StartPruning ==
  /\ phase = "rename" /\ BB = 0 /\ WorkList = <<>> /\ removable = <<>>
  /\ phase' = "prune" /\ PhiSet' = phis
  /\ UNCHANGED <<fn, round, W, renaming, BB, it, code, run>>

use_empty(p) ==
  /\ p \notin Range(repl)
  /\ \A q \in phis : \A k \in DOMAIN incoming[q] : incoming[q][k][2] # p

Before(p, q) == p[2] < q[2] \/ (p[2] = q[2] /\ p[4] < q[4])
Ends == {p \in PhiSet : (\A q \in PhiSet : ~Before(q, p)) \/ (\A q \in PhiSet : ~Before(p, q))}

Prune ==
  /\ phase = "prune"
  /\ \E p \in Ends :
       /\ PhiSet' = PhiSet \ {p}
       /\ phis' = IF use_empty(p) THEN phis \ {p} ELSE phis
  /\ UNCHANGED <<fn, phase, round, W, renaming, BB, it, incoming, repl, removable, erased, run>>

(* runOnFunction goes round until it finds no alloca to promote. *)
Again ==
  /\ phase = "prune" /\ PhiSet = {}
  /\ phase' = "collect" /\ Allocas' = <<>> /\ BB' = 1 /\ it' = 1
  /\ UNCHANGED <<fn, num, DefsBlock, DomFsBlock, placing, renaming, code, run>>

-----------------------------------------------------------------------------
(* The function runs as it was, with memory, and as it is, with values.    *)

Value(v, env, regs) ==
  CASE v = Undef       -> Undef
    [] v # Undef /\ v \in DOMAIN env -> env[v]
    [] v # Undef /\ v \in DOMAIN regs \ DOMAIN env -> regs[v]
    [] OTHER           -> <<"missing">>

(* All phis of a block take their values at once, from the edge taken.     *)
EnvIn(b) ==
  [p \in PhisOf(b) |->
     LET from == {k \in DOMAIN incoming[p] : incoming[p][k][1] = run.at}
     IN IF from = {} THEN <<"missing">> ELSE Value(incoming[p][Min(from)][2], run.env, run.regs)]
  @@ run.env

(* What an instruction computes is new each time: it has its place, and a  *)
(* mark that tells the last time from the one before.                      *)
Computed(regs, inst) ==
  IF inst \in DOMAIN regs /\ regs[inst][2] = "odd" THEN <<inst, "even">> ELSE <<inst, "odd">>

RunInst(b, r, i) ==
  LET inst == fn.code[b][i]
      mine == <<"inst", b, i>>
      load == <<"load", b, i>>
      stored == IF inst.val = mine THEN Computed(r.regs, mine) ELSE r.regs[inst.val]
      read == IF inst.var \in DOMAIN r.mem THEN r.mem[inst.var] ELSE Undef
  IN CASE inst.op = "alloca" -> [r EXCEPT !.mem = Restrict(@, DOMAIN @ \ {inst.var})]
       [] inst.op = "store"  -> [r EXCEPT !.regs = IF inst.val = mine THEN (mine :> stored) @@ @ ELSE @,
                                          !.mem  = (inst.var :> stored) @@ @]
       [] inst.op = "load"   -> [r EXCEPT !.regs = (load :> read) @@ @,
                                          !.seen = IF load \in DOMAIN repl
                                                   THEN @ \cup {<<read, Value(repl[load], r.env, r.regs)>>} ELSE @]

Enter(b) ==
  run' = FoldLeftDomain(LAMBDA r, i : RunInst(b, r, i),
           [run EXCEPT !.at = b, !.env = EnvIn(b), !.seen = {}], fn.code[b])

Run ==
  /\ phase = "run"
  /\ \E b \in IF run.at = 0 THEN {1} ELSE Range(fn.succ[run.at]) : Enter(b)
  /\ UNCHANGED <<fn, phase, round, placing, renaming, BB, it, code>>

Pass ==
  \/ CollectInst \/ CollectBlock \/ Collected \/ Analyse \/ DeleteDead
  \/ StartPhis \/ InsertPhis \/ NextAlloca
  \/ StartRenaming \/ VisitBlock \/ RenameAlloca \/ RenameLoad \/ RenameStore \/ PassOver \/ FillSuccessors
  \/ eraseFromParent \/ StartPruning \/ Prune \/ Again

PassNext == Pass \/ Run

(* One thread runs the pass until it returns. *)
PassSpec == PassInit /\ [][PassNext]_passVars /\ WF_passVars(Pass)

-----------------------------------------------------------------------------
(* Properties. *)

(* A load that found something stored is replaced by a value that is the   *)
(* same, whichever way the function runs and however often it goes round.  *)
LoadsAgree == \A pair \in run.seen : pair[1] \in {Undef, pair[2]}

(* The function is one that LLVM accepts, at every step of the clearing    *)
(* up: no instruction is erased that another one left refers to (an alloca *)
(* by its loads and stores, a load by stores), and a phi has one operand   *)
(* for each edge into its block, though blocks are visited once.           *)
Verifies ==
  /\ phase # "undefined" => \A p \in Left : At(p).op # "alloca" =>
       /\ AllocaOf(At(p).var) \notin erased
       /\ At(p).op = "store" => LET v == Operand(repl, At(p).val) IN
                                  v[1] = "load" => <<v[2], v[3]>> \notin erased
  /\ phase \in {"prune", "run"} => \A p \in phis : \A b \in Blocks :
       Cardinality({k \in DOMAIN incoming[p] : incoming[p][k][1] = b})
         = Cardinality({e \in Preds(p[2]) : e[1] = b})

(* The pass comes to an end: each round leaves nothing to promote to the   *)
(* next.                                                                   *)
Returns == <>(phase \in {"run", "undefined"})
=============================================================================
