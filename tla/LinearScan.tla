----------------------------- MODULE LinearScan -----------------------------
(***************************************************************************)
(* Register allocation by linear scan (LinearScan.cpp): time advances from *)
(* interval to interval; registers of variables that have ended are taken  *)
(* back, and variables that start now get one or are spilled.              *)
(*                                                                         *)
(* A turn of the inner or of the outer loop of assign is an action.  given *)
(* is what print shows in the end: the register a variable was ever put in.*)
(* Names that the other allocator has too start with scan here.            *)
(***************************************************************************)
EXTENDS Integers, FiniteSets, Sequences, SequencesExt

CONSTANTS
  Reg_num,      \* RegisterAllocater::Reg_num
  Lists,        \* the inputs: sequences of records with start and end
  Intervals     \* what the counter, which nobody initialises, may hold

(* Nothing is assumed of the order of the variables, or of what the        *)
(* counter holds at the start.                                             *)
ASSUME InputAssumption ==
  /\ Reg_num \in Nat /\ Intervals \subseteq Int
  /\ Lists \subseteq Seq([start : Int, end : Int])

VARIABLES
  list,         \* the constructor's argument; a variable is its place in it
  pool,         \* RegisterAllocater::pool, as places in list
  allocated,    \* the variables with isallocated
  active,       \* RegisterAllocater::active: the variable in a register, or 0
  free,         \* RegisterAllocater::free
  interval,     \* RegisterAllocater::interval
  given,        \* the register each variable was put in, or -1
  scan          \* the loop of assign that is entered next

scanVars == <<list, pool, allocated, active, free, interval, given, scan>>

Registers == 0 .. Reg_num - 1

ScanInit ==
  /\ list \in Lists
  /\ pool = [i \in 1 .. Len(list) |-> i]
  /\ allocated = {}
  /\ active = [r \in Registers |-> 0]
  /\ free = [i \in 1 .. Reg_num |-> i - 1]
  /\ interval \in Intervals
  /\ given = [v \in 1 .. Len(list) |-> -1]
  /\ scan = "status"

-----------------------------------------------------------------------------
isnew(v)    == list[v].start >= interval
isold(v)    == list[v].end < interval
isactive(v) == list[v].start = interval

status  == \E v \in Range(pool) : isnew(v)
Waiting == {v \in DOMAIN list : v \in Range(pool) /\ isactive(v) /\ v \notin allocated}
is_work == Waiting # {}
full    == \A r \in Registers : active[r] # 0

(* Mutant: a variable has ended at its end.                                *)
EndedEarly == {r \in Registers : active[r] # 0 /\ list[active[r]].end <= interval}

(* The numbers of a set, ascending.                                        *)
InOrder(S) ==
  {s \in [1 .. Cardinality(S) -> S] :
     Range(s) = S /\ \A i, j \in DOMAIN s : i < j => s[i] < s[j]}

(* Registers whose variable has ended go to the back of free.              *)
Ended == {r \in Registers : active[r] # 0 /\ isold(active[r])}

remove ==
  /\ scan = "status" /\ status
  /\ \E s \in InOrder(Ended) : free' = free \o s
  /\ active' = [r \in Registers |-> IF r \in Ended THEN 0 ELSE active[r]]
  /\ scan' = "work"
  /\ UNCHANGED <<list, pool, allocated, interval, given>>

(* The first of those that end soonest.                                    *)
Chosen(v) ==
  /\ v \in Waiting
  /\ \A w \in Waiting : \/ list[v].end < list[w].end
                        \/ list[v].end = list[w].end /\ v <= w

scan_choose ==
  /\ scan = "work" /\ ~full
  /\ \E v \in Waiting :
       /\ Chosen(v)
       /\ active' = [active EXCEPT ![Head(free)] = v]
       /\ given' = [given EXCEPT ![v] = Head(free)]
       /\ allocated' = allocated \cup {v}
  /\ free' = Tail(free)
  /\ UNCHANGED <<list, pool, interval, scan>>

(* vector::erase through an iterator taken before earlier erasures: it     *)
(* names the element that has moved to its place, or, past the end, has    *)
(* the library drop the last element.                                      *)
Erase(p, i) == RemoveAt(p, IF i <= Len(p) THEN i ELSE Len(p))

Places == {i \in DOMAIN pool : pool[i] \in Waiting}

scan_spill ==
  /\ scan = "work" /\ is_work /\ full
  /\ \E s \in InOrder(Places) : pool' = FoldLeft(Erase, pool, s)
  /\ UNCHANGED <<list, allocated, active, free, interval, given, scan>>

advance ==
  /\ scan = "work" /\ ~is_work
  /\ interval' = interval + 1 /\ scan' = "status"
  /\ UNCHANGED <<list, pool, allocated, active, free, given>>

assigned ==
  /\ scan = "status" /\ ~status
  /\ scan' = "done"
  /\ UNCHANGED <<list, pool, allocated, active, free, interval, given>>

ScanNext == remove \/ scan_choose \/ scan_spill \/ advance \/ assigned

(* assign is one sequential loop.                                          *)
ScanSpec == ScanInit /\ [][ScanNext]_scanVars /\ WF_scanVars(ScanNext)

-----------------------------------------------------------------------------
Overlap(v, w) == list[v].start <= list[w].end /\ list[w].start <= list[v].end

(***************************************************************************)
(* Variables that were put in one register never live at the same time:    *)
(* a register is taken back only after its variable has ended, and handed  *)
(* to one variable at a time (remove, scan_choose).                        *)
(***************************************************************************)
OverlapsApart ==
  \A v, w \in DOMAIN given :
    v # w /\ given[v] # -1 /\ given[v] = given[w] => ~Overlap(v, w)

(***************************************************************************)
(* assign ends, whatever the counter held at the start.                    *)
(***************************************************************************)
ScanTerminates == <>(scan = "done")

(***************************************************************************)
(* What the comment in spill says it erases: variables that start now and  *)
(* have no register.                                                       *)
(***************************************************************************)
SpillsWaiting ==
  [][scan = "work" => Range(pool) \ Range(pool') \subseteq Waiting]_scanVars
=============================================================================
