------------------------------ MODULE IdAllocator ------------------------------
(***************************************************************************)
(* MTB::IDAllocator: two stacks of entries in one deque.  Entry 0 heads    *)
(* the stack of the unused entries, entry 1 that of the used ones; the id  *)
(* of an entry is its index less two.                                      *)
(***************************************************************************)
EXTENDS Integers

CONSTANTS
  MaxEntry,   \* the last entry an id can stand for: an id is an int
  Words       \* 2 ^ 32: the number of allocated entries is a uint32_t

VARIABLES
  cur_max_id,        \* the number of entries
  prev, next,        \* Entry::prev, Entry::next
  allocated,         \* Entry::allocated
  allocated_nelems

None   == -1     \* UNREACHABLE
Unused == 0
Used   == 1

Entries == 0 .. cur_max_id - 1
EntryOf(id) == id + 2

TypeOK ==
  /\ cur_max_id \in Nat /\ cur_max_id >= 2
  /\ prev \in [Entries -> Entries \cup {None}]
  /\ next \in [Entries -> Entries \cup {None}]
  /\ allocated \in [Entries -> BOOLEAN]
  /\ allocated_nelems \in 0 .. Words - 1

(* The constructor leaves the counter alone: the context of a function is  *)
(* zeroed before it is constructed.                                        *)
Init ==
  /\ cur_max_id = 2
  /\ prev = [e \in 0 .. 1 |-> None]
  /\ next = [e \in 0 .. 1 |-> None]
  /\ allocated = [e \in 0 .. 1 |-> e = Used]
  /\ allocated_nelems = 0

-----------------------------------------------------------------------------
(* What isAllocated(id) may answer: its bound admits the entry behind the  *)
(* last one, which holds anything.                                         *)
isAllocated(id) ==
  IF EntryOf(id) < 2 \/ EntryOf(id) > cur_max_id THEN {FALSE}
  ELSE IF EntryOf(id) = cur_max_id THEN BOOLEAN
  ELSE {allocated[EntryOf(id)]}

Up(n)   == IF n = Words - 1 THEN 0 ELSE n + 1
Down(n) == IF n = 0 THEN Words - 1 ELSE n - 1

Linked(f, e, v) == IF e = None THEN f ELSE [f EXCEPT ![e] = v]

(* The entry allocate() takes: the top of the unused stack, or a new one.  *)
Top == IF next[Unused] = None THEN cur_max_id ELSE next[Unused]

(* Mutant: the entry stays on the unused stack. *)
UseCachedKept ==
  LET rest == next[Top]
      used == next[Used]
  IN /\ next[Unused] # None
     /\ next' = [next EXCEPT ![Used] = Top, ![Top] = used, ![Unused] = Top]
     /\ prev' = Linked([Linked(prev, rest, Top) EXCEPT ![Top] = Used], used, Top)
     /\ allocated' = [allocated EXCEPT ![Top] = TRUE]
     /\ UNCHANGED cur_max_id

UseCached ==
  LET rest == next[Top]
      used == next[Used]
  IN /\ next[Unused] # None
     /\ next' = [next EXCEPT ![Unused] = rest, ![Used] = Top, ![Top] = used]
     /\ prev' = Linked([Linked(prev, rest, Top) EXCEPT ![Top] = Used], used, Top)
     /\ allocated' = [allocated EXCEPT ![Top] = TRUE]
     /\ UNCHANGED cur_max_id

(* Mutant: the new entry is not counted. *)
UseNewUncounted ==
  LET used == next[Used]
      Grown(f, v) == [e \in 0 .. cur_max_id |-> IF e = cur_max_id THEN v ELSE f[e]]
  IN /\ next[Unused] = None
     /\ cur_max_id <= MaxEntry
     /\ next' = [Grown(next, used) EXCEPT ![Used] = cur_max_id]
     /\ prev' = Linked(Grown(prev, Used), used, cur_max_id)
     /\ allocated' = Grown(allocated, TRUE)
     /\ UNCHANGED cur_max_id

UseNew ==
  LET used == next[Used]
      Grown(f, v) == [e \in 0 .. cur_max_id |-> IF e = cur_max_id THEN v ELSE f[e]]
  IN /\ next[Unused] = None
     /\ cur_max_id <= MaxEntry
     /\ cur_max_id' = cur_max_id + 1
     /\ next' = [Grown(next, used) EXCEPT ![Used] = cur_max_id]
     /\ prev' = Linked(Grown(prev, Used), used, cur_max_id)
     /\ allocated' = Grown(allocated, TRUE)

allocate ==
  /\ UseCached \/ UseNew
  /\ allocated_nelems' = Up(allocated_nelems)

(* Mutant: the neighbour behind the entry is not told. *)
UnlinkForward(e) ==
  LET l == [next EXCEPT ![prev[e]] = next[e]]
  IN /\ next' = [l EXCEPT ![e] = l[Unused], ![Unused] = e]
     /\ prev' = [Linked(prev, l[Unused], None) EXCEPT ![e] = Unused]
     /\ allocated' = [allocated EXCEPT ![e] = FALSE]
     /\ allocated_nelems' = Down(allocated_nelems)
     /\ UNCHANGED cur_max_id

(* The entry leaves its stack and becomes the top of the unused one.       *)
Unlink(e) ==
  LET l == [next EXCEPT ![prev[e]] = next[e]]
      p == Linked(prev, next[e], prev[e])
  IN /\ next' = [l EXCEPT ![e] = l[Unused], ![Unused] = e]
     /\ prev' = [Linked(p, l[Unused], None) EXCEPT ![e] = Unused]
     /\ allocated' = [allocated EXCEPT ![e] = FALSE]
     /\ allocated_nelems' = Down(allocated_nelems)
     /\ UNCHANGED cur_max_id

(* free() asks isAllocated about the entry it has computed, not about the  *)
(* id, and goes on only if the answer is no.  Its callers free allocated   *)
(* ids.                                                                    *)
free(id) ==
  /\ \E answer \in isAllocated(EntryOf(id)) :
       IF answer THEN UNCHANGED <<cur_max_id, prev, next, allocated, allocated_nelems>>
       ELSE Unlink(EntryOf(id))

-----------------------------------------------------------------------------
(* The entries on a stack: those in every set that has the successor of    *)
(* the head and of each of its own entries.                                *)
Follows(head, S) == \A e \in S \cup {head} : next[e] \in S \cup {None}
Stack(head) == {e \in Entries : \A S \in SUBSET Entries : Follows(head, S) => e \in S}

OnItsStack ==
  /\ Stack(Used) = {e \in 2 .. cur_max_id - 1 : allocated[e]}
  /\ Stack(Unused) = {e \in 2 .. cur_max_id - 1 : ~allocated[e]}

SuccessorsDiffer ==
  \A d, e \in Entries : d # e /\ next[d] = next[e] => next[d] = None

PrevOfUsed ==
  \A d, e \in Entries : next[d] = e /\ allocated[e] => prev[e] = d
=============================================================================
