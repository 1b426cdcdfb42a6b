---------------------------- MODULE OwnershipProofs ----------------------------
(***************************************************************************)
(* Proofs about who holds what the library hands out.                      *)
(*                                                                         *)
(* MutableContext, for any registers, types and objects: what a client     *)
(* holds stays its own as long as nobody frees a Mutable twice and nobody  *)
(* enables a context over another.                                         *)
(*                                                                         *)
(* OwnedRef, for any variables and objects: as long as no assignment has   *)
(* its own target as its source, or a source that only the target leads    *)
(* to, counts are exact and nothing freed is read.                         *)
(***************************************************************************)
EXTENDS MutableContext, OwnedRef, FiniteSetTheorems, TLAPS

InUse == {e \in 2 .. cur_max_id - 1 : allocated[e]}

(* Whatever has the successor of a head and of each of its own entries has *)
(* all entries with the flag of the head.  E is the set of entries.        *)
Closed(n, head, S) == \A e \in S \cup {head} : n[e] \in S \cup {-1}

Reached(E, n, a) ==
  /\ \A S \in SUBSET E : Closed(n, 1, S) => \A e \in E \ {0, 1} : a[e] => e \in S
  /\ \A S \in SUBSET E : Closed(n, 0, S) => \A e \in E \ {0, 1} : ~a[e] => e \in S

(* The stacks are told apart by the flags: a successor has the flag of its *)
(* predecessor, no two entries have the same successor, and every used     *)
(* entry is the successor of the entry it names.                           *)
Shape(E, n, p, a) ==
  /\ {0, 1} \subseteq E /\ -1 \notin E
  /\ n \in [E -> E \cup {-1}] /\ p \in [E -> E \cup {-1}] /\ a \in [E -> BOOLEAN]
  /\ ~a[0] /\ a[1]
  /\ \A e \in E : n[e] # -1 => n[e] \notin {0, 1} /\ a[n[e]] = a[e]
  /\ \A d, e \in E : n[d] = n[e] /\ n[d] # -1 => d = e
  /\ \A e \in E \ {0, 1} : a[e] => p[e] \in E /\ n[p[e]] = e
  /\ Reached(E, n, a)

Stacked == Shape(A!Entries, next, prev, allocated)

(* The counter is exact: there are fewer ids than numbers in a uint32_t.   *)
Counted == allocated_nelems = Cardinality(InUse) /\ cur_max_id <= MaxEntry + 1

Indexed ==
  /\ Len(registers) = cur_max_id - 2
  /\ \A i \in 1 .. Len(registers) : index[registers[i]] = i - 1

AllocInv == A!TypeOK /\ Stacked /\ Counted

IInv == TypeOK /\ Stacked /\ Counted /\ Indexed /\ used \subseteq held /\ HeldStaysAllocated

-----------------------------------------------------------------------------
(* There are n - 2 entries behind the heads.                               *)
LEMMA EntriesFinite ==
  ASSUME NEW n \in Nat, n >= 2, NEW S, S \subseteq 2 .. n - 1
  PROVE  IsFiniteSet(S) /\ Cardinality(S) \in Nat /\ Cardinality(S) <= n - 2
<1> DEFINE m == n - 1
           I == 2 .. m
<1>1. m \in Int /\ 2 \in Int
  OBVIOUS
<1> HIDE DEF m
<1>2. IsFiniteSet(I) /\ Cardinality(I) = IF 2 > m THEN 0 ELSE m - 2 + 1
  BY <1>1, FS_Interval
<1>3. S \in SUBSET I
  BY DEF m
<1> HIDE DEF I
<1>4. IsFiniteSet(S) /\ Cardinality(S) <= Cardinality(I)
  BY <1>2, <1>3, FS_Subset
<1>5. Cardinality(S) \in Nat
  BY <1>4, FS_CardinalityType
<1> QED
  BY <1>2, <1>4, <1>5 DEF m

(* An entry taken or given back is counted.                                *)
LEMMA CountTaken ==
  ASSUME AllocInv, A!TypeOK', cur_max_id' <= MaxEntry + 1,
         NEW e, InUse' = InUse \cup {e}, e \notin InUse,
         allocated_nelems' = A!Up(allocated_nelems)
  PROVE  Counted'
<1>1. InUse \subseteq 2 .. cur_max_id - 1 /\ InUse' \subseteq 2 .. cur_max_id' - 1
  BY DEF InUse
<1>2. cur_max_id \in Nat /\ cur_max_id' \in Nat /\ MaxEntry \in Nat /\ Words \in Nat
      /\ MaxEntry < Words /\ cur_max_id' >= 2 /\ cur_max_id >= 2
  BY MutableContextAssumption DEF AllocInv, A!TypeOK
<1>4. /\ IsFiniteSet(InUse) /\ Cardinality(InUse) \in Nat
      /\ Cardinality(InUse') <= cur_max_id' - 2
  BY <1>1, <1>2, EntriesFinite
<1>5. Cardinality(InUse') = Cardinality(InUse) + 1
  BY <1>4, FS_AddElement
<1> QED
  BY <1>2, <1>4, <1>5 DEF AllocInv, Counted, A!Up

(* Giving back one identifier lowers the count with the set it counts.     *)
LEMMA CountGivenBack ==
  ASSUME AllocInv, UNCHANGED cur_max_id,
         NEW e, InUse' = InUse \ {e}, e \in InUse,
         allocated_nelems' = A!Down(allocated_nelems)
  PROVE  Counted' /\ allocated_nelems' \in 0 .. Words - 1
<1>1. InUse \subseteq 2 .. cur_max_id - 1
  BY DEF InUse
<1>2. cur_max_id \in Nat /\ cur_max_id >= 2 /\ Words \in Nat /\ allocated_nelems \in 0 .. Words - 1
  BY MutableContextAssumption DEF AllocInv, A!TypeOK
<1>3. IsFiniteSet(InUse) /\ Cardinality(InUse) \in Nat
  BY <1>1, <1>2, EntriesFinite
<1>4. Cardinality(InUse') = Cardinality(InUse) - 1
  BY <1>3, FS_RemoveElement
<1>5. Cardinality(InUse) # 0
  BY <1>3, FS_EmptySet
<1> QED
  BY <1>2, <1>3, <1>4, <1>5 DEF AllocInv, Counted, A!Down

(* An empty count means no entry is in use.                                *)
LEMMA NoneCounted ==
  ASSUME AllocInv, allocated_nelems = 0
  PROVE  InUse = {}
<1>1. InUse \subseteq 2 .. cur_max_id - 1 /\ cur_max_id \in Nat /\ cur_max_id >= 2
  BY DEF InUse, AllocInv, A!TypeOK
<1>2. IsFiniteSet(InUse)
  BY <1>1, EntriesFinite
<1> QED
  BY <1>2, FS_EmptySet DEF AllocInv, Counted

-----------------------------------------------------------------------------
(* The top of the unused stack changes stacks.                             *)
LEMMA TopMoves ==
  ASSUME NEW E, NEW n, NEW p, NEW a, Shape(E, n, p, a),
         NEW x, x = n[0], x # -1,
         NEW q \in [E -> E \cup {-1}],
         q[x] = 1, n[1] # -1 => q[n[1]] = x,
         \A e \in E : a[e] /\ e # n[1] => q[e] = p[e],
         NEW m \in [E -> E \cup {-1}],
         m[0] = n[x], m[1] = x, m[x] = n[1],
         \A e \in E \ {0, 1, x} : m[e] = n[e],
         NEW b \in [E -> BOOLEAN],
         b[x], \A e \in E \ {x} : b[e] = a[e]
  PROVE  Shape(E, m, q, b)
<1>1. x \in E \ {0, 1} /\ ~a[x] /\ n[x] # x
  BY DEF Shape
<1>2. \A e \in E : m[e] # -1 => m[e] \notin {0, 1} /\ b[m[e]] = b[e]
  BY <1>1 DEF Shape
<1>3. \A d, e \in E : m[d] = m[e] /\ m[d] # -1 => d = e
  BY <1>1 DEF Shape
<1>4. \A e \in E \ {0, 1} : b[e] => q[e] \in E /\ m[q[e]] = e
  BY <1>1 DEF Shape
<1>5. ASSUME NEW S \in SUBSET E, Closed(m, 1, S), NEW e \in E \ {0, 1}, b[e]
      PROVE  e \in S
  <2> DEFINE T == {d \in S \ {0, 1} : a[d]}
  <2>1. x \in S
    BY <1>1, <1>5 DEF Closed, Shape
  <2>2. Closed(n, 1, T)
    BY <1>1, <1>5, <2>1 DEF Closed, Shape
  <2>3. a[e] => e \in T
    BY <1>5, <2>2 DEF Shape, Reached
  <2> QED
    BY <1>5, <2>1, <2>3
<1>6. ASSUME NEW S \in SUBSET E, Closed(m, 0, S), NEW e \in E \ {0, 1}, ~b[e]
      PROVE  e \in S
  <2> DEFINE T == {d \in S \ {0, 1} : ~a[d]} \cup {x}
  <2>1. Closed(n, 0, T)
    BY <1>1, <1>6 DEF Closed, Shape
  <2>2. e # x /\ ~a[e] /\ T \in SUBSET E
    BY <1>1, <1>6
  <2>3. e \in T
    BY <1>6, <2>1, <2>2 DEF Shape, Reached
  <2> QED
    BY <2>2, <2>3
<1>7. Reached(E, m, b)
  BY <1>5, <1>6 DEF Reached
<1> QED
  BY <1>1, <1>2, <1>3, <1>4, <1>7 DEF Shape

(* A new entry becomes the top of the used stack.                          *)
LEMMA EntryAdded ==
  ASSUME NEW E, NEW n, NEW p, NEW a, Shape(E, n, p, a),
         NEW x, x \notin E, x # -1,
         NEW q \in [E \cup {x} -> E \cup {x, -1}],
         q[x] = 1, n[1] # -1 => q[n[1]] = x,
         \A e \in E : e # n[1] => q[e] = p[e],
         NEW m \in [E \cup {x} -> E \cup {x, -1}],
         m[1] = x, m[x] = n[1], \A e \in E \ {1} : m[e] = n[e],
         NEW b \in [E \cup {x} -> BOOLEAN],
         b[x], \A e \in E : b[e] = a[e]
  PROVE  Shape(E \cup {x}, m, q, b)
<1>1. \A e \in E \cup {x} : m[e] # -1 => m[e] \notin {0, 1} /\ b[m[e]] = b[e]
  BY DEF Shape
<1>2. \A d, e \in E \cup {x} : m[d] = m[e] /\ m[d] # -1 => d = e
  BY DEF Shape
<1>3. \A e \in (E \cup {x}) \ {0, 1} : b[e] => q[e] \in E \cup {x} /\ m[q[e]] = e
  BY DEF Shape
<1>4. ASSUME NEW S \in SUBSET (E \cup {x}), Closed(m, 1, S), NEW e \in (E \cup {x}) \ {0, 1}, b[e]
      PROVE  e \in S
  <2> DEFINE T == {d \in S \ {0, 1, x} : a[d]}
  <2>1. x \in S
    BY <1>4 DEF Closed
  <2>2. Closed(n, 1, T) /\ T \in SUBSET E
    BY <1>4, <2>1 DEF Closed, Shape
  <2>3. e # x => e \in T
    BY <1>4, <2>2 DEF Shape, Reached
  <2> QED
    BY <2>1, <2>3
<1>5. ASSUME NEW S \in SUBSET (E \cup {x}), Closed(m, 0, S), NEW e \in (E \cup {x}) \ {0, 1}, ~b[e]
      PROVE  e \in S
  <2> DEFINE T == {d \in S \ {0, 1, x} : ~a[d]}
  <2>1. Closed(n, 0, T) /\ T \in SUBSET E
    BY <1>5 DEF Closed, Shape
  <2>2. e \in E \ {0, 1} /\ ~a[e]
    BY <1>5
  <2> QED
    BY <2>1, <2>2 DEF Shape, Reached
<1>6. Reached(E \cup {x}, m, b)
  BY <1>4, <1>5 DEF Reached
<1> QED
  BY <1>1, <1>2, <1>3, <1>6 DEF Shape

(* A used entry changes stacks: the stack it leaves is reached through the *)
(* entry before it.                                                        *)
LEMMA EntryLeaves ==
  ASSUME NEW E, NEW n, NEW p, NEW a, Shape(E, n, p, a),
         NEW x \in E \ {0, 1}, a[x],
         NEW m, m[0] = x, m[x] = n[0],
         p[x] # x => m[p[x]] = n[x],
         \A e \in E \ {0, x, p[x]} : m[e] = n[e],
         NEW b, ~b[x], \A e \in E \ {x} : b[e] = a[e]
  PROVE  Reached(E, m, b)
<1>1. p[x] \in E \ {0} /\ n[p[x]] = x /\ a[p[x]]
  BY DEF Shape
<1>2. \A d \in E : n[d] = x => d = p[x]
  BY <1>1 DEF Shape
<1>3. ASSUME NEW S \in SUBSET E, Closed(m, 1, S), NEW e \in E \ {0, 1}, b[e]
      PROVE  e \in S
  <2> DEFINE R == {d \in S \ {0, 1, x} : a[d]}
             T == IF p[x] \in R \cup {1} THEN R \cup {x} ELSE R
  <2>1. ASSUME NEW d \in R \cup {1} PROVE n[d] \in T \cup {-1}
    <3>1. CASE d = p[x]
      BY <1>1, <2>1, <3>1
    <3>2. CASE d # p[x]
      <4>1. m[d] = n[d] /\ m[d] \in S \cup {-1} /\ n[d] # x /\ a[d] /\ d \in E
        BY <1>2, <1>3, <2>1, <3>2 DEF Closed, Shape
      <4>2. n[d] # -1 => n[d] \notin {0, 1} /\ a[n[d]]
        BY <4>1 DEF Shape
      <4>3. n[d] \in R \cup {-1}
        BY <4>1, <4>2
      <4> QED
        BY <4>3
    <3> QED
      BY <3>1, <3>2
  <2>2. ASSUME x \in T PROVE n[x] \in T \cup {-1}
    <3>1. p[x] \in R \cup {1} /\ p[x] # x
      BY <2>2
    <3>2. n[x] \in S \cup {-1} /\ n[x] # x
      BY <1>2, <1>3, <3>1 DEF Closed
    <3>3. n[x] # -1 => n[x] \notin {0, 1} /\ a[n[x]]
      BY DEF Shape
    <3> QED
      BY <3>2, <3>3
  <2>3. Closed(n, 1, T) /\ T \in SUBSET E
    BY <2>1, <2>2 DEF Closed
  <2>4. e # x /\ a[e]
    BY <1>3
  <2>5. e \in T
    BY <1>3, <2>3, <2>4 DEF Shape, Reached
  <2> QED
    BY <2>4, <2>5
<1>4. ASSUME NEW S \in SUBSET E, Closed(m, 0, S), NEW e \in E \ {0, 1}, ~b[e]
      PROVE  e \in S
  <2> DEFINE T == {d \in S \ {0, 1, x} : ~a[d]}
  <2>1. x \in S
    BY <1>4 DEF Closed, Shape
  <2>2. ASSUME NEW d \in T \cup {0} PROVE n[d] \in T \cup {-1}
    <3>1. n[d] \in S \cup {-1} /\ ~a[d] /\ d \in E
      BY <1>1, <1>4, <2>1, <2>2 DEF Closed, Shape
    <3>2. n[d] # -1 => n[d] \notin {0, 1, x} /\ ~a[n[d]]
      BY <3>1 DEF Shape
    <3> QED
      BY <3>1, <3>2
  <2>3. Closed(n, 0, T) /\ T \in SUBSET E
    BY <2>2 DEF Closed
  <2>4. e # x => ~a[e]
    BY <1>4
  <2>5. e # x => e \in T
    BY <1>4, <2>3, <2>4 DEF Shape, Reached
  <2> QED
    BY <2>1, <2>5
<1> QED
  BY <1>3, <1>4 DEF Reached

-----------------------------------------------------------------------------
(* What the steps of the allocator do to it, and to the flags.             *)
LEMMA CachedStep ==
  ASSUME AllocInv, A!UseCached, allocated_nelems' = A!Up(allocated_nelems)
  PROVE  /\ AllocInv'
         /\ A!Top \in 2 .. cur_max_id - 1 /\ ~allocated[A!Top]
         /\ allocated' = [allocated EXCEPT ![A!Top] = TRUE]
         /\ cur_max_id' = cur_max_id
<1> DEFINE top  == next[0]
           rest == next[top]
           head == next[1]
           E    == A!Entries
<1>1. /\ A!TypeOK /\ Shape(E, next, prev, allocated) /\ Counted
      /\ A!Top = top /\ top # -1
  BY DEF AllocInv, A!UseCached, A!Top, Stacked, A!Unused, A!None
<1>2. /\ next' = [next EXCEPT ![0] = rest, ![1] = top, ![top] = head]
      /\ prev' = A!Linked([A!Linked(prev, rest, top) EXCEPT ![top] = 1], head, top)
      /\ allocated' = [allocated EXCEPT ![top] = TRUE]
      /\ cur_max_id' = cur_max_id
  BY <1>1 DEF A!UseCached, A!Used, A!Unused
<1>3. /\ top \in 2 .. cur_max_id - 1 /\ top \in E \ {0, 1} /\ ~allocated[top]
      /\ rest \in E \cup {-1} /\ rest # top
      /\ head \in E \cup {-1} /\ (head # -1 => allocated[head])
      /\ rest # -1 => ~allocated[rest]
  BY <1>1 DEF Shape, A!TypeOK, A!Entries, A!None
<1>4. /\ prev \in [E -> E \cup {-1}] /\ prev' \in [E -> E \cup {-1}]
      /\ prev'[top] = 1 /\ (head # -1 => prev'[head] = top)
      /\ \A e \in E : allocated[e] /\ e # head => prev'[e] = prev[e]
  BY <1>1, <1>2, <1>3 DEF Shape, A!Linked, A!None
<1>5. E' = E
  BY <1>2 DEF A!Entries
<1>6. Stacked'
  <2> HIDE DEF E
  <2>1. /\ next' \in [E -> E \cup {-1}] /\ 0 \in E /\ 1 \in E
        /\ next'[0] = rest /\ next'[1] = top /\ next'[top] = head
        /\ \A e \in E \ {0, 1, top} : next'[e] = next[e]
    BY <1>1, <1>2, <1>3 DEF Shape
  <2>2. /\ allocated' \in [E -> BOOLEAN] /\ allocated'[top]
        /\ \A e \in E \ {top} : allocated'[e] = allocated[e]
    BY <1>1, <1>2, <1>3 DEF Shape
  <2>3. Shape(E, next', prev', allocated')
    BY <1>1, <1>4, <2>1, <2>2, TopMoves
  <2> QED
    BY <1>5, <2>3 DEF Stacked, E
<1>7. A!TypeOK'
  BY <1>1, <1>2, <1>5, <1>6, MutableContextAssumption
     DEF Stacked, Shape, A!TypeOK, A!None, A!Up
<1>8. InUse' = InUse \cup {top} /\ top \notin InUse
  BY <1>1, <1>2, <1>3 DEF InUse, A!TypeOK, A!Entries
<1>9. Counted'
  BY <1>1, <1>2, <1>7, <1>8, CountTaken DEF Counted
<1> QED
  BY <1>1, <1>2, <1>3, <1>6, <1>7, <1>9 DEF AllocInv

(* Taking a fresh identifier, past the highest handed out so far.          *)
LEMMA NewStep ==
  ASSUME AllocInv, A!UseNew, allocated_nelems' = A!Up(allocated_nelems)
  PROVE  /\ AllocInv'
         /\ A!Top = cur_max_id
         /\ \A e \in 2 .. cur_max_id - 1 : allocated'[e] = allocated[e]
         /\ allocated'[cur_max_id]
         /\ cur_max_id' = cur_max_id + 1
<1> DEFINE x    == cur_max_id
           head == next[1]
           E    == A!Entries
           G(f, v) == [e \in 0 .. x |-> IF e = x THEN v ELSE f[e]]
<1>1. /\ A!TypeOK /\ Shape(E, next, prev, allocated) /\ Counted
      /\ A!Top = x /\ x \in Nat /\ x >= 2 /\ x <= MaxEntry
  BY DEF AllocInv, A!UseNew, A!Top, Stacked, A!TypeOK
<1>2. /\ cur_max_id' = x + 1
      /\ next' = [G(next, head) EXCEPT ![1] = x]
      /\ prev' = A!Linked(G(prev, 1), head, x)
      /\ allocated' = G(allocated, TRUE)
  BY DEF A!UseNew, A!Used
<1>3. /\ E' = E \cup {x} /\ 0 .. x = E \cup {x} /\ x \notin E /\ x # -1
      /\ 1 \in E /\ head \in E \cup {-1} /\ x # 1
  BY <1>1, <1>2 DEF A!Entries, Shape
<1> HIDE DEF E
<1>4. /\ next' \in [E \cup {x} -> E \cup {x, -1}]
      /\ next'[1] = x /\ next'[x] = head /\ \A e \in E \ {1} : next'[e] = next[e]
  BY <1>1, <1>2, <1>3 DEF Shape
<1>5. /\ prev' \in [E \cup {x} -> E \cup {x, -1}]
      /\ prev'[x] = 1 /\ (head # -1 => prev'[head] = x)
      /\ \A e \in E : e # head => prev'[e] = prev[e]
  BY <1>1, <1>2, <1>3 DEF Shape, A!Linked, A!None
<1>6. /\ allocated' \in [E \cup {x} -> BOOLEAN]
      /\ allocated'[x] /\ \A e \in E : allocated'[e] = allocated[e]
  BY <1>1, <1>2, <1>3 DEF Shape
<1>7. Stacked'
  <2>1. Shape(E \cup {x}, next', prev', allocated')
    BY <1>1, <1>3, <1>4, <1>5, <1>6, EntryAdded
  <2> QED
    BY <1>3, <2>1 DEF Stacked, E
<1>8. A!TypeOK'
  <2>1. allocated_nelems' \in 0 .. Words - 1
    BY <1>1, MutableContextAssumption DEF A!TypeOK, A!Up
  <2>2. cur_max_id' \in Nat /\ cur_max_id' >= 2
    BY <1>1, <1>2
  <2> QED
    BY <1>7, <2>1, <2>2 DEF Stacked, Shape, A!TypeOK, A!None
<1>9. InUse' = InUse \cup {x} /\ x \notin InUse
  <2>1. E = 0 .. x - 1 /\ 2 .. cur_max_id' - 1 = (2 .. x - 1) \cup {x}
    BY <1>1, <1>2 DEF E, A!Entries
  <2>2. 2 .. x - 1 \subseteq E
    BY <1>1, <2>1
  <2>3. InUse' = {e \in (2 .. x - 1) \cup {x} : allocated'[e]}
    BY <2>1 DEF InUse
  <2> QED
    BY <1>1, <1>6, <2>2, <2>3 DEF InUse
<1>10. Counted'
  BY <1>1, <1>2, <1>8, <1>9, CountTaken, MutableContextAssumption
<1> QED
  <2>1. 2 .. x - 1 \subseteq E
    BY <1>1 DEF E, A!Entries
  <2> QED
    BY <1>1, <1>2, <1>6, <1>7, <1>8, <1>10, <2>1 DEF AllocInv

(* An entry leaves its stack and becomes the top of the unused one.        *)
LEMMA UnlinkStep ==
  ASSUME AllocInv, NEW x, x \in A!Entries \ {0, 1}, allocated[x], A!Unlink(x)
  PROVE  AllocInv' /\ allocated' = [allocated EXCEPT ![x] = FALSE]
         /\ cur_max_id' = cur_max_id
<1> DEFINE E == A!Entries
           l == [next EXCEPT ![prev[x]] = next[x]]
           r == A!Linked(prev, next[x], prev[x])
<1>1. /\ A!TypeOK /\ Shape(E, next, prev, allocated) /\ Counted
      /\ x \in E \ {0, 1}
  BY DEF AllocInv, Stacked, A!TypeOK, A!Entries
<1>2. /\ next' = [l EXCEPT ![x] = l[0], ![0] = x]
      /\ prev' = [A!Linked(r, l[0], -1) EXCEPT ![x] = 0]
      /\ allocated' = [allocated EXCEPT ![x] = FALSE]
      /\ allocated_nelems' = A!Down(allocated_nelems)
      /\ cur_max_id' = cur_max_id /\ E' = E
  BY DEF A!Unlink, A!Unused, A!None, A!Entries
<1> HIDE DEF E
<1>3. /\ prev[x] \in E \ {0} /\ next[prev[x]] = x
      /\ next[x] \in E \cup {-1} /\ (next[x] # -1 => allocated[next[x]])
      /\ 0 \in E /\ next[0] \in E \cup {-1} /\ (next[0] # -1 => ~allocated[next[0]])
  BY <1>1 DEF Shape
<1>4. l[0] = next[0] /\ l \in [E -> E \cup {-1}]
  BY <1>1, <1>3 DEF Shape
<1>5. /\ next' \in [E -> E \cup {-1}] /\ next'[0] = x /\ next'[x] = next[0]
      /\ (prev[x] # x => next'[prev[x]] = next[x])
      /\ \A e \in E \ {0, x, prev[x]} : next'[e] = next[e]
  BY <1>1, <1>2, <1>3, <1>4 DEF Shape
<1>6. /\ r \in [E -> E \cup {-1}] /\ (next[x] # -1 => r[next[x]] = prev[x])
      /\ \A e \in E \ {next[x]} : r[e] = prev[e]
  BY <1>1, <1>3 DEF Shape, A!Linked, A!None
<1> HIDE DEF l, r
<1>7. /\ prev' \in [E -> E \cup {-1}]
      /\ (next[x] \in E \ {x} => prev'[next[x]] = prev[x])
      /\ \A e \in E : allocated[e] /\ e \notin {x, next[x]} => prev'[e] = prev[e]
  <2> DEFINE f == next[0]
             s == A!Linked(r, f, -1)
  <2>1. /\ s \in [E -> E \cup {-1}]
        /\ \A e \in E : allocated[e] => s[e] = r[e]
    BY <1>3, <1>6 DEF A!Linked, A!None
  <2>2. prev' = [s EXCEPT ![x] = 0]
    BY <1>2, <1>4
  <2> HIDE DEF s
  <2> QED
    <3>1. prev' \in [E -> E \cup {-1}] /\ \A e \in E \ {x} : prev'[e] = s[e]
      BY <1>1, <1>3, <2>1, <2>2
    <3>2. -1 \notin E
      BY <1>1 DEF Shape
    <3>3. next[x] \in E \ {x} => prev'[next[x]] = prev[x]
      BY <1>3, <1>6, <2>1, <3>1, <3>2
    <3>4. ASSUME NEW e \in E, allocated[e], e \notin {x, next[x]} PROVE prev'[e] = prev[e]
      BY <1>6, <2>1, <3>1, <3>4
    <3> QED
      BY <3>1, <3>3, <3>4
<1>8. Stacked'
  <2>1. /\ allocated' \in [E -> BOOLEAN] /\ ~allocated'[x]
        /\ \A e \in E \ {x} : allocated'[e] = allocated[e]
    BY <1>1, <1>2 DEF Shape
  <2>2. \A e \in E : next'[e] # -1 => next'[e] \notin {0, 1} /\ allocated'[next'[e]] = allocated'[e]
    BY <1>1, <1>3, <1>5, <2>1 DEF Shape
  <2>3. \A d, e \in E : next'[d] = next'[e] /\ next'[d] # -1 => d = e
    BY <1>1, <1>3, <1>5 DEF Shape
  <2>4. \A e \in E \ {0, 1} : allocated'[e] => prev'[e] \in E /\ next'[prev'[e]] = e
    BY <1>1, <1>3, <1>5, <1>7, <2>1 DEF Shape
  <2>5. ~allocated'[0] /\ allocated'[1]
    BY <1>1, <2>1 DEF Shape
  <2>6. Reached(E, next', allocated')
    BY <1>1, <1>3, <1>5, <2>1, EntryLeaves
  <2>7. Shape(E, next', prev', allocated')
    BY <1>1, <1>5, <1>7, <2>1, <2>2, <2>3, <2>4, <2>5, <2>6 DEF Shape
  <2> QED
    BY <1>2, <2>7 DEF Stacked, E
<1>9. InUse' = InUse \ {x} /\ x \in InUse
  BY <1>1, <1>2 DEF InUse, E, A!Entries, Shape
<1>10. Counted' /\ allocated_nelems' \in 0 .. Words - 1
  BY <1>2, <1>9, CountGivenBack
<1>11. A!TypeOK'
  BY <1>1, <1>2, <1>8, <1>10 DEF Stacked, Shape, A!TypeOK, A!None, E
<1> QED
  BY <1>2, <1>8, <1>10, <1>11 DEF AllocInv

(* A freshly constructed allocator, as the context starts with.            *)
LEMMA ClearedInv ==
  /\ A!Init => AllocInv
  /\ Clear => AllocInv'
<1>1. 2 .. 1 = {} /\ 0 .. 1 = {0, 1}
  OBVIOUS
<1>2. ASSUME A!Init PROVE AllocInv
  <2>1. A!Entries = {0, 1}
    BY <1>1, <1>2 DEF A!Init, A!Entries
  <2>3. Stacked
    <3>1. /\ next = [e \in {0, 1} |-> -1] /\ prev = [e \in {0, 1} |-> -1]
          /\ allocated = [e \in {0, 1} |-> e = 1]
      BY <1>1, <1>2 DEF A!Init, A!None, A!Used
    <3>2. /\ next \in [{0, 1} -> {-1}] /\ prev \in [{0, 1} -> {-1}]
          /\ allocated \in [{0, 1} -> BOOLEAN]
      BY <3>1
    <3>3. allocated[0] = (0 = 1) /\ allocated[1] = (1 = 1)
      BY <3>1, Zenon
    <3> QED
      BY <2>1, <3>2, <3>3 DEF Stacked, Shape, Reached
  <2>4. A!TypeOK
    BY <1>2, <2>1, <2>3, MutableContextAssumption
       DEF A!Init, A!TypeOK, A!None, Stacked, Shape
  <2>2. InUse = {}
    BY <1>1, <1>2 DEF A!Init, InUse
  <2> QED
    BY <1>2, <2>2, <2>3, <2>4, FS_EmptySet, MutableContextAssumption DEF A!Init, AllocInv, Counted
<1>3. ASSUME Clear PROVE AllocInv'
  <2>1. A!Entries' = {0, 1}
    BY <1>1, <1>3 DEF Clear, A!Entries
  <2>3. Stacked'
    <3>1. /\ next' = [e \in {0, 1} |-> -1] /\ prev' = [e \in {0, 1} |-> -1]
          /\ allocated' = [e \in {0, 1} |-> e = 1]
      BY <1>1, <1>3 DEF Clear
    <3>2. /\ next' \in [{0, 1} -> {-1}] /\ prev' \in [{0, 1} -> {-1}]
          /\ allocated' \in [{0, 1} -> BOOLEAN]
      BY <3>1
    <3>3. allocated'[0] = (0 = 1) /\ allocated'[1] = (1 = 1)
      BY <3>1, Zenon
    <3> QED
      BY <2>1, <3>2, <3>3 DEF Stacked, Shape, Reached
  <2>4. A!TypeOK'
    BY <1>3, <2>1, <2>3, MutableContextAssumption
       DEF Clear, A!TypeOK, A!None, Stacked, Shape
  <2>2. InUse' = {}
    BY <1>1, <1>3 DEF Clear, InUse
  <2> QED
    BY <1>3, <2>2, <2>3, <2>4, FS_EmptySet, MutableContextAssumption DEF Clear, AllocInv, Counted
<1> QED
  BY <1>2, <1>3

-----------------------------------------------------------------------------
(* The Mutable handed out is in its register, and nobody held it.          *)
LEMMA HandedOut ==
  ASSUME IInv, NEW t \in RegTypes, NEW m \in Mutables, NEW id \in Nat,
         Taken(t, id, m), id <= Len(registers),
         \A h \in held : index[h] # id,
         type' = [type EXCEPT ![m] = t], index' = [index EXCEPT ![m] = id]
  PROVE  /\ m \notin held /\ registers' \in Seq(Mutables)
         /\ type' \in [Mutables -> RegTypes] /\ index' \in [Mutables -> Nat]
         /\ Len(registers') = IF id = Len(registers) THEN id + 1 ELSE Len(registers)
         /\ registers'[id + 1] = m
         /\ \A i \in 1 .. Len(registers) : i # id + 1 => registers'[i] = registers[i]
         /\ \A i \in 1 .. Len(registers') : index'[registers'[i]] = i - 1
<1>1. /\ registers \in Seq(Mutables) /\ index \in [Mutables -> Nat]
      /\ type \in [Mutables -> RegTypes] /\ held \subseteq Mutables
      /\ \A i \in 1 .. Len(registers) : index[registers[i]] = i - 1
  BY DEF IInv, TypeOK, Indexed
<1>2. CASE id = Len(registers)
  <2>1. m \in Fresh /\ registers' = Append(registers, m)
    BY <1>1, <1>2 DEF Taken
  <2>2. \A i \in 1 .. Len(registers) : registers[i] # m
    BY <1>1, <2>1 DEF Fresh
  <2>3. /\ m \notin held /\ registers' \in Seq(Mutables)
        /\ Len(registers') = id + 1 /\ registers'[id + 1] = m
        /\ \A i \in 1 .. Len(registers) : i # id + 1 /\ registers'[i] = registers[i]
    BY <1>1, <1>2, <2>1 DEF Fresh
  <2>4. ASSUME NEW i \in 1 .. Len(registers') PROVE index'[registers'[i]] = i - 1
    <3>1. CASE i = id + 1
      BY <1>1, <2>3, <3>1
    <3>2. CASE i # id + 1
      <4>1. i \in 1 .. Len(registers) /\ registers[i] \in Mutables /\ registers[i] # m
        BY <1>1, <1>2, <2>2, <2>3, <3>2
      <4> QED
        BY <1>1, <2>3, <4>1
    <3> QED
      BY <3>1, <3>2
  <2> QED
    BY <1>1, <1>2, <2>3, <2>4
<1>3. CASE id < Len(registers) /\ type[Register(id)] = t
  <2>1. m = registers[id + 1] /\ registers' = registers /\ index[m] = id
    BY <1>1, <1>3 DEF Taken, Register
  <2> QED
    BY <1>1, <1>3, <2>1
<1>4. CASE id < Len(registers) /\ type[Register(id)] # t
  <2>1. m \in Fresh /\ registers' = [registers EXCEPT ![id + 1] = m]
    BY <1>1, <1>4 DEF Taken
  <2>2. \A i \in 1 .. Len(registers) : registers[i] # m
    BY <1>1, <2>1 DEF Fresh
  <2> QED
    BY <1>1, <1>4, <2>1, <2>2 DEF Fresh
<1> QED
  BY <1>1, <1>2, <1>3, <1>4

(* allocateMutable: the register it hands out has the type asked for and no use. *)
LEMMA AllocateStep ==
  ASSUME IInv, NEW t \in RegTypes, allocateMutable(t)
  PROVE  /\ IInv'
         /\ \A m \in held' \ held : type'[m] = t /\ m \notin used
<1> DEFINE id == A!Top - 2
<1>1. PICK m \in Mutables :
        /\ Taken(t, id, m)
        /\ type' = [type EXCEPT ![m] = t]
        /\ index' = [index EXCEPT ![m] = id]
        /\ held' = held \cup {m} /\ stale' = stale \ {m}
  BY DEF allocateMutable
<1>2. /\ AllocInv /\ cur_max_id \in Nat /\ cur_max_id >= 2
      /\ Len(registers) = cur_max_id - 2 /\ used \subseteq held
      /\ type \in [Mutables -> RegTypes] /\ index \in [Mutables -> Nat]
      /\ held \subseteq Mutables /\ stale \subseteq Mutables
  BY DEF IInv, TypeOK, AllocInv, A!TypeOK, Indexed
<1>3. /\ AllocInv' /\ id \in Nat /\ id <= Len(registers)
      /\ cur_max_id' = IF id = Len(registers) THEN cur_max_id + 1 ELSE cur_max_id
      /\ allocated'[id + 2]
      /\ \A e \in 2 .. cur_max_id - 1 : allocated[e] => allocated'[e]
      /\ id < Len(registers) => ~allocated[id + 2]
  <2>1. CASE A!UseCached
    <3>1. /\ AllocInv'
          /\ A!Top \in 2 .. cur_max_id - 1 /\ ~allocated[A!Top]
          /\ allocated' = [allocated EXCEPT ![A!Top] = TRUE]
          /\ cur_max_id' = cur_max_id
      BY <1>2, <2>1, CachedStep DEF allocateMutable, A!allocate
    <3>2. allocated \in [0 .. cur_max_id - 1 -> BOOLEAN]
      BY <1>2 DEF AllocInv, A!TypeOK, A!Entries
    <3> QED
      BY <1>2, <3>1, <3>2
  <2>2. CASE A!UseNew
    <3>1. /\ AllocInv'
          /\ A!Top = cur_max_id
          /\ \A e \in 2 .. cur_max_id - 1 : allocated'[e] = allocated[e]
          /\ allocated'[cur_max_id]
          /\ cur_max_id' = cur_max_id + 1
      BY <1>2, <2>2, NewStep DEF allocateMutable, A!allocate
    <3> QED
      BY <1>2, <3>1
  <2> QED
    BY <2>1, <2>2 DEF allocateMutable, A!allocate
<1> HIDE DEF id
<1>4. \A h \in held : /\ index[h] < Len(registers) /\ registers[index[h] + 1] = h
                       /\ allocated[index[h] + 2]
  BY DEF IInv, HeldStaysAllocated, Register
<1>5. \A h \in held : index[h] # id
  BY <1>2, <1>3, <1>4
<1>6. /\ m \notin held /\ registers' \in Seq(Mutables)
      /\ type' \in [Mutables -> RegTypes] /\ index' \in [Mutables -> Nat]
      /\ Len(registers') = IF id = Len(registers) THEN id + 1 ELSE Len(registers)
      /\ registers'[id + 1] = m
      /\ \A i \in 1 .. Len(registers) : i # id + 1 => registers'[i] = registers[i]
      /\ \A i \in 1 .. Len(registers') : index'[registers'[i]] = i - 1
  BY <1>1, <1>3, <1>5, HandedOut
<1>7. enabled /\ enabled' = enabled /\ used' = used
  BY DEF allocateMutable
<1>8. TypeOK'
  BY <1>1, <1>2, <1>3, <1>6, <1>7 DEF IInv, TypeOK, AllocInv
<1>9. Indexed'
  BY <1>2, <1>3, <1>6 DEF Indexed
<1>10. HeldStaysAllocated'
  <2> SUFFICES ASSUME NEW h \in held'
               PROVE  /\ enabled' /\ index'[h] < Len(registers')
                      /\ registers'[index'[h] + 1] = h /\ allocated'[index'[h] + 2]
    BY DEF HeldStaysAllocated, Register
  <2>1. CASE h = m
    BY <1>1, <1>2, <1>3, <1>6, <1>7, <2>1
  <2>2. CASE h \in held
    <3>1. index'[h] = index[h] /\ index[h] \in Nat
      BY <1>1, <1>2, <1>6, <2>2
    <3>2. index[h] # id /\ index[h] < Len(registers) /\ registers[index[h] + 1] = h
          /\ allocated[index[h] + 2]
      BY <1>4, <1>5, <2>2
    <3>3. /\ index[h] + 1 \in 1 .. Len(registers) /\ index[h] + 1 # id + 1
          /\ index[h] + 2 \in 2 .. cur_max_id - 1
      BY <1>2, <1>3, <3>1, <3>2
    <3>4. registers'[index[h] + 1] = h /\ allocated'[index[h] + 2]
      BY <1>3, <1>6, <3>2, <3>3
    <3>5. index[h] < Len(registers')
      BY <1>2, <1>3, <1>6, <3>1, <3>2, SMTT(30)
    <3> QED
      BY <1>7, <3>1, <3>4, <3>5
  <2> QED
    BY <1>1, <2>1, <2>2
<1> QED
  BY <1>1, <1>2, <1>3, <1>6, <1>7, <1>8, <1>9, <1>10 DEF IInv, AllocInv

(* freeMutable of a register that is held and unused.                      *)
LEMMA FreeStep ==
  ASSUME IInv, Calls = {}, NEW m \in Mutables, freeMutable(m)
  PROVE  IInv'
<1>1. /\ m \in held /\ m \notin used /\ held' = held \ {m} /\ stale' = stale \cup {m}
      /\ UNCHANGED <<enabled, registers, type, index, used>>
  BY DEF freeMutable, Freeable
<1>2. /\ AllocInv /\ cur_max_id \in Nat /\ cur_max_id >= 2
      /\ Len(registers) = cur_max_id - 2 /\ index \in [Mutables -> Nat]
      /\ held \subseteq Mutables
  BY DEF IInv, TypeOK, AllocInv, A!TypeOK, Indexed
<1>3. \A h \in held : /\ enabled /\ index[h] < Len(registers)
                       /\ registers[index[h] + 1] = h /\ allocated[index[h] + 2]
  BY DEF IInv, HeldStaysAllocated, Register
<1> DEFINE x == index[m] + 2
<1>4. x \in A!Entries \ {0, 1} /\ allocated[x]
  BY <1>1, <1>2, <1>3 DEF A!Entries
<1>5. CASE A!Unlink(x)
  <2>1. /\ AllocInv' /\ allocated' = [allocated EXCEPT ![x] = FALSE]
        /\ cur_max_id' = cur_max_id
    BY <1>2, <1>4, <1>5, UnlinkStep
  <2>2. allocated \in [A!Entries -> BOOLEAN]
    BY <1>2 DEF AllocInv, A!TypeOK
  <2>3. \A h \in held \ {m} : index[h] + 2 # x /\ allocated'[index[h] + 2]
    <3> TAKE h \in held \ {m}
    <3>1. index[h] # index[m] /\ index[h] \in Nat
      BY <1>1, <1>2, <1>3
    <3>2. index[h] + 2 \in A!Entries
      BY <1>2, <1>3, <3>1 DEF A!Entries
    <3> QED
      BY <1>2, <1>3, <2>1, <2>2, <3>1, <3>2
  <2>4. TypeOK' /\ Indexed'
    BY <1>1, <2>1 DEF IInv, TypeOK, AllocInv, Indexed
  <2>5. HeldStaysAllocated'
    BY <1>1, <1>3, <2>3 DEF HeldStaysAllocated, Register
  <2> QED
    BY <1>1, <2>1, <2>4, <2>5 DEF IInv, AllocInv
<1>6. CASE UNCHANGED <<cur_max_id, prev, next, allocated, allocated_nelems>>
  <2>1. A!TypeOK' /\ Stacked' /\ Counted' /\ Indexed'
    BY <1>1, <1>6 DEF IInv, TypeOK, A!TypeOK, A!Entries, Stacked, Counted, InUse, Indexed
  <2>2. HeldStaysAllocated'
    BY <1>1, <1>3, <1>6 DEF HeldStaysAllocated, Register
  <2> QED
    BY <1>1, <2>1, <2>2 DEF IInv, TypeOK
<1>7. A!Unlink(x) \/ UNCHANGED <<cur_max_id, prev, next, allocated, allocated_nelems>>
  BY DEF freeMutable, A!free, A!EntryOf
<1> QED
  BY <1>5, <1>6, <1>7

(* A count of zero means that no client holds a Mutable.                   *)
LEMMA NothingHeld ==
  ASSUME IInv, allocated_nelems = 0
  PROVE  held = {}
<1>1. InUse = {}
  BY NoneCounted DEF IInv, TypeOK, AllocInv
<1>2. ASSUME NEW h \in held PROVE FALSE
  <2>1. index[h] \in Nat /\ index[h] < cur_max_id - 2 /\ cur_max_id \in Nat
        /\ allocated[index[h] + 2]
    BY DEF IInv, TypeOK, A!TypeOK, Indexed, HeldStaysAllocated
  <2> QED
    BY <1>1, <2>1 DEF InUse
<1> QED
  BY <1>2

(* Opening and closing the body, which clear the stack.                    *)
LEMMA ClearStep ==
  ASSUME IInv, Clear, held = {}, enabled' \in BOOLEAN
  PROVE  IInv'
<1>1. AllocInv' /\ registers' = <<>> /\ cur_max_id' = 2
      /\ UNCHANGED <<type, index, used, held, stale>>
  BY ClearedInv DEF Clear
<1> QED
  BY <1>1 DEF IInv, TypeOK, AllocInv, Indexed, HeldStaysAllocated

(* The initial states satisfy the invariant.                               *)
LEMMA InvInit == Init => IInv
<1> SUFFICES ASSUME Init PROVE IInv
  OBVIOUS
<1>1. AllocInv /\ cur_max_id = 2
  BY ClearedInv DEF Init, A!Init
<1>2. TypeOK
  <2>1. index \in [Mutables -> Nat] /\ registers \in Seq(Mutables)
    BY DEF Init
  <2>2. enabled \in BOOLEAN /\ type \in [Mutables -> RegTypes]
    BY DEF Init
  <2>3. used \subseteq Mutables /\ held \subseteq Mutables /\ stale \subseteq Mutables
    BY DEF Init
  <2> QED
    BY <1>1, <2>1, <2>2, <2>3 DEF TypeOK, AllocInv
<1>3. Indexed
  BY <1>1 DEF Init, Indexed
<1> QED
  BY <1>1, <1>2, <1>3 DEF Init, IInv, AllocInv, HeldStaysAllocated

(* Nothing is held before a context is enabled. *)
LEMMA InvNext ==
  ASSUME Calls = {}, IInv, [Next]_vars
  PROVE  IInv'
<1>1. CASE enableMutContext
  <2>1. held = {}
    BY <1>1 DEF enableMutContext, IInv, HeldStaysAllocated
  <2> QED
    BY <1>1, <2>1, ClearStep DEF enableMutContext
<1>2. CASE disableMutContext
  <2>1. held = {}
    BY <1>2, NothingHeld DEF disableMutContext, count_registers
  <2> QED
    BY <1>2, <2>1, ClearStep DEF disableMutContext
<1>3. ASSUME NEW t \in RegTypes, allocateMutable(t) PROVE IInv'
  BY <1>3, AllocateStep
<1>4. ASSUME NEW m \in Mutables, freeMutable(m) PROVE IInv'
  BY <1>4, FreeStep
<1>5. ASSUME NEW m \in Mutables, Use(m) \/ Unuse(m) \/ Forget(m) PROVE IInv'
  <2>1. /\ UNCHANGED <<enabled, registers, type, index, held, allocator>>
        /\ used' \subseteq held /\ stale' \subseteq Mutables /\ held \subseteq Mutables
    BY <1>5 DEF Use, Unuse, Forget, IInv, TypeOK
  <2> QED
    BY <2>1 DEF IInv, TypeOK, A!TypeOK, A!Entries, Stacked, Counted, InUse, Indexed,
                HeldStaysAllocated, Register, allocator
<1>6. CASE UNCHANGED vars
  BY <1>6 DEF vars, IInv, TypeOK, A!TypeOK, A!Entries, Stacked, Counted, InUse, Indexed,
              HeldStaysAllocated, Register, allocator
<1> QED
  BY <1>1, <1>2, <1>3, <1>4, <1>5, <1>6 DEF Next

(* The invariant holds always, for clients with none of the unsafe calls.  *)
LEMMA Inductive ==
  ASSUME Calls = {}
  PROVE  Spec => []IInv
<1>1. IInv /\ [Next]_vars => IInv'
  BY InvNext
<1> QED
  BY <1>1, InvInit, PTL DEF Spec

-----------------------------------------------------------------------------
(* The registers and the allocator keep their types. *)
THEOREM TypeCorrect ==
  ASSUME Calls = {}
  PROVE  Spec => []TypeOK
<1>1. IInv => TypeOK
  BY DEF IInv
<1> QED
  BY <1>1, Inductive, PTL

(* Every entry is on exactly one of the two stacks, the one its flag says, *)
(* no stack runs into itself or into the other, and free finds the entry   *)
(* before the one it unlinks.                                              *)
THEOREM StacksStayApart ==
  ASSUME Calls = {}
  PROVE  Spec => []StacksPartition
<1>1. IInv => StacksPartition
  <2> SUFFICES ASSUME A!TypeOK, Stacked PROVE StacksPartition
    BY DEF IInv, TypeOK
  <2> DEFINE E     == A!Entries
             on(f) == {e \in 2 .. cur_max_id - 1 : allocated[e] = f}
  <2>1. Shape(E, next, prev, allocated)
    BY DEF Stacked
  <2>2. E \ {0, 1} = 2 .. cur_max_id - 1 /\ allocated \in [E -> BOOLEAN]
    BY DEF A!TypeOK, A!Entries
  <2> HIDE DEF E
  <2>3. Closed(next, 1, on(TRUE)) /\ Closed(next, 0, on(FALSE))
    BY <2>1, <2>2 DEF Shape, Closed
  <2>4. \A h : A!Stack(h) = {e \in E : \A S \in SUBSET E : A!Follows(h, S) => e \in S}
    BY DEF A!Stack, E
  <2>5. A!Stack(1) = {e \in 2 .. cur_max_id - 1 : allocated[e]}
    <3>1. A!Follows(1, on(TRUE))
      BY <2>3 DEF A!Follows, A!None, Closed
    <3>2. on(TRUE) \in SUBSET E
      BY <2>2
    <3>3. ASSUME NEW e \in A!Stack(1) PROVE e \in 2 .. cur_max_id - 1 /\ allocated[e]
      <4>1. e \in on(TRUE)
        BY <2>4, <3>1, <3>2, <3>3
      <4> QED
        BY <4>1
    <3>4. ASSUME NEW e \in 2 .. cur_max_id - 1, allocated[e] PROVE e \in A!Stack(1)
      <4>1. ASSUME NEW T \in SUBSET E, A!Follows(1, T) PROVE e \in T
        <5>1. Closed(next, 1, T)
          BY <4>1 DEF A!Follows, A!None, Closed
        <5> QED
          BY <2>1, <2>2, <3>4, <5>1 DEF Shape, Reached
      <4>2. e \in E
        BY <2>2
      <4> QED
        BY <2>4, <4>1, <4>2
    <3> QED
      BY <3>3, <3>4
  <2>6. A!Stack(0) = {e \in 2 .. cur_max_id - 1 : ~allocated[e]}
    <3>1. A!Follows(0, on(FALSE))
      BY <2>3 DEF A!Follows, A!None, Closed
    <3>2. on(FALSE) \in SUBSET E
      BY <2>2
    <3>3. ASSUME NEW e \in A!Stack(0) PROVE e \in 2 .. cur_max_id - 1 /\ ~allocated[e]
      <4>1. e \in on(FALSE)
        BY <2>4, <3>1, <3>2, <3>3
      <4> QED
        BY <4>1
    <3>4. ASSUME NEW e \in 2 .. cur_max_id - 1, ~allocated[e] PROVE e \in A!Stack(0)
      <4>1. ASSUME NEW T \in SUBSET E, A!Follows(0, T) PROVE e \in T
        <5>1. Closed(next, 0, T)
          BY <4>1 DEF A!Follows, A!None, Closed
        <5> QED
          BY <2>1, <2>2, <3>4, <5>1 DEF Shape, Reached
      <4>2. e \in E
        BY <2>2
      <4> QED
        BY <2>4, <4>1, <4>2
    <3> QED
      BY <3>3, <3>4
  <2>7. A!SuccessorsDiffer
    BY <2>1 DEF Shape, A!SuccessorsDiffer, A!None, E
  <2>8. A!PrevOfUsed
    BY <2>1 DEF Shape, A!PrevOfUsed, E
  <2> QED
    BY <2>5, <2>6, <2>7, <2>8 DEF StacksPartition, A!OnItsStack, A!Used, A!Unused
<1> QED
  BY <1>1, Inductive, PTL

(* What a client holds is in its register, and its index is not free:      *)
(* allocateMutable gives no register to two clients.                       *)
THEOREM HeldIsKept ==
  ASSUME Calls = {}
  PROVE  Spec => []HeldStaysAllocated
<1>1. IInv => HeldStaysAllocated
  BY DEF IInv
<1> QED
  BY <1>1, Inductive, PTL

(* allocateMutable hands out a Mutable of the type asked for that no       *)
(* instruction uses.                                                       *)
THEOREM UnusedHandedOut ==
  ASSUME Calls = {}
  PROVE  Spec => HandsOutUnused
<1>1. IInv /\ [Next]_vars =>
        [\A t \in RegTypes : allocateMutable(t) =>
           \A m \in held' \ held : type'[m] = t /\ m \notin used]_vars
  BY AllocateStep
<1> QED
  BY <1>1, Inductive, PTL DEF Spec, HandsOutUnused

(* disableMutContext gives up the context only if nothing is held: the     *)
(* counter it asks is exact, because there are fewer ids than a uint32_t   *)
(* can count.                                                              *)
THEOREM DisabledIfUnheld ==
  ASSUME Calls = {}
  PROVE  Spec => DisabledOnlyIfUnheld
<1>1. IInv /\ [Next]_vars => [disableMutContext => held = {}]_vars
  BY NothingHeld DEF disableMutContext, count_registers
<1> QED
  BY <1>1, Inductive, PTL DEF Spec, DisabledOnlyIfUnheld
-----------------------------------------------------------------------------
(* Owned handles.                                                          *)

HoldersIn(K, p, o) == {k \in K : p[k] = o}

Bias(o) == IF o \in Inline THEN 1 ELSE 0

(* The counts c and the pointers p of the handles K agree on the objects   *)
(* L; d is the one about to be destroyed and s are the stolen ones.        *)
Good(p, c, s, K, L, d) ==
  /\ \A o \in L : c[o] = Cardinality(HoldersIn(K, p, o)) + Bias(o)
  /\ \A k \in K : p[k] \in (L \ {d}) \cup {Null}
  /\ \A o \in L \ s : o = d \/ c[o] > 0
  /\ \A o \in s : o \in L \ {d} /\ o \notin Inline /\ c[o] = 0
  /\ d # Null => d \in L /\ d \notin Inline /\ c[d] = 0
  /\ Inline \subseteq L

Counting == (Vars \cup live) \ {pending.to}

(* The assignment under way got its handles from what is held without its  *)
(* target.                                                                 *)
PendingNamed ==
  pending # Nothing =>
    /\ pending.to \in Vars \cup HeldWithout(pending.to)
    /\ pending.how # "reset" =>
         \/ pending.from = pending.to /\ pending.how = "move"
         \/ pending.from \in (Vars \cup HeldWithout(pending.to)) \ {pending.to}

OwnedInv ==
  /\ OwnedTypeOK
  /\ Good(ptr, ref_count, stolen, Counting, live, dying)
  /\ PendingNamed

-----------------------------------------------------------------------------
(* The handles that point to one object are finitely many. *)
LEMMA HoldersFinite ==
  ASSUME NEW K \in SUBSET Handles, NEW p, NEW o
  PROVE  /\ IsFiniteSet(HoldersIn(K, p, o))
         /\ Cardinality(HoldersIn(K, p, o)) \in Nat
<1>1. IsFiniteSet(Handles)
  BY OwnedRefAssumption, FS_Union DEF Handles
<1>2. HoldersIn(K, p, o) \in SUBSET Handles
  BY DEF HoldersIn
<1> QED
  BY <1>1, <1>2, FS_Subset, FS_CardinalityType

(* What unref does to the counts c when h is given up, and what dies then.  *)
Dropped(p, c, h, b, e) ==
  IF p[h] = Null THEN b = c /\ e = Null
  ELSE /\ b = [c EXCEPT ![p[h]] = @ - 1]
       /\ e = IF c[p[h]] = 1 THEN p[h] ELSE Null

(* A handle ceases to be counted, and its target may be about to die. *)
LEMMA DropHandle ==
  ASSUME NEW p \in [Handles -> Objects \cup {Null}], NEW c \in [Objects -> Nat],
         NEW s, NEW K \in SUBSET Handles, NEW L \in SUBSET Objects, NEW d,
         Good(p, c, s, K, L, d), NEW h \in K, d \in {Null, h},
         NEW b, NEW e, Dropped(p, c, h, b, e)
  PROVE  Good(p, b, s, K \ {h}, L \ {d}, e) /\ b \in [Objects -> Nat]
<1> DEFINE H(o) == HoldersIn(K, p, o)
           J(o) == HoldersIn(K \ {h}, p, o)
           t    == p[h]
<1>1. ASSUME NEW o \in L
      PROVE  /\ IsFiniteSet(H(o)) /\ Cardinality(H(o)) \in Nat
             /\ c[o] = Cardinality(H(o)) + Bias(o) /\ Bias(o) \in {0, 1}
             /\ IsFiniteSet(J(o)) /\ Cardinality(J(o)) \in Nat
             /\ Cardinality(J(o)) = IF o = t THEN Cardinality(H(o)) - 1 ELSE Cardinality(H(o))
             /\ o = t => c[o] >= 1 + Bias(o)
  <2>1. IsFiniteSet(H(o)) /\ Cardinality(H(o)) \in Nat
    BY HoldersFinite
  <2>2. J(o) = H(o) \ {h}
    BY DEF HoldersIn
  <2>5. h \in H(o) <=> o = t
    BY DEF HoldersIn
  <2>6. c[o] = Cardinality(H(o)) + Bias(o) /\ Bias(o) \in {0, 1}
    BY DEF Good, Bias
  <2> HIDE DEF H, J
  <2>3. /\ IsFiniteSet(J(o))
        /\ h \in H(o) => Cardinality(J(o)) = Cardinality(H(o)) - 1
        /\ h \notin H(o) => Cardinality(J(o)) = Cardinality(H(o))
    <3> DEFINE I == H(o) \ {h}
    <3>1. /\ IsFiniteSet(I)
          /\ h \in H(o) => Cardinality(I) = Cardinality(H(o)) - 1
          /\ h \notin H(o) => Cardinality(I) = Cardinality(H(o))
      BY <2>1, FS_RemoveElement
    <3>2. J(o) = I
      BY <2>2
    <3> QED
      BY <3>1, <3>2
  <2>4. Cardinality(J(o)) \in Nat
    BY <2>3, FS_CardinalityType
  <2> QED
    BY <2>1, <2>3, <2>4, <2>5, <2>6
<1>2. t \in (L \ {d}) \cup {Null} /\ Null \notin L /\ Null \notin Objects
  BY OwnedRefAssumption DEF Good
<1>3. CASE t = Null
  <2>1. \A o \in L : b[o] = Cardinality(J(o)) + Bias(o)
    BY <1>1, <1>2, <1>3 DEF Dropped
  <2> QED
    BY <1>2, <1>3, <2>1 DEF Good, Dropped
<1>4. CASE t # Null
  <2> HIDE DEF H, J, t
  <2>0. t = p[h]
    BY DEF t
  <2>1. t \in L /\ t # d /\ c[t] \in Nat /\ c[t] >= 1 + Bias(t) /\ Bias(t) \in {0, 1}
    BY <1>1, <1>2, <1>4
  <2>2. b = [c EXCEPT ![t] = c[t] - 1] /\ e = IF c[t] = 1 THEN t ELSE Null
    BY <1>4, <2>0 DEF Dropped
  <2>3. \A o \in Objects : b[o] = IF o = t THEN c[o] - 1 ELSE c[o]
    BY <2>1, <2>2
  <2>4. b \in [Objects -> Nat]
    BY <2>1, <2>2, <2>3
  <2>5. \A o \in L : b[o] = Cardinality(J(o)) + Bias(o)
    BY <1>1, <2>1, <2>3
  <2>6. ASSUME e = t PROVE J(t) = {} /\ t \notin Inline /\ b[t] = 0
    <3>1. c[t] = 1
      BY <1>2, <1>4, <2>2, <2>6
    <3>2. Bias(t) = 0 /\ b[t] = 0
      BY <2>1, <2>3, <3>1
    <3>3. Cardinality(J(t)) = 0 /\ IsFiniteSet(J(t))
      BY <1>1, <2>1, <2>5, <3>2
    <3>4. J(t) = {}
      BY <3>3, FS_EmptySet
    <3> QED
      BY <3>2, <3>4 DEF Bias
  <2>7. \A k \in K \ {h} : p[k] \in ((L \ {d}) \ {e}) \cup {Null}
    <3> TAKE k \in K \ {h}
    <3>1. p[k] \in (L \ {d}) \cup {Null}
      BY DEF Good
    <3>2. CASE e = t /\ p[k] = t
      BY <2>6, <3>2 DEF J, HoldersIn
    <3>3. CASE e # t
      BY <1>2, <2>2, <3>1, <3>3
    <3> QED
      BY <3>1, <3>2, <3>3
  <2>8. \A o \in (L \ {d}) \ s : o = e \/ b[o] > 0
    <3> TAKE o \in (L \ {d}) \ s
    <3>1. c[o] > 0 /\ c[o] \in Nat
      BY DEF Good
    <3> QED
      BY <2>1, <2>2, <2>3, <3>1
  <2>9. \A o \in s : o \in (L \ {d}) \ {e} /\ o \notin Inline /\ b[o] = 0
    <3> TAKE o \in s
    <3>1. o \in L \ {d} /\ o \notin Inline /\ c[o] = 0
      BY DEF Good
    <3>2. o # t
      BY <2>1, <3>1
    <3> QED
      BY <1>2, <2>2, <2>3, <3>1, <3>2
  <2>10. e # Null => e \in L \ {d} /\ e \notin Inline /\ b[e] = 0
    BY <2>1, <2>2, <2>6
  <2>11. Inline \subseteq L \ {d}
    BY <1>2 DEF Good
  <2> QED
    BY <2>4, <2>5, <2>7, <2>8, <2>9, <2>10, <2>11 DEF Good, J
<1> QED
  BY <1>3, <1>4

(* A handle that was null, or was not counted, points to a live object. *)
LEMMA AddHandle ==
  ASSUME NEW p \in [Handles -> Objects \cup {Null}], NEW c \in [Objects -> Nat],
         NEW s, NEW K \in SUBSET Handles, NEW L \in SUBSET Objects,
         Good(p, c, s, K, L, Null), NEW h \in Handles, h \in K => p[h] = Null,
         NEW o \in L
  PROVE  Good([p EXCEPT ![h] = o], [c EXCEPT ![o] = @ + 1], s \ {o}, K \cup {h}, L, Null)
<1> DEFINE q == [p EXCEPT ![h] = o]
           b == [c EXCEPT ![o] = @ + 1]
<1>1. Null \notin L /\ Null \notin Objects
  BY OwnedRefAssumption
<1>2. q[h] = o /\ \A k \in Handles \ {h} : q[k] = p[k]
  OBVIOUS
<1>3. \A x \in Objects : b[x] = IF x = o THEN c[x] + 1 ELSE c[x]
  OBVIOUS
<1> HIDE DEF q, b
<1>4. ASSUME NEW x \in L PROVE b[x] = Cardinality(HoldersIn(K \cup {h}, q, x)) + Bias(x)
  <2> DEFINE H == HoldersIn(K, p, x)
             J == HoldersIn(K \cup {h}, q, x)
  <2>1. IsFiniteSet(H) /\ Cardinality(H) \in Nat
    BY HoldersFinite
  <2>2. h \notin H
    BY <1>1 DEF HoldersIn
  <2>3. J = IF x = o THEN H \cup {h} ELSE H
    BY <1>1, <1>2 DEF HoldersIn
  <2>4. c[x] = Cardinality(H) + Bias(x) /\ Bias(x) \in {0, 1}
    BY DEF Good, Bias
  <2> HIDE DEF H, J
  <2>5. Cardinality(H \cup {h}) = Cardinality(H) + 1
    BY <2>1, <2>2, FS_AddElement
  <2>6. b[x] = Cardinality(J) + Bias(x)
    BY <1>3, <2>1, <2>3, <2>4, <2>5
  <2> QED
    BY <2>6 DEF J
<1>5. \A k \in K \cup {h} : q[k] \in (L \ {Null}) \cup {Null}
  BY <1>2 DEF Good
<1>6. \A x \in L \ (s \ {o}) : x = Null \/ b[x] > 0
  <2> TAKE x \in L \ (s \ {o})
  <2>1. c[x] \in Nat /\ (x # o => c[x] > 0)
    BY <1>1 DEF Good
  <2> QED
    BY <1>3, <2>1
<1>7. \A x \in s \ {o} : x \in L \ {Null} /\ x \notin Inline /\ b[x] = 0
  BY <1>3 DEF Good
<1>8. Inline \subseteq L
  BY DEF Good
<1>9. Good(q, b, s \ {o}, K \cup {h}, L, Null)
  BY <1>4, <1>5, <1>6, <1>7, <1>8 DEF Good
<1> QED
  BY <1>9 DEF q, b

(* A handle that was not counted becomes null. *)
LEMMA NullHandle ==
  ASSUME NEW p \in [Handles -> Objects \cup {Null}], NEW c,
         NEW s, NEW K \in SUBSET Handles, NEW L \in SUBSET Objects,
         Good(p, c, s, K, L, Null), NEW h \in Handles \ K
  PROVE  Good([p EXCEPT ![h] = Null], c, s, K \cup {h}, L, Null)
<1> DEFINE q == [p EXCEPT ![h] = Null]
<1>1. Null \notin L
  BY OwnedRefAssumption
<1>2. q[h] = Null /\ \A k \in Handles \ {h} : q[k] = p[k]
  OBVIOUS
<1> HIDE DEF q
<1>3. \A x \in L : HoldersIn(K \cup {h}, q, x) = HoldersIn(K, p, x)
  BY <1>1, <1>2 DEF HoldersIn
<1>4. \A k \in K \cup {h} : q[k] \in (L \ {Null}) \cup {Null}
  BY <1>2 DEF Good
<1>5. Good(q, c, s, K \cup {h}, L, Null)
  BY <1>3, <1>4 DEF Good
<1> QED
  BY <1>5 DEF q

(* A handle that was not counted takes over what another one points to. *)
LEMMA MoveHandle ==
  ASSUME NEW p \in [Handles -> Objects \cup {Null}], NEW c,
         NEW s, NEW K \in SUBSET Handles, NEW L \in SUBSET Objects,
         Good(p, c, s, K, L, Null), NEW h \in Handles \ K, NEW g \in K
  PROVE  Good([p EXCEPT ![h] = p[g], ![g] = Null], c, s, K \cup {h}, L, Null)
<1> DEFINE q == [p EXCEPT ![h] = p[g], ![g] = Null]
<1>1. Null \notin L
  BY OwnedRefAssumption
<1>2. q[h] = p[g] /\ q[g] = Null /\ \A k \in Handles \ {g, h} : q[k] = p[k]
  OBVIOUS
<1> HIDE DEF q
<1>3. ASSUME NEW x \in L
      PROVE  Cardinality(HoldersIn(K \cup {h}, q, x)) = Cardinality(HoldersIn(K, p, x))
  <2> DEFINE H == HoldersIn(K, p, x)
             J == HoldersIn(K \cup {h}, q, x)
             I == H \ {g}
  <2>1. IsFiniteSet(H) /\ Cardinality(H) \in Nat
    BY HoldersFinite
  <2>2. h \notin H
    BY DEF HoldersIn
  <2>3. CASE p[g] # x
    <3>1. J = H
      BY <1>1, <1>2, <2>3 DEF HoldersIn
    <3> QED
      BY <3>1
  <2>4. CASE p[g] = x
    <3>1. J = I \cup {h} /\ g \in H /\ h \notin I
      BY <1>1, <1>2, <2>4 DEF HoldersIn
    <3> HIDE DEF H, J
    <3>2. IsFiniteSet(I) /\ Cardinality(I) = Cardinality(H) - 1
      BY <2>1, <3>1, FS_RemoveElement
    <3> HIDE DEF I
    <3>3. Cardinality(J) = Cardinality(I) + 1
      BY <3>1, <3>2, FS_AddElement
    <3>4. Cardinality(J) = Cardinality(H)
      BY <2>1, <3>2, <3>3
    <3> QED
      BY <3>4 DEF H, J
  <2> QED
    BY <2>3, <2>4
<1>4. \A k \in K \cup {h} : q[k] \in (L \ {Null}) \cup {Null}
  BY <1>2 DEF Good
<1>5. Good(q, c, s, K \cup {h}, L, Null)
  BY <1>3, <1>4 DEF Good
<1> QED
  BY <1>5 DEF q

(* A counted handle gives its object away, to a client if it was the last. *)
LEMMA StealHandle ==
  ASSUME NEW p \in [Handles -> Objects \cup {Null}], NEW c \in [Objects -> Nat],
         NEW s, NEW K \in SUBSET Handles, NEW L \in SUBSET Objects,
         Good(p, c, s, K, L, Null), NEW h \in K, p[h] # Null
  PROVE  /\ Good([p EXCEPT ![h] = Null], [c EXCEPT ![p[h]] = @ - 1],
                  IF c[p[h]] = 1 THEN s \cup {p[h]} ELSE s, K, L, Null)
         /\ [c EXCEPT ![p[h]] = @ - 1] \in [Objects -> Nat]
         /\ p[h] \in L
<1> DEFINE q == [p EXCEPT ![h] = Null]
           t == p[h]
           b == [c EXCEPT ![t] = c[t] - 1]
           e == IF c[t] = 1 THEN t ELSE Null
<1>1. Null \notin L /\ L \ {Null} = L /\ t \in L /\ t \in Objects
  BY OwnedRefAssumption DEF Good
<1>2. Dropped(p, c, h, b, e)
  BY DEF Dropped
<1>3. Good(p, b, s, K \ {h}, L, e) /\ b \in [Objects -> Nat]
  <2> HIDE DEF q, t, b, e
  <2>2. Good(p, b, s, K \ {h}, L \ {Null}, e) /\ b \in [Objects -> Nat]
    BY <1>2, DropHandle
  <2> QED
    BY <1>1, <2>2
<1>4. q[h] = Null /\ \A k \in Handles \ {h} : q[k] = p[k]
  OBVIOUS
<1>5. e # Null => e = t /\ c[t] = 1
  OBVIOUS
<1>6. (IF c[t] = 1 THEN s \cup {t} ELSE s) = IF e = Null THEN s ELSE s \cup {e}
  BY <1>1
<1> HIDE DEF q, b, t, e
<1>7. \A x \in L : HoldersIn(K, q, x) = HoldersIn(K \ {h}, p, x)
  BY <1>1, <1>4 DEF HoldersIn
<1>8. \A k \in K : q[k] \in (L \ {Null}) \cup {Null}
  BY <1>1, <1>3, <1>4 DEF Good
<1> DEFINE r == IF e = Null THEN s ELSE s \cup {e}
<1>9. Good(q, b, r, K, L, Null)
  <2>1. \A x \in L : b[x] = Cardinality(HoldersIn(K, q, x)) + Bias(x)
    BY <1>3, <1>7 DEF Good
  <2>2. \A x \in L \ r : x = Null \/ b[x] > 0
    BY <1>3 DEF Good
  <2>3. \A x \in r : x \in L \ {Null} /\ x \notin Inline /\ b[x] = 0
    BY <1>1, <1>3 DEF Good
  <2>4. Inline \subseteq L
    BY DEF Good
  <2> QED
    BY <1>8, <2>1, <2>2, <2>3, <2>4 DEF Good
<1> QED
  BY <1>1, <1>3, <1>6, <1>9 DEF q, b, t, r

(* A stolen object is deleted by its client. *)
LEMMA DeleteStolen ==
  ASSUME NEW p \in [Handles -> Objects \cup {Null}], NEW c,
         NEW s, NEW K \in SUBSET Handles, NEW L \in SUBSET Objects,
         Good(p, c, s, K, L, Null), NEW o \in s
  PROVE  Good(p, c, s \ {o}, K, L, o)
<1>1. o \in L /\ o \notin Inline /\ c[o] = 0 /\ Null \notin L
  BY OwnedRefAssumption DEF Good
<1>2. HoldersIn(K, p, o) = {}
  <2>1. IsFiniteSet(HoldersIn(K, p, o)) /\ Cardinality(HoldersIn(K, p, o)) \in Nat
    BY HoldersFinite
  <2>2. Cardinality(HoldersIn(K, p, o)) = 0
    BY <1>1, <2>1 DEF Good, Bias
  <2> QED
    BY <2>1, <2>2, FS_EmptySet
<1>3. \A k \in K : p[k] \in (L \ {o}) \cup {Null}
  BY <1>2 DEF Good, HoldersIn
<1> QED
  BY <1>1, <1>3 DEF Good

(* A new object, held by a variable that was null. *)
LEMMA MakeObject ==
  ASSUME NEW p \in [Handles -> Objects \cup {Null}], NEW c \in [Objects -> Nat],
         NEW s, NEW K \in SUBSET Handles, NEW L \in SUBSET Objects,
         Good(p, c, s, K, L, Null), NEW h \in K, p[h] = Null,
         NEW o \in Objects \ L, o \notin K
  PROVE  Good([p EXCEPT ![o] = Null, ![h] = o], [c EXCEPT ![o] = 1], s,
              K \cup {o}, L \cup {o}, Null)
<1> DEFINE q == [p EXCEPT ![o] = Null, ![h] = o]
           b == [c EXCEPT ![o] = 1]
<1>1. Null \notin L /\ o # Null /\ o \in Handles
  BY OwnedRefAssumption DEF Handles
<1>2. q[h] = o /\ q[o] = Null /\ \A k \in Handles \ {h, o} : q[k] = p[k]
  BY <1>1
<1>3. b[o] = 1 /\ \A x \in L : b[x] = c[x]
  OBVIOUS
<1> HIDE DEF q, b
<1>4. HoldersIn(K \cup {o}, q, o) = {h}
  BY <1>1, <1>2 DEF HoldersIn, Good
<1>5. o \notin Inline /\ o \notin s
  BY DEF Good
<1>6. b[o] = Cardinality(HoldersIn(K \cup {o}, q, o)) + Bias(o)
  <2>1. Cardinality({h}) = 1
    BY FS_Singleton
  <2> QED
    BY <1>3, <1>4, <1>5, <2>1 DEF Bias
<1>7. ASSUME NEW x \in L PROVE b[x] = Cardinality(HoldersIn(K \cup {o}, q, x)) + Bias(x)
  <2>1. x # Null /\ x # o
    BY <1>1
  <2>2. HoldersIn(K \cup {o}, q, x) = HoldersIn(K, p, x)
    BY <1>1, <1>2, <2>1 DEF HoldersIn
  <2> QED
    BY <1>3, <2>2 DEF Good
<1>8. \A k \in K \cup {o} : q[k] \in ((L \cup {o}) \ {Null}) \cup {Null}
  BY <1>1, <1>2 DEF Good
<1>9. \A x \in (L \cup {o}) \ s : x = Null \/ b[x] > 0
  BY <1>3 DEF Good
<1>10. \A x \in s : x \in (L \cup {o}) \ {Null} /\ x \notin Inline /\ b[x] = 0
  BY <1>3, <1>5 DEF Good
<1>11. Inline \subseteq L \cup {o}
  BY DEF Good
<1>12. Good(q, b, s, K \cup {o}, L \cup {o}, Null)
  BY <1>6, <1>7, <1>8, <1>9, <1>10, <1>11 DEF Good
<1> QED
  BY <1>12 DEF q, b
(* What a counted handle points to has a positive count, and is not stolen. *)
LEMMA HeldCounts ==
  ASSUME NEW p, NEW c, NEW s, NEW K \in SUBSET Handles, NEW L \in SUBSET Objects, NEW d,
         Good(p, c, s, K, L, d), NEW k \in K, p[k] \in L
  PROVE  c[p[k]] > 0 /\ p[k] \notin s
<1> DEFINE H == HoldersIn(K, p, p[k])
<1>1. IsFiniteSet(H) /\ Cardinality(H) \in Nat
  BY HoldersFinite
<1>2. k \in H
  BY DEF HoldersIn
<1>3. c[p[k]] = Cardinality(H) + Bias(p[k]) /\ Bias(p[k]) \in {0, 1}
  BY DEF Good, Bias
<1> HIDE DEF H
<1>4. Cardinality(H) # 0
  BY <1>1, <1>2, FS_EmptySet
<1>5. c[p[k]] > 0
  BY <1>1, <1>3, <1>4
<1> QED
  BY <1>5 DEF Good

-----------------------------------------------------------------------------
(* What is held without the target of the assignment stays: it is alive    *)
(* and not about to be destroyed.                                          *)
LEMMA SafeHeld ==
  ASSUME OwnedInv
  PROVE  HeldWithout(pending.to) \subseteq live \ {dying}
<1> DEFINE S == live \ {dying}
<1>1. S \in SUBSET Objects
  BY DEF OwnedInv, OwnedTypeOK
<1>2. Inline \cup stolen \subseteq S
  BY OwnedRefAssumption DEF OwnedInv, Good
<1>3. \A v \in Vars \ {pending.to} : ptr[v] # Null => ptr[v] \in S
  BY DEF OwnedInv, Good, Counting
<1>4. \A f \in S \ {pending.to} : ptr[f] # Null => ptr[f] \in S
  BY DEF OwnedInv, Good, Counting
<1> HIDE DEF S
<1>5. \A o \in HeldWithout(pending.to) : o \in S
  BY <1>1, <1>2, <1>3, <1>4 DEF HeldWithout
<1> QED
  BY <1>5 DEF S

(* An object keeps itself out of what its own field holds. *)
LEMMA HeldWithoutItself ==
  ASSUME OwnedTypeOK, NEW h \in HeldWithout(Null), h \notin Vars
  PROVE  h \in HeldWithout(h)
<1>1. h \in Objects
  BY DEF HeldWithout
<1>2. ASSUME NEW S \in SUBSET Objects,
             Inline \cup stolen \subseteq S,
             \A v \in Vars \ {h} : ptr[v] # Null => ptr[v] \in S,
             \A f \in S \ {h} : ptr[f] # Null => ptr[f] \in S
      PROVE  h \in S
  <2>1. CASE h \notin S
    <3>1. /\ \A v \in Vars \ {Null} : ptr[v] # Null => ptr[v] \in S
          /\ \A f \in S \ {Null} : ptr[f] # Null => ptr[f] \in S
      BY <1>2, <2>1
    <3> QED
      BY <1>2, <3>1 DEF HeldWithout
  <2> QED
    BY <2>1
<1> QED
  BY <1>1, <1>2 DEF HeldWithout

(* Between two calls every handle is counted, and a client names only those. *)
LEMMA WhenIdle ==
  ASSUME OwnedInv, Idle
  PROVE  /\ Counting = Vars \cup live /\ Counting \in SUBSET Handles
         /\ live \in SUBSET Objects /\ live \ {Null} = live
         /\ Good(ptr, ref_count, stolen, Counting, live, Null)
         /\ HeldWithout(Null) \subseteq live
         /\ \A h : Named(h) => h \in Counting
         /\ \A h \in Counting : ptr[h] # Null => ptr[h] \in live
<1>1. pending.to = Null /\ dying = Null
  BY DEF Idle, Nothing
<1>2. Null \notin Vars \cup live /\ live \in SUBSET Objects
  BY OwnedRefAssumption DEF OwnedInv, OwnedTypeOK
<1>3. Counting = Vars \cup live
  BY <1>1, <1>2 DEF Counting
<1>4. HeldWithout(Null) \subseteq live
  BY <1>1, SafeHeld
<1>5. Good(ptr, ref_count, stolen, Counting, live, Null)
  BY <1>1 DEF OwnedInv
<1>6. \A h \in Counting : ptr[h] # Null => ptr[h] \in live
  BY <1>5 DEF Good
<1> QED
  BY <1>2, <1>3, <1>4, <1>5, <1>6 DEF Named, Handles
(* The initial states satisfy the invariant.                               *)
LEMMA OwnedInvInit == OwnedInit => OwnedInv
<1> SUFFICES ASSUME OwnedInit PROVE OwnedInv
  OBVIOUS
<1>1. OwnedTypeOK
  BY OwnedRefAssumption DEF OwnedInit, OwnedTypeOK
<1>2. \A k \in Counting : ptr[k] = Null
  BY OwnedRefAssumption DEF OwnedInit, Counting, Handles
<1>3. ASSUME NEW o \in live
      PROVE  ref_count[o] = Cardinality(HoldersIn(Counting, ptr, o)) + Bias(o)
  <2>1. o # Null /\ o \in Inline /\ o \in Objects
    BY OwnedRefAssumption DEF OwnedInit
  <2>2. HoldersIn(Counting, ptr, o) = {}
    BY <1>2, <2>1 DEF HoldersIn
  <2>3. Cardinality(HoldersIn(Counting, ptr, o)) = 0
    BY <2>2, FS_EmptySet
  <2> QED
    BY <2>1, <2>3 DEF OwnedInit, Bias
<1>4. Good(ptr, ref_count, stolen, Counting, live, dying)
  BY OwnedRefAssumption, <1>3, <1>2 DEF OwnedInit, Good
<1> QED
  BY <1>1, <1>4 DEF OwnedInv, PendingNamed, OwnedInit

(* What unref does, in the terms of DropHandle. *)
LEMMA UnrefDrops ==
  ASSUME NEW h, unref(h)
  PROVE  Dropped(ptr, ref_count, h, ref_count', dying')
BY DEF unref, Dropped

(* Beginning an assignment or a reset: the old object is given up first.   *)
LEMMA InvBegin ==
  ASSUME OwnedInv, Idle, Misuses = {}, NEW h, Named(h), unref(h),
         NEW g \in Handles \cup {Null}, NEW how \in {"copy", "move", "reset"},
         how # "reset" => (g = h /\ how = "move") \/ g \in (Vars \cup HeldWithout(h)) \ {h},
         pending' = [to |-> h, from |-> g, how |-> how],
         UNCHANGED <<ptr, live, stolen>>
  PROVE  OwnedInv'
<1>1. h \in Counting /\ h \in Handles
  BY WhenIdle
<1>2. Dropped(ptr, ref_count, h, ref_count', dying')
  BY UnrefDrops
<1>3. Good(ptr, ref_count', stolen, Counting \ {h}, live \ {Null}, dying')
       /\ ref_count' \in [Objects -> Nat]
  BY <1>1, <1>2, WhenIdle, DropHandle DEF OwnedInv, OwnedTypeOK
<1>4. Good(ptr', ref_count', stolen', Counting', live', dying')
  <2>1. Counting' = Counting \ {h}
    BY WhenIdle DEF Counting
  <2> QED
    BY <1>3, <2>1, WhenIdle
<1>5. OwnedTypeOK'
  <2>1. dying' \in live' \cup {Null}
    BY <1>4 DEF Good
  <2>2. pending' \in Assignments
    BY <1>1 DEF Assignments
  <2> QED
    BY <1>3, <2>1, <2>2 DEF OwnedInv, OwnedTypeOK
<1>6. PendingNamed'
  <2>1. HeldWithout(h)' = HeldWithout(h)
    BY DEF HeldWithout
  <2>2. h \in Vars \cup HeldWithout(h)
    BY HeldWithoutItself DEF OwnedInv, Named
  <2>3. /\ pending'.to = h /\ pending'.from = g /\ pending'.how = how
    OBVIOUS
  <2>4. HeldWithout(pending.to)' = HeldWithout(h)
    BY <2>1, <2>3 DEF HeldWithout
  <2> QED
    BY <2>2, <2>3, <2>4 DEF PendingNamed
<1> QED
  BY <1>4, <1>5, <1>6 DEF OwnedInv

(* Destroying an object whose last reference went, with the handles it holds. *)
LEMMA InvDestroy ==
  ASSUME OwnedInv, Destroy
  PROVE  OwnedInv'
<1>1. dying # Null /\ dying \in live /\ dying \in Objects /\ dying \notin Vars
  BY OwnedRefAssumption DEF Destroy, OwnedInv, OwnedTypeOK
<1>2. dying # pending.to
  <2>1. CASE pending = Nothing
    BY <1>1, <2>1 DEF Nothing
  <2>2. CASE pending # Nothing
    BY <1>1, <2>2, SafeHeld DEF OwnedInv, PendingNamed
  <2> QED
    BY <2>1, <2>2
<1>3. dying \in Counting /\ Counting \in SUBSET Handles
  BY <1>1, <1>2 DEF Counting, OwnedInv, OwnedTypeOK, Handles
<1>4. Dropped(ptr, ref_count, dying, ref_count', dying')
  BY UnrefDrops DEF Destroy
<1>5. Good(ptr, ref_count', stolen, Counting \ {dying}, live \ {dying}, dying')
       /\ ref_count' \in [Objects -> Nat]
  <2>1. /\ ptr \in [Handles -> Objects \cup {Null}] /\ ref_count \in [Objects -> Nat]
        /\ live \in SUBSET Objects
        /\ Good(ptr, ref_count, stolen, Counting, live, dying) /\ dying \in {Null, dying}
    BY DEF OwnedInv, OwnedTypeOK
  <2> QED
    BY <1>3, <1>4, <2>1, DropHandle
<1>6. Counting' = Counting \ {dying}
  BY <1>1 DEF Counting, Destroy
<1>7. Good(ptr', ref_count', stolen', Counting', live', dying')
  BY <1>5, <1>6 DEF Destroy
<1>8. OwnedTypeOK'
  BY <1>5, <1>7 DEF Destroy, OwnedInv, OwnedTypeOK, Good
<1>9. PendingNamed'
  BY DEF PendingNamed, OwnedInv, Destroy, HeldWithout
<1> QED
  BY <1>7, <1>8, <1>9 DEF OwnedInv

(* When the destructors have run, the target of the assignment is the only *)
(* handle that is not counted, and the source is another one or none.      *)
LEMMA WhenResumed ==
  ASSUME OwnedInv, pending # Nothing, dying = Null
  PROVE  /\ pending.to \in (Vars \cup live) \ Counting /\ pending.to \in Handles
         /\ Counting \cup {pending.to} = Vars \cup live /\ Counting \in SUBSET Handles
         /\ live \in SUBSET Objects /\ Null \notin Vars \cup live
         /\ Good(ptr, ref_count, stolen, Counting, live, Null)
         /\ pending.how # "reset" =>
              \/ pending.from = pending.to /\ pending.how = "move"
              \/ pending.from \in Counting
         /\ \A h \in Counting : ptr[h] # Null => ptr[h] \in live
<1>1. Null \notin Vars \cup live /\ live \in SUBSET Objects
  BY OwnedRefAssumption DEF OwnedInv, OwnedTypeOK
<1>2. HeldWithout(pending.to) \subseteq live
  BY SafeHeld
<1>3. pending.to \in Vars \cup live
  BY <1>2 DEF OwnedInv, PendingNamed
<1>4. pending.how # "reset" =>
        \/ pending.from = pending.to /\ pending.how = "move"
        \/ pending.from \in Counting
  BY <1>2 DEF OwnedInv, PendingNamed, Counting
<1>5. Good(ptr, ref_count, stolen, Counting, live, Null)
  BY DEF OwnedInv
<1>6. \A h \in Counting : ptr[h] # Null => ptr[h] \in live
  BY <1>5 DEF Good
<1> QED
  BY <1>1, <1>3, <1>4, <1>5, <1>6 DEF Counting, Handles

(* The step that ends an assignment counts its target again. *)
LEMMA InvResume ==
  ASSUME OwnedInv, pending # Nothing, dying = Null,
         ptr' \in [Handles -> Objects \cup {Null}], ref_count' \in [Objects -> Nat],
         Good(ptr', ref_count', stolen, Counting \cup {pending.to}, live, Null),
         pending' = Nothing, UNCHANGED <<live, dying, stolen>>
  PROVE  OwnedInv'
<1>1. Counting' = Counting \cup {pending.to}
  <2>1. pending'.to = Null
    BY DEF Nothing
  <2> QED
    BY <2>1, WhenResumed DEF Counting
<1>2. Good(ptr', ref_count', stolen', Counting', live', dying')
  BY <1>1
<1>3. OwnedTypeOK'
  BY DEF OwnedInv, OwnedTypeOK
<1> QED
  BY <1>2, <1>3 DEF OwnedInv, PendingNamed

(* The second half of a move assignment.                                   *)
LEMMA InvMove ==
  ASSUME OwnedInv, Move
  PROVE  OwnedInv'
<1> DEFINE h == pending.to
           g == pending.from
<1>1. pending # Nothing /\ dying = Null /\ pending.how = "move"
  BY DEF Move, Nothing
<1>2. ptr' = [ptr EXCEPT ![h] = ptr[g], ![g] = Null]
  BY DEF Move
<1>3. h \in Handles \ Counting /\ (g = h \/ g \in Counting)
  BY <1>1, WhenResumed
<1>4. ptr' \in [Handles -> Objects \cup {Null}]
  <2>1. ptr[g] \in Objects \cup {Null}
    BY <1>1, <1>3, WhenResumed DEF OwnedInv, OwnedTypeOK
  <2> QED
    BY <1>2, <2>1 DEF OwnedInv, OwnedTypeOK
<1>5. Good(ptr', ref_count, stolen, Counting \cup {h}, live, Null)
  <2>1. CASE g = h
    <3>1. ptr' = [ptr EXCEPT ![h] = Null]
      BY <1>2, <2>1 DEF OwnedInv, OwnedTypeOK
    <3> HIDE DEF h, g
    <3>2. Good([ptr EXCEPT ![h] = Null], ref_count, stolen, Counting \cup {h}, live, Null)
      BY <1>1, <1>3, WhenResumed, NullHandle DEF OwnedInv, OwnedTypeOK
    <3> QED
      BY <3>1, <3>2
  <2>2. CASE g \in Counting
    <3> HIDE DEF h, g
    <3>1. Good([ptr EXCEPT ![h] = ptr[g], ![g] = Null], ref_count, stolen,
               Counting \cup {h}, live, Null)
      BY <1>1, <1>3, <2>2, WhenResumed, MoveHandle DEF OwnedInv, OwnedTypeOK
    <3> QED
      BY <1>2, <3>1
  <2> QED
    BY <1>3, <2>1, <2>2
<1>6. ref_count' = ref_count /\ pending' = Nothing /\ UNCHANGED <<live, dying, stolen>>
  BY DEF Move
<1> QED
  BY <1>1, <1>4, <1>5, <1>6, InvResume DEF OwnedInv, OwnedTypeOK

(* The second half of a copy assignment.                                   *)
LEMMA InvCopy ==
  ASSUME OwnedInv, Copy
  PROVE  OwnedInv'
<1> DEFINE h == pending.to
           g == pending.from
<1>1. pending # Nothing /\ dying = Null /\ pending.how = "copy"
  BY DEF Copy, Nothing
<1>2. h \in Handles \ Counting /\ g \in Counting
  BY <1>1, WhenResumed
<1>3. pending' = Nothing /\ UNCHANGED <<live, dying, stolen>>
  BY DEF Copy
<1>4. /\ ptr' \in [Handles -> Objects \cup {Null}] /\ ref_count' \in [Objects -> Nat]
      /\ Good(ptr', ref_count', stolen, Counting \cup {h}, live, Null)
  <2>1. CASE ptr[g] = Null
    <3>1. ptr' = [ptr EXCEPT ![h] = Null] /\ ref_count' = ref_count
      BY <2>1 DEF Copy
    <3> HIDE DEF h, g
    <3>2. Good([ptr EXCEPT ![h] = Null], ref_count, stolen, Counting \cup {h}, live, Null)
      BY <1>1, <1>2, WhenResumed, NullHandle DEF OwnedInv, OwnedTypeOK
    <3> QED
      BY <3>1, <3>2 DEF OwnedInv, OwnedTypeOK
  <2>2. CASE ptr[g] # Null
    <3> DEFINE o == ptr[g]
    <3>1. ptr' = [ptr EXCEPT ![h] = o] /\ ref_count' = [ref_count EXCEPT ![o] = @ + 1]
      BY <2>2 DEF Copy, ref
    <3>2. o \in live /\ o \in Objects
      BY <1>1, <1>2, <2>2, WhenResumed
    <3>3. o \notin stolen
      BY <1>1, <1>2, <3>2, WhenResumed, HeldCounts
    <3>4. stolen \ {o} = stolen
      BY <3>3
    <3> HIDE DEF h, g, o
    <3>5. Good([ptr EXCEPT ![h] = o], [ref_count EXCEPT ![o] = @ + 1], stolen \ {o},
               Counting \cup {h}, live, Null)
      BY <1>1, <1>2, <3>2, WhenResumed, AddHandle DEF OwnedInv, OwnedTypeOK
    <3>6. ptr \in [Handles -> Objects \cup {Null}] /\ ref_count \in [Objects -> Nat]
      BY DEF OwnedInv, OwnedTypeOK
    <3>7. ptr' \in [Handles -> Objects \cup {Null}]
      BY <3>1, <3>2, <3>6
    <3>8. ref_count' \in [Objects -> Nat]
      BY <3>1, <3>2, <3>6
    <3> QED
      BY <3>1, <3>4, <3>5, <3>7, <3>8
  <2> QED
    BY <2>1, <2>2
<1> QED
  BY <1>1, <1>3, <1>4, InvResume

(* The second half of a reset.                                             *)
LEMMA InvForget ==
  ASSUME OwnedInv, PutNull
  PROVE  OwnedInv'
<1> DEFINE h == pending.to
<1>1. pending # Nothing /\ dying = Null
  BY DEF PutNull, Nothing
<1>2. ptr' = [ptr EXCEPT ![h] = Null] /\ ref_count' = ref_count
  BY DEF PutNull
<1>3. pending' = Nothing /\ UNCHANGED <<live, dying, stolen>>
  BY DEF PutNull
<1>4. h \in Handles \ Counting
  BY <1>1, WhenResumed
<1> HIDE DEF h
<1>5. Good([ptr EXCEPT ![h] = Null], ref_count, stolen, Counting \cup {h}, live, Null)
  BY <1>1, <1>4, WhenResumed, NullHandle DEF OwnedInv, OwnedTypeOK
<1> QED
  BY <1>1, <1>2, <1>3, <1>5, InvResume DEF OwnedInv, OwnedTypeOK, h
(* A handle between two calls comes to point to a live object. *)
LEMMA InvPoint ==
  ASSUME OwnedInv, Idle, NEW h \in Counting, ptr[h] = Null, NEW o \in live, ref(h, o),
         stolen' = stolen \ {o}, UNCHANGED <<live, dying, pending>>
  PROVE  OwnedInv'
<1>1. ptr' = [ptr EXCEPT ![h] = o] /\ ref_count' = [ref_count EXCEPT ![o] = @ + 1]
  BY DEF ref
<1>2. ptr \in [Handles -> Objects \cup {Null}] /\ ref_count \in [Objects -> Nat]
  BY DEF OwnedInv, OwnedTypeOK
<1>3. o \in Objects /\ h \in Handles
  BY WhenIdle
<1>4. Good([ptr EXCEPT ![h] = o], [ref_count EXCEPT ![o] = @ + 1], stolen \ {o},
           Counting \cup {h}, live, Null)
  BY <1>2, <1>3, WhenIdle, AddHandle
<1>5. Counting' = Counting \cup {h} /\ dying' = Null
  BY DEF Counting, Idle
<1>6. Good(ptr', ref_count', stolen', Counting', live', dying')
  BY <1>1, <1>4, <1>5
<1>7. ptr' \in [Handles -> Objects \cup {Null}]
  BY <1>1, <1>2, <1>3
<1>8. ref_count' \in [Objects -> Nat]
  BY <1>1, <1>2, <1>3
<1> QED
  BY <1>6, <1>7, <1>8 DEF OwnedInv, OwnedTypeOK, PendingNamed, Idle

(* make_owned, which puts a new object into a handle.                      *)
LEMMA InvMake ==
  ASSUME OwnedInv, NEW h \in Vars, NEW o \in Objects, make_owned(h, o)
  PROVE  OwnedInv'
<1>1. /\ Idle /\ ptr[h] = Null /\ o \notin live
      /\ ptr' = [ptr EXCEPT ![o] = Null, ![h] = o]
      /\ ref_count' = [ref_count EXCEPT ![o] = 1]
      /\ live' = live \cup {o} /\ UNCHANGED <<dying, pending, stolen>>
  BY DEF make_owned
<1>2. ptr \in [Handles -> Objects \cup {Null}] /\ ref_count \in [Objects -> Nat]
  BY DEF OwnedInv, OwnedTypeOK
<1>3. h \in Counting /\ o \in Objects \ live /\ o \notin Counting /\ o # Null
  BY <1>1, WhenIdle, OwnedRefAssumption
<1>4. Good([ptr EXCEPT ![o] = Null, ![h] = o], [ref_count EXCEPT ![o] = 1], stolen,
           Counting \cup {o}, live \cup {o}, Null)
  BY <1>1, <1>2, <1>3, WhenIdle, MakeObject
<1>5. Counting' = Counting \cup {o} /\ dying' = Null
  <2>1. pending'.to = Null
    BY <1>1 DEF Idle, Nothing
  <2>2. Null \notin Vars \cup live'
    BY <1>1, <1>3, OwnedRefAssumption DEF OwnedInv, OwnedTypeOK
  <2> QED
    BY <1>1, <2>1, <2>2, WhenIdle DEF Counting, Idle
<1>6. Good(ptr', ref_count', stolen', Counting', live', dying')
  BY <1>1, <1>4, <1>5
<1>7. OwnedTypeOK'
  BY <1>1, <1>2 DEF OwnedInv, OwnedTypeOK, Idle
<1> QED
  BY <1>1, <1>6, <1>7 DEF OwnedInv, PendingNamed, Idle

(* steal_get: the handle is emptied, the count goes down, the object stays. *)
LEMMA InvSteal ==
  ASSUME OwnedInv, NEW h, steal_get(h)
  PROVE  OwnedInv'
<1> DEFINE t == ptr[h]
           u == IF ref_count[t] = 1 THEN stolen \cup {t} ELSE stolen
<1>1. /\ Idle /\ Named(h) /\ t # Null
      /\ ptr' = [ptr EXCEPT ![h] = Null]
      /\ ref_count' = [ref_count EXCEPT ![t] = @ - 1]
      /\ stolen' = u /\ UNCHANGED <<live, dying, pending>>
  BY DEF steal_get
<1>2. ptr \in [Handles -> Objects \cup {Null}] /\ ref_count \in [Objects -> Nat]
  BY DEF OwnedInv, OwnedTypeOK
<1>3. h \in Counting
  BY <1>1, WhenIdle
<1>4. /\ Good([ptr EXCEPT ![h] = Null], [ref_count EXCEPT ![ptr[h]] = @ - 1],
              IF ref_count[ptr[h]] = 1 THEN stolen \cup {ptr[h]} ELSE stolen,
              Counting, live, Null)
      /\ [ref_count EXCEPT ![ptr[h]] = @ - 1] \in [Objects -> Nat]
      /\ ptr[h] \in live
  BY <1>1, <1>2, <1>3, WhenIdle, StealHandle
<1>5. Counting' = Counting /\ dying' = Null
  BY <1>1 DEF Counting, Idle
<1>6. Good(ptr', ref_count', stolen', Counting', live', dying')
  BY <1>1, <1>4, <1>5
<1>7. OwnedTypeOK'
  BY <1>1, <1>2, <1>4 DEF OwnedInv, OwnedTypeOK
<1> QED
  BY <1>1, <1>6, <1>7 DEF OwnedInv, PendingNamed, Idle

(* delete of an object that was stolen and that nothing counts.            *)
LEMMA InvDelete ==
  ASSUME OwnedInv, NEW o \in Objects, delete(o)
  PROVE  OwnedInv'
<1>1. /\ Idle /\ o \in stolen /\ stolen' = stolen \ {o} /\ dying' = o
      /\ UNCHANGED <<ptr, ref_count, live, pending>>
  BY DEF delete
<1>2. Good(ptr, ref_count, stolen \ {o}, Counting, live, o)
  BY <1>1, WhenIdle, DeleteStolen DEF OwnedInv, OwnedTypeOK
<1>3. Counting' = Counting
  BY <1>1 DEF Counting
<1>4. OwnedTypeOK'
  BY <1>1 DEF OwnedInv, OwnedTypeOK
<1> QED
  BY <1>1, <1>2, <1>3, <1>4 DEF OwnedInv, PendingNamed, Idle

(* Every step of clients with none of the unsafe calls keeps the invariant. *)
LEMMA OwnedInvNext ==
  ASSUME OwnedInv, Misuses = {}, [OwnedNext]_ownedVars
  PROVE  OwnedInv'
<1>1. ASSUME NEW h \in Vars, NEW o \in Objects, make_owned(h, o)
      PROVE  OwnedInv'
  BY <1>1, InvMake
<1>2. ASSUME NEW h \in Vars, NEW o \in Objects, construct(h, o)
      PROVE  OwnedInv'
  <2>1. Idle /\ ptr[h] = Null /\ ref(h, o) /\ stolen' = stolen \ {o}
         /\ UNCHANGED <<live, dying, pending>> /\ o \in HeldWithout(Null)
    BY <1>2 DEF construct
  <2>2. o \in live /\ h \in Counting
    BY <2>1, WhenIdle
  <2> QED
    BY <2>1, <2>2, InvPoint
<1>3. ASSUME NEW h \in Vars, NEW g \in Handles, copy_construct(h, g)
      PROVE  OwnedInv'
  <2>1. Idle /\ ptr[h] = Null /\ Named(g) /\ ptr[g] # Null /\ ref(h, ptr[g])
         /\ UNCHANGED <<live, dying, pending, stolen>>
    BY <1>3 DEF copy_construct
  <2>2. g \in Counting /\ ptr[g] \in live /\ h \in Counting
    BY <2>1, WhenIdle
  <2>3. ptr[g] \notin stolen
    BY <2>1, <2>2, WhenIdle, HeldCounts
  <2>4. stolen' = stolen \ {ptr[g]}
    BY <2>1, <2>3
  <2> QED
    BY <2>1, <2>2, <2>4, InvPoint
<1>4. ASSUME NEW h \in Handles, NEW g \in Handles, NEW how \in {"copy", "move"},
             Assign(h, g, how)
      PROVE  OwnedInv'
  <2>1. /\ Idle /\ Named(h) /\ Named(g) /\ unref(h)
        /\ g = h => how = "move"
        /\ g # h => NamedWithout(g, h)
        /\ pending' = [to |-> h, from |-> g, how |-> how]
        /\ UNCHANGED <<ptr, live, stolen>>
    BY <1>4 DEF Assign
  <2>2. (g = h /\ how = "move") \/ g \in (Vars \cup HeldWithout(h)) \ {h}
    BY <2>1 DEF NamedWithout
  <2> QED
    BY <2>1, <2>2, InvBegin
<1>5. ASSUME NEW h \in Handles, reset(h)
      PROVE  OwnedInv'
  <2>1. /\ Idle /\ Named(h) /\ unref(h)
        /\ pending' = [to |-> h, from |-> Null, how |-> "reset"]
        /\ UNCHANGED <<ptr, live, stolen>>
    BY <1>5 DEF reset
  <2> QED
    BY <2>1, InvBegin
<1>6. ASSUME NEW h \in Handles, steal_get(h)
      PROVE  OwnedInv'
  BY <1>6, InvSteal
<1>7. ASSUME NEW o \in Objects, delete(o)
      PROVE  OwnedInv'
  BY <1>7, InvDelete
<1>8. CASE Destroy
  BY <1>8, InvDestroy
<1>9. CASE Move
  BY <1>9, InvMove
<1>10. CASE Copy
  BY <1>10, InvCopy
<1>11. CASE PutNull
  BY <1>11, InvForget
<1>12. CASE UNCHANGED ownedVars
  BY <1>12 DEF ownedVars, OwnedInv, OwnedTypeOK, Good, HoldersIn, Counting, PendingNamed, HeldWithout
<1> QED
  BY <1>1, <1>2, <1>3, <1>4, <1>5, <1>6, <1>7, <1>8, <1>9, <1>10, <1>11, <1>12
  DEF OwnedNext

(* The invariant holds always, for such clients.                           *)
LEMMA OwnedInductive ==
  ASSUME Misuses = {}
  PROVE  OwnedSpec => []OwnedInv
<1>1. OwnedInv /\ [OwnedNext]_ownedVars => OwnedInv'
  BY OwnedInvNext
<1> QED
  BY <1>1, OwnedInvInit, PTL DEF OwnedSpec

-----------------------------------------------------------------------------
(* Pointers, counts and the assignment under way stay well formed; no      *)
(* count goes below zero.                                                  *)
THEOREM OwnersTypeCorrect ==
  ASSUME Misuses = {}
  PROVE  OwnedSpec => []OwnedTypeOK
<1>1. OwnedInv => OwnedTypeOK
  BY DEF OwnedInv
<1> QED
  BY <1>1, OwnedInductive, PTL

(* The count of an object is at all times the number of the handles that   *)
(* point to it, and one more if setInlineInit protects it.                 *)
THEOREM CountsExact ==
  ASSUME Misuses = {}
  PROVE  OwnedSpec => []CountExact
<1>1. OwnedInv => CountExact
  <2>1. \A o : Holders(o) = HoldersIn(Counting, ptr, o)
    BY DEF Holders, HoldersIn, Counting
  <2> QED
    BY <2>1 DEF OwnedInv, Good, CountExact, Bias
<1> QED
  BY <1>1, OwnedInductive, PTL

(* No owned pointer dangles: not while the destructors of what an          *)
(* assignment gave up are running either.                                  *)
THEOREM HandlesPointToLive ==
  ASSUME Misuses = {}
  PROVE  OwnedSpec => []HandlesLive
<1>1. OwnedInv => HandlesLive
  BY DEF OwnedInv, Good, HandlesLive, Counting
<1> QED
  BY <1>1, OwnedInductive, PTL

(* An assignment that gives up its old target before it reads its source   *)
(* finds both handles alive, provided the source is not the target and not *)
(* reached only through it.                                                *)
THEOREM SourceSurvivesUnref ==
  ASSUME Misuses = {}
  PROVE  OwnedSpec => []NothingFreedIsRead
<1>1. OwnedInv => NothingFreedIsRead
  <2> SUFFICES ASSUME OwnedInv, pending # Nothing, dying = Null
               PROVE  /\ pending.to \in Vars \cup live
                      /\ pending.how = "copy" \/ (pending.how = "move" /\ pending.from # pending.to)
                           => Readable(pending.from)
    BY DEF NothingFreedIsRead
  <2>1. pending.to \in Vars \cup live
    BY WhenResumed
  <2>2. ASSUME pending.how = "copy" \/ (pending.how = "move" /\ pending.from # pending.to)
        PROVE  Readable(pending.from)
    <3>1. pending.from \in Counting
      BY <2>2, WhenResumed
    <3> QED
      BY <3>1, WhenResumed DEF Readable, Counting
  <2> QED
    BY <2>1, <2>2
<1> QED
  BY <1>1, OwnedInductive, PTL

(* An object whose count has reached zero is destroyed in that very step,  *)
(* or belongs to a client that called steal_get.                           *)
THEOREM NobodyIsLeftOver ==
  ASSUME Misuses = {}
  PROVE  OwnedSpec => []NothingLeftOver
<1>1. OwnedInv => NothingLeftOver
  BY DEF OwnedInv, Good, NothingLeftOver
<1> QED
  BY <1>1, OwnedInductive, PTL
=============================================================================
