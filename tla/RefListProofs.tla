---------------------------- MODULE RefListProofs ----------------------------
(***************************************************************************)
(* Proofs about RefList for every set of lists, elements and addresses.    *)
(***************************************************************************)
EXTENDS RefList, FiniteSetTheorems, SequenceFacts

(***************************************************************************)
(* The inductive invariant.  LengthCovers is needed for the type of length *)
(* (it is decremented), DoublyLinked for LengthCovers (a modifier at an end*)
(* of a list stands on a node of that list).                               *)
(***************************************************************************)
IInv == TypeOK /\ DoublyLinked /\ LengthCovers

(* The addresses of sentinels and cells never coincide.                    *)
LEMMA Addresses ==
  /\ Begins \cap Ends = {} /\ Cells \cap Begins = {} /\ Cells \cap Ends = {}
  /\ \A l \in Lists : Begin(l) \in Begins /\ End(l) \in Ends
  /\ \A l, m \in Lists : (Begin(l) = Begin(m) => l = m) /\ (End(l) = End(m) => l = m)
  /\ \A l \in Lists : ListOf(Begin(l)) = l /\ ListOf(End(l)) = l
  /\ Null \notin Nodes
  /\ \A n \in Nodes \ Cells : ListOf(n) \in Lists
<1>1. /\ Begins \cap Ends = {} /\ Cells \cap Begins = {} /\ Cells \cap Ends = {}
      /\ Null \notin Nodes
  BY NullAssumption DEF Begins, Ends, Begin, End, Nodes
<1>2. /\ \A l \in Lists : Begin(l) \in Begins /\ End(l) \in Ends
      /\ \A l, m \in Lists : (Begin(l) = Begin(m) => l = m) /\ (End(l) = End(m) => l = m)
  BY DEF Begins, Ends, Begin, End
<1>3. \A l \in Lists : ListOf(Begin(l)) = l /\ ListOf(End(l)) = l
  BY <1>1, <1>2 DEF ListOf
<1> QED
  BY <1>1, <1>2, <1>3 DEF Nodes, Begins, Ends

(* A freshly constructed list is linked and empty.                         *)
LEMMA InitIInv == Init => IInv
<1> SUFFICES ASSUME Init PROVE IInv
  OBVIOUS
<1> USE Addresses
<1>1. TypeOK
  BY DEF Init, TypeOK, Nodes, Begins, Ends
<1>2. DoublyLinked
  <2>1. ForwardLinked
    BY DEF Init, ForwardLinked, Nodes, Begins, Ends
  <2>2. BackwardLinked
    BY DEF Init, BackwardLinked, Nodes, Begins, Ends
  <2>3. SentinelsEnd
    BY DEF Init, SentinelsEnd, Nodes, Begins, Ends
  <2> QED
    BY <2>1, <2>2, <2>3 DEF DoublyLinked
<1>3. LengthCovers
  <2>1. \A l \in Lists : NodesOf(l) = {}
    BY DEF Init, NodesOf
  <2>2. \A l \in Lists : length[l] = 0
    BY DEF Init
  <2>3. Cardinality({}) = 0
    BY FS_EmptySet
  <2> HIDE Addresses
  <2> QED
    BY <2>1, <2>2, <2>3 DEF LengthCovers
<1> QED
  BY <1>1, <1>2, <1>3 DEF IInv

(* A modifier on an item node is on a node of its own list.                *)
LEMMA ModifierParent ==
  ASSUME TypeOK, DoublyLinked, NEW l \in Lists, NEW n \in Nodes, Modifier(n, l)
  PROVE  /\ n \in live \cup Begins \cup Ends
         /\ parent[n] = l
BY Addresses DEF Modifier, DoublyLinked, ForwardLinked, BackwardLinked, SentinelsEnd, TypeOK

(* The items of a list are finitely many.                                  *)
LEMMA FiniteNodes ==
  ASSUME TypeOK, NEW l \in Lists
  PROVE  IsFiniteSet(NodesOf(l)) /\ Cardinality(NodesOf(l)) \in Nat
<1>1. IsFiniteSet(NodesOf(l))
  BY CellsAssumption, FS_Subset DEF TypeOK, NodesOf
<1> QED
  BY <1>1, FS_CardinalityType

(* Linking a new node between two neighbours p and q keeps the invariant.  *)
LEMMA LinkIInv ==
  ASSUME IInv, NEW l \in Lists, NEW c \in Cells \ live, NEW e \in Elems,
         NEW p \in live \cup Begins, NEW q \in live \cup Ends,
         next[p] = q, parent[p] = l,
         ~Placed(e), Link(c, p, q, e, l),
         parent' = [parent EXCEPT ![c] = l]
  PROVE  IInv'
<1> USE Addresses
<1>0. /\ TypeOK /\ DoublyLinked /\ LengthCovers
      /\ prev[q] = p /\ parent[q] = l
      /\ c # p /\ c # q /\ p \in Nodes /\ q \in Nodes /\ c \in Nodes
  BY DEF IInv, DoublyLinked, ForwardLinked, BackwardLinked, TypeOK, Nodes
<1>1. TypeOK'
  BY <1>0 DEF TypeOK, Link, Nodes
<1>2. /\ live' = live \cup {c}
      /\ prev'[c] = p /\ prev'[q] = c /\ next'[c] = q /\ next'[p] = c
      /\ parent'[c] = l
      /\ \A n \in Nodes \ {c, q} : prev'[n] = prev[n]
      /\ \A n \in Nodes \ {c, p} : next'[n] = next[n]
      /\ \A n \in Nodes \ {c} : parent'[n] = parent[n]
  BY <1>0 DEF TypeOK, Link
<1>3. DoublyLinked'
  <2>1. ForwardLinked'
    BY <1>0, <1>2 DEF DoublyLinked, ForwardLinked, BackwardLinked, TypeOK, Nodes
  <2>2. BackwardLinked'
    BY <1>0, <1>2 DEF DoublyLinked, ForwardLinked, BackwardLinked, TypeOK, Nodes
  <2>3. SentinelsEnd'
    BY <1>0, <1>2 DEF DoublyLinked, SentinelsEnd, TypeOK, Nodes, Begins, Ends
  <2> QED
    BY <2>1, <2>2, <2>3 DEF DoublyLinked
<1>4. LengthCovers'
  <2> SUFFICES ASSUME NEW m \in Lists
               PROVE  Cardinality(NodesOf(m)') <= length'[m]
    BY DEF LengthCovers
  <2>1. CASE m = l
    <3>1. NodesOf(m)' = NodesOf(m) \cup {c}
      BY <2>1, <1>0, <1>2 DEF NodesOf, TypeOK, Nodes
    <3>2. c \notin NodesOf(m)
      BY DEF NodesOf
    <3>3. length'[m] = length[m] + 1 /\ length[m] \in Nat
      BY <2>1, <1>0 DEF Link, TypeOK
    <3>4. /\ Cardinality(NodesOf(m)) \in Nat
          /\ Cardinality(NodesOf(m) \cup {c}) = Cardinality(NodesOf(m)) + 1
      BY <3>2, <1>0, FiniteNodes, FS_AddElement
    <3>5. Cardinality(NodesOf(m)) <= length[m]
      BY <1>0 DEF LengthCovers
    <3> QED
      BY <3>1, <3>3, <3>4, <3>5
  <2>2. CASE m # l
    <3>1. NodesOf(m)' = NodesOf(m)
      BY <2>2, <1>0, <1>2 DEF NodesOf, TypeOK, Nodes
    <3>2. length'[m] = length[m]
      BY <2>2, <1>0 DEF Link, TypeOK
    <3> QED
      BY <3>1, <3>2, <1>0 DEF LengthCovers
  <2> QED
    BY <2>1, <2>2
<1> QED
  BY <1>1, <1>3, <1>4 DEF IInv

(* Modifier::append (mtb-reflist.hxx:672-691) keeps the invariant.         *)
LEMMA appendIInv ==
  ASSUME IInv, NEW l \in Lists, NEW n \in Nodes, NEW c \in Cells \ live,
         NEW e \in Elems, append(n, l, c, e)
  PROVE  IInv'
<1>1. n \in live \cup Begins /\ next[n] \in live \cup Ends /\ parent[n] = l
  BY Addresses, ModifierParent
     DEF append, IInv, DoublyLinked, SentinelsEnd, ForwardLinked, Ends
<1> QED
  BY <1>1, LinkIInv DEF append

(* Modifier::prepend (mtb-reflist.hxx:693-712) keeps the invariant.        *)
LEMMA prependIInv ==
  ASSUME IInv, NEW l \in Lists, NEW n \in Nodes, NEW c \in Cells \ live,
         NEW e \in Elems, prepend(n, l, c, e)
  PROVE  IInv'
<1>1. n \in live \cup Ends /\ prev[n] \in live \cup Begins /\ parent[n] = l
      /\ next[prev[n]] = n /\ parent[prev[n]] = l
  BY Addresses, ModifierParent
     DEF prepend, IInv, DoublyLinked, SentinelsEnd, BackwardLinked, Begins
<1> QED
  BY <1>1, LinkIInv DEF prepend

(* Modifier::remove_this (mtb-reflist.hxx:714-737) keeps the invariant.    *)
LEMMA remove_thisIInv ==
  ASSUME IInv, NEW l \in Lists, NEW n \in Nodes, remove_this(n, l)
  PROVE  IInv'
<1> USE Addresses
<1> DEFINE p == prev[n]
           q == next[n]
<1>0. /\ TypeOK /\ DoublyLinked /\ LengthCovers
      /\ n \in live /\ n \in Cells /\ parent[n] = l
      /\ p \in live \cup Begins /\ q \in live \cup Ends
      /\ next[p] = n /\ prev[q] = n /\ parent[p] = l /\ parent[q] = l
  BY ModifierParent DEF IInv, DoublyLinked, ForwardLinked, BackwardLinked, TypeOK, remove_this
<1>2. /\ live' = live \ {n}
      /\ prev' = [prev EXCEPT ![q] = p, ![n] = Null]
      /\ next' = [next EXCEPT ![p] = q, ![n] = Null]
      /\ parent' = [parent EXCEPT ![n] = Null]
      /\ elem' = [elem EXCEPT ![n] = Null]
      /\ length' = [length EXCEPT ![l] = @ - 1]
      /\ self_node' = [self_node EXCEPT ![elem[n]] = Null]
  BY DEF remove_this
<1>3. /\ p \in Nodes /\ q \in Nodes /\ n \in Nodes
  BY <1>0 DEF TypeOK, Nodes
<1>4. /\ n \in NodesOf(l)
      /\ Cardinality(NodesOf(l)) \in Nat
      /\ Cardinality(NodesOf(l) \ {n}) = Cardinality(NodesOf(l)) - 1
  BY <1>0, FiniteNodes, FS_RemoveElement DEF NodesOf
<1>5. \A m \in Lists : NodesOf(m)' = NodesOf(m) \ {n}
  BY <1>0, <1>2 DEF NodesOf, TypeOK, Nodes
<1>6. length[l] \in Nat /\ length[l] - 1 \in Nat
  <2>1. Cardinality(NodesOf(l)) >= 1
    BY <1>4, <1>0, FiniteNodes, FS_EmptySet
  <2> QED
    BY <2>1, <1>4, <1>0 DEF LengthCovers, TypeOK
<1>7. TypeOK'
  BY <1>0, <1>2, <1>3, <1>6 DEF TypeOK, Nodes
<1>8. /\ prev'[n] = Null /\ next'[n] = Null
      /\ q # n => prev'[q] = p
      /\ p # n => next'[p] = q
      /\ \A k \in Nodes \ {n, q} : prev'[k] = prev[k]
      /\ \A k \in Nodes \ {n, p} : next'[k] = next[k]
      /\ \A k \in Nodes \ {n} : parent'[k] = parent[k]
  BY <1>0, <1>2, <1>3 DEF TypeOK
<1>9. DoublyLinked'
  <2>1. ForwardLinked'
    BY <1>0, <1>2, <1>3, <1>8
       DEF DoublyLinked, ForwardLinked, BackwardLinked, TypeOK, Nodes
  <2>2. BackwardLinked'
    BY <1>0, <1>2, <1>3, <1>8
       DEF DoublyLinked, ForwardLinked, BackwardLinked, TypeOK, Nodes
  <2>3. SentinelsEnd'
    BY <1>0, <1>3, <1>8 DEF DoublyLinked, SentinelsEnd, TypeOK, Nodes, Begins, Ends
  <2> QED
    BY <2>1, <2>2, <2>3 DEF DoublyLinked
<1>10. LengthCovers'
  <2> SUFFICES ASSUME NEW m \in Lists
               PROVE  Cardinality(NodesOf(m)') <= length'[m]
    BY DEF LengthCovers
  <2>1. Cardinality(NodesOf(m)) <= length[m] /\ NodesOf(m)' = NodesOf(m) \ {n}
    BY <1>0, <1>5 DEF LengthCovers
  <2>2. CASE m = l
    BY <2>1, <2>2, <1>0, <1>2, <1>4, <1>6 DEF TypeOK
  <2>3. CASE m # l
    <3>1. NodesOf(m)' = NodesOf(m) /\ length'[m] = length[m]
      BY <2>1, <2>3, <1>0, <1>2 DEF NodesOf, TypeOK
    <3> QED
      BY <3>1, <2>1
  <2> QED
    BY <2>2, <2>3
<1> QED
  BY <1>7, <1>9, <1>10 DEF IInv

(* Modifier::replace_this (mtb-reflist.hxx:739-752) keeps the invariant.   *)
LEMMA replace_thisIInv ==
  ASSUME IInv, NEW n \in Nodes, NEW e \in Elems, replace_this(n, e)
  PROVE  IInv'
<1>0. /\ TypeOK /\ DoublyLinked /\ LengthCovers
      /\ elem' = [elem EXCEPT ![n] = e] /\ n \in live /\ ~Placed(e)
      /\ UNCHANGED <<live, prev, next, parent, length, self_node>>
  BY DEF IInv, replace_this
<1>1. TypeOK'
  BY <1>0 DEF TypeOK
<1>2. DoublyLinked'
  BY <1>0 DEF DoublyLinked, ForwardLinked, BackwardLinked, SentinelsEnd
<1>3. LengthCovers'
  BY <1>0 DEF LengthCovers, NodesOf
<1> QED
  BY <1>1, <1>2, <1>3 DEF IInv

(* clean deletes a set of nodes closed under both pointers.                *)
LEMMA cleanIInv ==
  ASSUME IInv, NEW l \in Lists, clean(l)
  PROVE  IInv'
<1> USE Addresses
<1> DEFINE D == NodesOf(l)
<1>0. /\ TypeOK /\ DoublyLinked /\ LengthCovers
      /\ D \subseteq live /\ \A n \in live : n \in D <=> parent[n] = l
      /\ Begin(l) \in Nodes /\ End(l) \in Nodes /\ live \subseteq Nodes
      /\ Begin(l) \notin D /\ End(l) \notin D
  BY DEF IInv, NodesOf, TypeOK, Nodes
<1>1. /\ live' = live \ D
      /\ next' = [n \in Nodes |-> IF n = Begin(l) THEN End(l)
                                  ELSE IF n \in D THEN Null ELSE next[n]]
      /\ prev' = [n \in Nodes |-> IF n = End(l) THEN Begin(l)
                                  ELSE IF n \in D THEN Null ELSE prev[n]]
      /\ elem' = [n \in Nodes |-> IF n \in D THEN Null ELSE elem[n]]
      /\ parent' = [n \in Nodes |-> IF n \in D THEN Null ELSE parent[n]]
      /\ UNCHANGED <<length, self_node>>
  BY DEF clean
<1> HIDE DEF D
<1>2. TypeOK'
  BY <1>0, <1>1 DEF TypeOK
<1>3. DoublyLinked'
  <2>1. ForwardLinked'
    <3> SUFFICES ASSUME NEW n \in live' \cup Begins
                 PROVE  /\ next'[n] \in live' \cup Ends
                        /\ prev'[next'[n]] = n
                        /\ parent'[next'[n]] = parent'[n]
      BY DEF ForwardLinked
    <3>1. CASE n = Begin(l)
      BY <3>1, <1>0, <1>1 DEF DoublyLinked, SentinelsEnd
    <3>2. CASE n # Begin(l)
      <4>1. /\ n \in live \cup Begins /\ n \in Nodes /\ n \notin D
            /\ parent[n] # l
        BY <3>2, <1>0, <1>1 DEF DoublyLinked, SentinelsEnd, Begins, Nodes
      <4>2. /\ next[n] \in live \cup Ends /\ prev[next[n]] = n
            /\ parent[next[n]] = parent[n]
        BY <4>1, <1>0 DEF DoublyLinked, ForwardLinked
      <4>3. next[n] \notin D /\ next[n] # End(l) /\ next[n] \in Nodes
        BY <4>1, <4>2, <1>0 DEF DoublyLinked, SentinelsEnd, Nodes
      <4> QED
        BY <3>2, <4>1, <4>2, <4>3, <1>1
    <3> QED
      BY <3>1, <3>2
  <2>2. BackwardLinked'
    <3> SUFFICES ASSUME NEW n \in live' \cup Ends
                 PROVE  /\ prev'[n] \in live' \cup Begins
                        /\ next'[prev'[n]] = n
                        /\ parent'[prev'[n]] = parent'[n]
      BY DEF BackwardLinked
    <3>1. CASE n = End(l)
      BY <3>1, <1>0, <1>1 DEF DoublyLinked, SentinelsEnd
    <3>2. CASE n # End(l)
      <4>1. /\ n \in live \cup Ends /\ n \in Nodes /\ n \notin D
            /\ parent[n] # l
        BY <3>2, <1>0, <1>1 DEF DoublyLinked, SentinelsEnd, Ends, Nodes
      <4>2. /\ prev[n] \in live \cup Begins /\ next[prev[n]] = n
            /\ parent[prev[n]] = parent[n]
        BY <4>1, <1>0 DEF DoublyLinked, BackwardLinked
      <4>3. prev[n] \notin D /\ prev[n] # Begin(l) /\ prev[n] \in Nodes
        BY <4>1, <4>2, <1>0 DEF DoublyLinked, SentinelsEnd, Nodes
      <4> QED
        BY <3>2, <4>1, <4>2, <4>3, <1>1
    <3> QED
      BY <3>1, <3>2
  <2>3. SentinelsEnd'
    <3> SUFFICES ASSUME NEW m \in Lists
                 PROVE  /\ prev'[Begin(m)] = Null /\ next'[End(m)] = Null
                        /\ parent'[Begin(m)] = m /\ parent'[End(m)] = m
      BY DEF SentinelsEnd
    <3>1. /\ Begin(m) \in Nodes /\ End(m) \in Nodes
          /\ Begin(m) \notin D /\ End(m) \notin D
          /\ Begin(m) # End(l) /\ End(m) # Begin(l)
      BY <1>0 DEF TypeOK, Nodes
    <3> QED
      BY <3>1, <1>0, <1>1 DEF DoublyLinked, SentinelsEnd
  <2> QED
    BY <2>1, <2>2, <2>3 DEF DoublyLinked
<1>4. LengthCovers'
  <2> SUFFICES ASSUME NEW m \in Lists
               PROVE  Cardinality(NodesOf(m)') <= length[m]
    BY <1>1 DEF LengthCovers
  <2>1. NodesOf(m)' \in SUBSET NodesOf(m)
    BY <1>0, <1>1 DEF NodesOf
  <2>2. /\ Cardinality(NodesOf(m)') <= Cardinality(NodesOf(m))
        /\ Cardinality(NodesOf(m)') \in Nat
    BY <2>1, <1>0, FiniteNodes, FS_Subset, FS_CardinalityType
  <2> QED
    BY <2>2, <1>0, FiniteNodes DEF LengthCovers, TypeOK
<1> QED
  BY <1>2, <1>3, <1>4 DEF IInv

(* iterator_at's repair of _length keeps it above the number of items.     *)
LEMMA iterator_atIInv ==
  ASSUME IInv, NEW l \in Lists, iterator_at(l)
  PROVE  IInv'
<1>0. /\ TypeOK /\ DoublyLinked /\ LengthCovers
      /\ length' = [length EXCEPT ![l] = Cardinality(NodesOf(l))]
      /\ UNCHANGED <<live, prev, next, parent, elem, self_node>>
  BY DEF IInv, iterator_at
<1>1. \A m \in Lists : /\ NodesOf(m)' = NodesOf(m)
                       /\ Cardinality(NodesOf(m)) \in Nat
  BY <1>0, FiniteNodes DEF NodesOf
<1>2. TypeOK'
  BY <1>0, <1>1 DEF TypeOK
<1>3. DoublyLinked'
  BY <1>0 DEF DoublyLinked, ForwardLinked, BackwardLinked, SentinelsEnd
<1>4. LengthCovers'
  <2> SUFFICES ASSUME NEW m \in Lists
               PROVE  Cardinality(NodesOf(m)') <= length'[m]
    BY DEF LengthCovers
  <2>1. length'[m] = IF m = l THEN Cardinality(NodesOf(l)) ELSE length[m]
    BY <1>0 DEF TypeOK
  <2> QED
    BY <2>1, <1>0, <1>1 DEF LengthCovers
<1> QED
  BY <1>2, <1>3, <1>4 DEF IInv

(* The invariant is about the variables of vars only.                      *)
LEMMA StutterIInv == IInv /\ UNCHANGED vars => IInv'
BY DEF IInv, TypeOK, DoublyLinked, ForwardLinked, BackwardLinked, SentinelsEnd,
       LengthCovers, NodesOf, vars

(* Every step of a list keeps the invariant, one case per operation.       *)
LEMMA NextIInv == IInv /\ [Next]_vars => IInv'
<1> SUFFICES ASSUME IInv, [Next]_vars PROVE IInv'
  OBVIOUS
<1>1. ASSUME NEW l \in Lists, NEW n \in Nodes, NEW c \in Cells \ live, NEW e \in Elems,
             append(n, l, c, e) \/ prepend(n, l, c, e)
      PROVE  IInv'
  BY <1>1, appendIInv, prependIInv
<1>2. ASSUME NEW l \in Lists, NEW n \in Nodes, remove_this(n, l) PROVE IInv'
  BY <1>2, remove_thisIInv
<1>3. ASSUME NEW n \in Nodes, NEW e \in Elems, replace_this(n, e) PROVE IInv'
  BY <1>3, replace_thisIInv
<1>4. ASSUME NEW l \in Lists, clean(l) \/ iterator_at(l) PROVE IInv'
  BY <1>4, cleanIInv, iterator_atIInv
<1>5. CASE UNCHANGED vars
  BY <1>5, StutterIInv
<1> QED
  BY <1>1, <1>2, <1>3, <1>4, <1>5 DEF Next

(* The invariant holds in every reachable state.                           *)
LEMMA InvariantIInv == Spec => []IInv
BY InitIInv, NextIInv, PTL DEF Spec

(* Type correctness; in particular _length-- of remove_this never wraps.   *)
THEOREM TypeCorrect == Spec => []TypeOK
BY InvariantIInv, PTL DEF IInv

(* The links of mtb-reflist.hxx:672-752 always agree in both directions,   *)
(* stay inside one list and never reach a deleted node.                    *)
THEOREM AlwaysDoublyLinked == Spec => []DoublyLinked
BY InvariantIInv, PTL DEF IInv

(* _length is never below the number of items, whatever clean() left in it.*)
THEOREM AlwaysLengthCovers == Spec => []LengthCovers
BY InvariantIInv, PTL DEF IInv
-----------------------------------------------------------------------------
(***************************************************************************)
(* The refinement of SeqList.  A tour of a list visits its nodes along     *)
(* next[], every one once; the invariant says that every list has one.     *)
(***************************************************************************)
Tour(l, s) ==
  /\ s \in Seq(Cells) /\ ToSet(s) = NodesOf(l) /\ IsInjective(s)
  /\ Walks(l, s)

Toured == \A l \in Lists : \E s \in Seq(Cells) : Tour(l, s)

WInv == IInv /\ Toured

(* What a node can hold, and what f holds along a sequence of nodes.       *)
Held == Elems \cup {Null}

Along(f, s) == [k \in DOMAIN s |-> f[s[k]]]

(* What a tour is, position by position.                                   *)
LEMMA TourFacts ==
  ASSUME TypeOK, NEW l \in Lists, NEW s \in Seq(Cells), Tour(l, s)
  PROVE  /\ Len(s) \in Nat /\ DOMAIN s = 1 .. Len(s)
         /\ \A k \in 1 .. Len(s) : s[k] \in NodesOf(l) /\ s[k] \in Cells
         /\ \A n \in NodesOf(l) : \E k \in 1 .. Len(s) : n = s[k]
         /\ \A j, k \in 1 .. Len(s) : s[j] = s[k] => j = k
<1>1. Len(s) \in Nat /\ DOMAIN s = 1 .. Len(s)
  OBVIOUS
<1>2. ToSet(s) = NodesOf(l) /\ NodesOf(l) \subseteq Cells /\ IsInjective(s)
  BY DEF Tour, NodesOf, TypeOK
<1>3. \A k \in 1 .. Len(s) : s[k] \in NodesOf(l) /\ s[k] \in Cells
  BY <1>1, <1>2 DEF ToSet
<1>4. \A n \in NodesOf(l) : \E k \in 1 .. Len(s) : n = s[k]
  BY <1>1, <1>2 DEF ToSet
<1>5. \A j, k \in 1 .. Len(s) : s[j] = s[k] => j = k
  BY <1>1, <1>2 DEF IsInjective
<1> QED
  BY <1>1, <1>3, <1>4, <1>5

(* Two walks over as many nodes are one walk: where they first differed,   *)
(* the stop before would lead to both.                                     *)
LEMMA OneWalk ==
  ASSUME NEW l \in Lists, NEW n \in Nat, NEW s, NEW t,
         Len(s) = n, Len(t) = n, Walks(l, s), Walks(l, t)
  PROVE  \A k \in 1 .. n : s[k] = t[k]
<1> DEFINE D == {k \in 1 .. n : s[k] # t[k]}
<1>1. SUFFICES ASSUME D # {} PROVE FALSE
  OBVIOUS
<1>2. D \in SUBSET Nat
  OBVIOUS
<1>3. PICK k \in D : \A j \in D : k <= j
  <2> HIDE DEF D
  <2> QED
    BY <1>1, <1>2, LeastNatural
<1>4. k \in 1 .. n /\ s[k] # t[k] /\ k - 1 \in 0 .. n /\ k # n + 1 /\ k # 0 /\ k - 1 # n + 1
  BY <1>3
<1>5. Stop(l, s, k - 1) = Stop(l, t, k - 1)
  <2>1. CASE k = 1
    BY <2>1 DEF Stop
  <2>2. CASE k # 1
    <3>1. k - 1 \in 1 .. n /\ ~(k <= k - 1)
      BY <1>4, <2>2
    <3>2. s[k - 1] = t[k - 1]
      BY <1>3, <3>1
    <3> QED
      BY <1>4, <3>1, <3>2 DEF Stop
  <2> QED
    BY <2>1, <2>2
<1>6. next[Stop(l, s, k - 1)] = Stop(l, s, k - 1 + 1) /\ next[Stop(l, t, k - 1)] = Stop(l, t, k - 1 + 1)
  BY <1>4 DEF Walks
<1>7. k - 1 + 1 = k
  BY <1>4
<1>8. Stop(l, s, k) = s[k] /\ Stop(l, t, k) = t[k]
  BY <1>4 DEF Stop
<1> QED
  BY <1>4, <1>5, <1>6, <1>7, <1>8

(* The tour of a list is the walk Contents follows.                        *)
LEMMA TourIsWalk ==
  ASSUME TypeOK, NEW l \in Lists, NEW s \in Seq(Cells), Tour(l, s)
  PROVE  Walk(l) = s /\ Contents(l) = Along(elem, s)
<1> DEFINE n == Len(s)
           N == NodesOf(l)
           W == [1 .. Cardinality(N) -> N]
<1>1. /\ n \in Nat /\ DOMAIN s = 1 .. n /\ s \in [1 .. n -> N]
      /\ \A k \in 1 .. n : s[k] \in N
      /\ \A x \in N : \E k \in 1 .. n : x = s[k]
      /\ \A j, k \in 1 .. n : s[j] = s[k] => j = k
  BY TourFacts
<1>2. Cardinality(N) = n
  <2> HIDE DEF n, N
  <2>1. s \in Bijection(1 .. n, N)
    BY <1>1 DEF Bijection, Injection, Surjection, IsInjective
  <2> QED
    BY <1>1, <2>1, FS_CountingElements DEF ExistsBijection
<1>3. s \in W /\ Walks(l, s)
  BY <1>1, <1>2 DEF Tour
<1>4. Walk(l) \in W /\ Walks(l, Walk(l))
  BY <1>3 DEF Walk
<1>5. Walk(l) \in Seq(N) /\ Len(Walk(l)) = n /\ DOMAIN Walk(l) = 1 .. n
  <2> HIDE DEF n, N
  <2>1. ASSUME NEW w \in [1 .. n -> N] PROVE w \in Seq(N) /\ Len(w) = n /\ DOMAIN w = 1 .. n
    BY <1>1
  <2> QED
    BY <1>2, <1>4, <2>1
<1>6. Walk(l) = s
  <2>1. PICK w \in [1 .. n -> N] : w = Walk(l) /\ Len(w) = n /\ Walks(l, w)
    BY <1>2, <1>4, <1>5
  <2> HIDE DEF N, W
  <2>2. \A k \in 1 .. n : w[k] = s[k]
    BY <1>1, <1>3, <2>1, OneWalk
  <2> HIDE DEF n
  <2>3. w = s
    BY <1>1, <2>1, <2>2
  <2> QED
    BY <2>1, <2>3
<1> QED
  BY <1>6 DEF Contents, Along

(* The stops of a tour are nodes of its list, and no two are the same.     *)
LEMMA Stops ==
  ASSUME TypeOK, NEW l \in Lists, NEW s \in Seq(Cells), Tour(l, s)
  PROVE  /\ Stop(l, s, 0) = Begin(l) /\ Stop(l, s, Len(s) + 1) = End(l)
         /\ \A k \in 1 .. Len(s) : Stop(l, s, k) = s[k]
         /\ \A k \in 0 .. Len(s) + 1 : Stop(l, s, k) \in NodesOf(l) \cup {Begin(l), End(l)}
         /\ \A j, k \in 0 .. Len(s) + 1 : Stop(l, s, j) = Stop(l, s, k) => j = k
<1>1. /\ Len(s) \in Nat
      /\ \A k \in 1 .. Len(s) : s[k] \in NodesOf(l) /\ s[k] \in Cells
      /\ \A j, k \in 1 .. Len(s) : s[j] = s[k] => j = k
  BY TourFacts
<1>2. /\ Begin(l) # End(l) /\ Begin(l) \notin Cells /\ End(l) \notin Cells
  BY Addresses
<1>3. Stop(l, s, 0) = Begin(l) /\ Stop(l, s, Len(s) + 1) = End(l)
  BY <1>1 DEF Stop
<1>4. \A k \in 1 .. Len(s) : Stop(l, s, k) = s[k]
  BY <1>1 DEF Stop
<1>5. \A k \in 0 .. Len(s) + 1 : k = 0 \/ k = Len(s) + 1 \/ k \in 1 .. Len(s)
  BY <1>1
<1>6. \A k \in 0 .. Len(s) + 1 : Stop(l, s, k) \in NodesOf(l) \cup {Begin(l), End(l)}
  BY <1>1, <1>3, <1>4, <1>5
<1>7. ASSUME NEW j \in 0 .. Len(s) + 1, NEW k \in 0 .. Len(s) + 1,
             Stop(l, s, j) = Stop(l, s, k)
      PROVE  j = k
  BY <1>1, <1>2, <1>3, <1>4, <1>5, <1>7
<1> QED
  BY <1>3, <1>4, <1>6, <1>7

(* A tour from which no pointer and no node was touched remains one.       *)
LEMMA TourKept ==
  ASSUME TypeOK, NEW l \in Lists, NEW s \in Seq(Cells), Tour(l, s),
         NodesOf(l)' = NodesOf(l),
         \A n \in NodesOf(l) \cup {Begin(l)} : next'[n] = next[n]
  PROVE  Tour(l, s)'
<1>1. ASSUME NEW k \in 0 .. Len(s)
      PROVE  next'[Stop(l, s, k)] = Stop(l, s, k + 1)
  <2>1. next[Stop(l, s, k)] = Stop(l, s, k + 1)
    BY DEF Tour, Walks
  <2>2. Stop(l, s, k) \in NodesOf(l) \cup {Begin(l)}
    BY TourFacts DEF Stop
  <2> QED
    BY <2>1, <2>2
<1> QED
  BY <1>1 DEF Tour, Walks

(* A new node between two stops of a tour is visited between them.         *)
LEMMA TourInserted ==
  ASSUME TypeOK, NEW l \in Lists, NEW s \in Seq(Cells), Tour(l, s),
         NEW k \in 0 .. Len(s), NEW c \in Cells \ live,
         NodesOf(l)' = NodesOf(l) \cup {c},
         next' = [next EXCEPT ![c] = Stop(l, s, k + 1), ![Stop(l, s, k)] = c]
  PROVE  Tour(l, InsertAt(s, k + 1, c))'
<1> DEFINE t == InsertAt(s, k + 1, c)
           n == Len(s)
           p == Stop(l, s, k)
           q == Stop(l, s, k + 1)
<1>1. /\ n \in Nat /\ \A m \in 1 .. n : s[m] \in NodesOf(l)
      /\ ToSet(s) = NodesOf(l) /\ IsInjective(s) /\ c \notin ToSet(s)
  BY TourFacts DEF Tour, NodesOf
<1>2. k + 1 \in 1 .. n + 1 /\ c \in Cells
  BY <1>1
<1>3. /\ t \in Seq(Cells) /\ Len(t) = n + 1
      /\ \A m \in 1 .. n + 1 :
           t[m] = IF m < k + 1 THEN s[m] ELSE IF m = k + 1 THEN c ELSE s[m - 1]
  BY <1>2, InsertedAt
<1>4. ToSet(t) = NodesOf(l)' /\ IsInjective(t)
  BY <1>1, <1>2, Inserted
<1> HIDE DEF t
<1>5. ASSUME NEW m \in 0 .. n + 2
      PROVE  Stop(l, t, m) = IF m <= k THEN Stop(l, s, m)
                             ELSE IF m = k + 1 THEN c ELSE Stop(l, s, m - 1)
  BY <1>1, <1>2, <1>3 DEF Stop
<1>6. \A m \in 0 .. n : m # k => Stop(l, s, m) \notin {c, p} /\ Stop(l, s, m) \in Nodes
  <2>1. \A m \in 0 .. n : /\ m \in 0 .. n + 1 /\ k \in 0 .. n + 1
                          /\ Stop(l, s, m) \in NodesOf(l) \cup {Begin(l), End(l)}
    BY <1>1, Stops
  <2>2. c \notin NodesOf(l) \cup {Begin(l), End(l)}
    BY Addresses DEF NodesOf
  <2>3. NodesOf(l) \cup {Begin(l), End(l)} \subseteq Nodes
    BY Addresses DEF NodesOf, Nodes, TypeOK
  <2> HIDE DEF n
  <2> QED
    BY <2>1, <2>2, <2>3, Stops DEF n
<1>7. p \in Nodes /\ c \in Nodes /\ p # c
  <2>1. p \in NodesOf(l) \cup {Begin(l), End(l)}
    BY <1>1, Stops
  <2> QED
    BY <2>1, Addresses DEF NodesOf, Nodes, TypeOK
<1>8. next'[p] = c /\ next'[c] = q
  BY <1>7 DEF TypeOK
<1>9. \A m \in 0 .. n : m # k => next'[Stop(l, s, m)] = Stop(l, s, m + 1)
  <2>1. \A m \in 0 .. n : next[Stop(l, s, m)] = Stop(l, s, m + 1)
    BY DEF Tour, Walks
  <2> QED
    BY <1>6, <2>1 DEF TypeOK
<1> HIDE DEF n
<1>10. ASSUME NEW m \in 0 .. n + 1
       PROVE  next'[Stop(l, t, m)] = Stop(l, t, m + 1)
  <2>1. m \in 0 .. n + 2 /\ m + 1 \in 0 .. n + 2
    BY <1>1
  <2>2. CASE m < k
    <3>1. Stop(l, t, m) = Stop(l, s, m) /\ Stop(l, t, m + 1) = Stop(l, s, m + 1)
      BY <1>5, <2>1, <2>2
    <3>2. m \in 0 .. n /\ m # k
      BY <1>1, <1>2, <2>2, SMTT(30)
    <3> QED
      BY <1>9, <3>1, <3>2
  <2>3. CASE m = k
    <3>1. Stop(l, t, m) = p /\ Stop(l, t, m + 1) = c
      BY <1>5, <2>1, <2>3
    <3> QED
      BY <1>8, <3>1
  <2>4. CASE m = k + 1
    <3>1. Stop(l, t, m) = c
      BY <1>5, <2>1, <2>4
    <3>2. Stop(l, t, m + 1) = q
      <4>1. m + 1 - 1 = k + 1 /\ ~(m + 1 <= k) /\ m + 1 # k + 1
        BY <2>4
      <4> QED
        BY <1>5, <2>1, <4>1
    <3> QED
      BY <1>8, <3>1, <3>2
  <2>5. CASE m > k + 1
    <3>1. m - 1 \in 0 .. n /\ m - 1 # k /\ m + 1 - 1 = m - 1 + 1
      BY <1>1, <2>5
    <3>2. Stop(l, t, m) = Stop(l, s, m - 1) /\ Stop(l, t, m + 1) = Stop(l, s, m - 1 + 1)
      BY <1>5, <2>1, <2>5, <3>1
    <3> QED
      BY <1>9, <3>1, <3>2
  <2> QED
    BY <2>2, <2>3, <2>4, <2>5
<1>11. Walks(l, t)'
  BY <1>3, <1>10 DEF Walks
<1> QED
  BY <1>3, <1>4, <1>11 DEF Tour, t

(* What a list holds is what lies along its tour, also after a step.       *)
LEMMA ContentsOfTour ==
  TypeOK => \A l \in Lists : \A s \in Seq(Cells) :
              Tour(l, s) => Contents(l) = Along(elem, s)
BY TourIsWalk

(* The same of the state a step leads to.                                  *)
LEMMA ContentsOfTourAfter ==
  TypeOK' => \A l \in Lists : \A s \in Seq(Cells) :
               Tour(l, s)' => Contents(l)' = Along(elem', s)
<1> DEFINE P == TypeOK => \A l \in Lists : \A s \in Seq(Cells) :
                            Tour(l, s) => Contents(l) = Along(elem, s)
<1>1. P'
  BY ContentsOfTour, PTL
<1> QED
  BY <1>1 DEF Along

-----------------------------------------------------------------------------
(* Along a tour lies one element for each stop.                            *)
LEMMA AlongFacts ==
  ASSUME NEW f \in [Nodes -> Held], NEW s \in Seq(Cells)
  PROVE  /\ Along(f, s) \in Seq(Held) /\ Len(Along(f, s)) = Len(s)
         /\ \A k \in 1 .. Len(s) : Along(f, s)[k] = f[s[k]]
<1>1. PICK n \in Nat : n = Len(s) /\ DOMAIN s = 1 .. n /\ \A k \in 1 .. n : s[k] \in Nodes
  BY DEF Nodes
<1>2. Along(f, s) \in [1 .. n -> Held]
  BY <1>1 DEF Along
<1>3. Along(f, s) \in Seq(Held) /\ Len(Along(f, s)) = n
  <2>1. ASSUME NEW w \in [1 .. n -> Held] PROVE w \in Seq(Held) /\ Len(w) = n
    OBVIOUS
  <2> QED
    BY <1>2, <2>1
<1> QED
  BY <1>1, <1>3 DEF Along

(* A node put into the tour puts its element into what lies along it.      *)
LEMMA AlongInserted ==
  ASSUME NEW f \in [Nodes -> Held], NEW g \in [Nodes -> Held], NEW s \in Seq(Cells),
         NEW k \in 1 .. Len(s) + 1, NEW c \in Cells,
         \A j \in 1 .. Len(s) : g[s[j]] = f[s[j]]
  PROVE  Along(g, InsertAt(s, k, c)) = InsertAt(Along(f, s), k, g[c])
<1> DEFINE n == Len(s)
           t == InsertAt(s, k, c)
           a == Along(f, s)
           x == g[c]
           b == InsertAt(a, k, x)
           d == Along(g, t)
<1>1. n \in Nat /\ k \in 1 .. n + 1 /\ \A j \in 1 .. n : g[s[j]] = f[s[j]]
  OBVIOUS
<1>2. /\ t \in Seq(Cells) /\ Len(t) = n + 1
      /\ \A m \in 1 .. n + 1 :
           t[m] = IF m < k THEN s[m] ELSE IF m = k THEN c ELSE s[m - 1]
  <2>1. c \in Cells /\ k \in 1 .. Len(s) + 1
    OBVIOUS
  <2> QED
    BY ONLY <2>1, s \in Seq(Cells), InsertedAt
<1>3. a \in Seq(Held) /\ Len(a) = n /\ \A m \in 1 .. n : a[m] = f[s[m]]
  BY AlongFacts
<1> HIDE DEF n, t, a
<1>0. a \in Seq(Held) /\ k \in 1 .. Len(a) + 1 /\ x \in Held
  BY <1>1, <1>3 DEF Nodes
<1> HIDE DEF x
<1>4. /\ b \in Seq(Held) /\ Len(b) = n + 1
      /\ \A m \in 1 .. n + 1 :
           b[m] = IF m < k THEN a[m] ELSE IF m = k THEN x ELSE a[m - 1]
  <2>1. /\ b \in Seq(Held) /\ Len(b) = Len(a) + 1
        /\ \A m \in 1 .. Len(a) + 1 :
             b[m] = IF m < k THEN a[m] ELSE IF m = k THEN x ELSE a[m - 1]
    BY ONLY <1>0, InsertedAt
  <2> QED
    BY <1>3, <2>1
<1>5. d \in Seq(Held) /\ Len(d) = n + 1 /\ \A m \in 1 .. n + 1 : d[m] = g[t[m]]
  BY <1>2, AlongFacts
<1> HIDE DEF b, d
<1>6. ASSUME NEW m \in 1 .. n + 1 PROVE d[m] = b[m]
  <2>1. CASE m < k
    <3>1. m \in 1 .. n /\ t[m] = s[m] /\ b[m] = a[m]
      BY <1>1, <1>2, <1>4, <2>1
    <3> QED
      BY <3>1, <1>1, <1>3, <1>5
  <2>2. CASE m = k
    BY <1>2, <1>4, <1>5, <2>2 DEF x
  <2>3. CASE m > k
    <3>1. m - 1 \in 1 .. n /\ t[m] = s[m - 1] /\ b[m] = a[m - 1]
      BY <1>1, <1>2, <1>4, <2>3
    <3> QED
      BY <3>1, <1>1, <1>3, <1>5
  <2> QED
    BY <1>1, <2>1, <2>2, <2>3
<1>7. d = b
  <2>1. n + 1 \in Nat
    BY <1>1
  <2> QED
    BY <1>4, <1>5, <1>6, <2>1, SMTT(30)
<1> QED
  BY <1>7 DEF a, b, d, t, x

(* A node taken out of the tour takes its element out.                     *)
LEMMA AlongRemoved ==
  ASSUME NEW f \in [Nodes -> Held], NEW g \in [Nodes -> Held], NEW s \in Seq(Cells),
         NEW k \in 1 .. Len(s),
         \A j \in 1 .. Len(s) : j # k => g[s[j]] = f[s[j]]
  PROVE  Along(g, RemoveAt(s, k)) = RemoveAt(Along(f, s), k)
<1> DEFINE n == Len(s)
           t == RemoveAt(s, k)
           a == Along(f, s)
           b == RemoveAt(a, k)
           d == Along(g, t)
<1>1. n \in Nat /\ k \in 1 .. n /\ \A j \in 1 .. n : j # k => g[s[j]] = f[s[j]]
  OBVIOUS
<1>2. /\ t \in Seq(Cells) /\ Len(t) = n - 1
      /\ \A m \in 1 .. n - 1 : t[m] = IF m < k THEN s[m] ELSE s[m + 1]
  BY RemovedAt
<1>3. a \in Seq(Held) /\ Len(a) = n /\ \A m \in 1 .. n : a[m] = f[s[m]]
  BY AlongFacts
<1> HIDE DEF n, t, a
<1>4. /\ b \in Seq(Held) /\ Len(b) = n - 1
      /\ \A m \in 1 .. n - 1 : b[m] = IF m < k THEN a[m] ELSE a[m + 1]
  BY <1>1, <1>3, RemovedAt
<1>5. d \in Seq(Held) /\ Len(d) = n - 1 /\ \A m \in 1 .. n - 1 : d[m] = g[t[m]]
  BY <1>2, AlongFacts
<1> HIDE DEF b, d
<1>6. ASSUME NEW m \in 1 .. n - 1 PROVE d[m] = b[m]
  <2>1. CASE m < k
    <3>1. m \in 1 .. n /\ m # k /\ t[m] = s[m] /\ b[m] = a[m]
      BY <1>1, <1>2, <1>4, <2>1
    <3> QED
      BY <3>1, <1>1, <1>3, <1>5
  <2>2. CASE m >= k
    <3>0. m + 1 \in 1 .. n /\ m + 1 # k /\ ~(m < k)
      BY <1>1, <2>2
    <3>1. t[m] = s[m + 1] /\ b[m] = a[m + 1]
      BY <1>2, <1>4, <3>0
    <3> QED
      BY <3>0, <3>1, <1>1, <1>3, <1>5, SMTT(30)
  <2> QED
    BY <1>1, <2>1, <2>2
<1>7. d = b
  <2>1. n - 1 \in Nat
    BY <1>1
  <2> QED
    BY <1>4, <1>5, <1>6, <2>1
<1> QED
  BY <1>7 DEF a, b, d, t

(* An exchange of the element in one node changes one place.               *)
LEMMA AlongExchanged ==
  ASSUME NEW f \in [Nodes -> Held], NEW e \in Held, NEW s \in Seq(Cells),
         NEW k \in 1 .. Len(s), IsInjective(s)
  PROVE  Along([f EXCEPT ![s[k]] = e], s) = [Along(f, s) EXCEPT ![k] = e]
<1> DEFINE n == Len(s)
           g == [f EXCEPT ![s[k]] = e]
           a == Along(f, s)
           d == Along(g, s)
<1>1. /\ n \in Nat /\ k \in 1 .. n /\ DOMAIN s = 1 .. n
      /\ \A j \in 1 .. n : s[j] \in Nodes
      /\ \A j \in 1 .. n : s[j] = s[k] => j = k
  BY DEF IsInjective, Nodes
<1>2. g \in [Nodes -> Held] /\ \A x \in Nodes : g[x] = IF x = s[k] THEN e ELSE f[x]
  OBVIOUS
<1>3. a \in Seq(Held) /\ Len(a) = n /\ \A m \in 1 .. n : a[m] = f[s[m]]
  BY AlongFacts
<1> HIDE DEF g
<1>4. d \in Seq(Held) /\ Len(d) = n /\ \A m \in 1 .. n : d[m] = g[s[m]]
  BY <1>2, AlongFacts
<1> HIDE DEF n, a, d
<1>5. \A m \in 1 .. n : d[m] = IF m = k THEN e ELSE a[m]
  BY <1>1, <1>2, <1>3, <1>4
<1>6. d = [a EXCEPT ![k] = e]
  BY <1>1, <1>3, <1>4, <1>5
<1> QED
  BY <1>6 DEF a, d, g

(* A node leaving a tour is visited no more, the others in the old order.  *)
LEMMA TourRemoved ==
  ASSUME TypeOK, NEW l \in Lists, NEW s \in Seq(Cells), Tour(l, s),
         NEW k \in 1 .. Len(s),
         NodesOf(l)' = NodesOf(l) \ {s[k]},
         next' = [next EXCEPT ![Stop(l, s, k - 1)] = Stop(l, s, k + 1), ![s[k]] = Null]
  PROVE  Tour(l, RemoveAt(s, k))'
<1> DEFINE t == RemoveAt(s, k)
           n == Len(s)
           p == Stop(l, s, k - 1)
           q == Stop(l, s, k + 1)
<1>1. n \in Nat /\ ToSet(s) = NodesOf(l) /\ IsInjective(s)
  BY TourFacts DEF Tour
<1>2. /\ t \in Seq(Cells) /\ Len(t) = n - 1
      /\ \A m \in 1 .. n - 1 : t[m] = IF m < k THEN s[m] ELSE s[m + 1]
  BY RemovedAt
<1>3. ToSet(t) = NodesOf(l)' /\ IsInjective(t)
  BY <1>1, Removed
<1>4. k - 1 \in 0 .. n /\ k \in 0 .. n + 1 /\ k - 1 # k /\ k # n + 1 /\ k # 0
  BY <1>1
<1> HIDE DEF t
<1>5. ASSUME NEW m \in 0 .. n
      PROVE  Stop(l, t, m) = IF m < k THEN Stop(l, s, m) ELSE Stop(l, s, m + 1)
  <2>1. CASE m = 0
    BY <1>4, <2>1 DEF Stop
  <2>2. CASE m = n
    <3>1. ~(m < k) /\ m # 0 /\ m = Len(t) + 1
      BY <1>1, <1>2, <1>4, <2>2
    <3> QED
      BY <1>1, <2>2, <3>1 DEF Stop
  <2>3. CASE m # 0 /\ m # n
    <3>1. m \in 1 .. n - 1 /\ m # Len(t) + 1 /\ m # n + 1 /\ m + 1 # n + 1 /\ m + 1 # 0
      BY <1>1, <1>2, <2>3
    <3>2. /\ Stop(l, t, m) = t[m] /\ Stop(l, s, m) = s[m]
          /\ Stop(l, s, m + 1) = s[m + 1]
      BY <3>1, <2>3 DEF Stop
    <3> QED
      BY <1>2, <3>1, <3>2
  <2> QED
    BY <2>1, <2>2, <2>3
<1>6. \A m \in 0 .. n : /\ m \in 0 .. n + 1
                        /\ Stop(l, s, m) \in Nodes
                        /\ next[Stop(l, s, m)] = Stop(l, s, m + 1)
  <2>1. \A m \in 0 .. n : /\ m \in 0 .. n + 1
                          /\ Stop(l, s, m) \in NodesOf(l) \cup {Begin(l), End(l)}
    BY <1>1, Stops
  <2>2. NodesOf(l) \cup {Begin(l), End(l)} \subseteq Nodes
    BY Addresses DEF NodesOf, Nodes, TypeOK
  <2> HIDE DEF n
  <2> QED
    BY <2>1, <2>2 DEF Tour, Walks, n
<1>7. Stop(l, s, k) = s[k]
  BY <1>4 DEF Stop
<1> HIDE DEF n
<1>8. \A m \in 0 .. n : m # k - 1 /\ m # k => Stop(l, s, m) # p /\ Stop(l, s, m) # s[k]
  BY <1>4, <1>6, <1>7, Stops DEF n
<1>9. p # s[k] /\ p \in Nodes /\ s[k] \in Nodes
  BY <1>1, <1>4, <1>6, <1>7, Stops DEF n
<1>10. next'[p] = q
  BY <1>9 DEF TypeOK
<1>11. \A m \in 0 .. n : m # k - 1 /\ m # k => next'[Stop(l, s, m)] = Stop(l, s, m + 1)
  BY <1>6, <1>8 DEF TypeOK
<1>12. ASSUME NEW m \in 0 .. n - 1
       PROVE  next'[Stop(l, t, m)] = Stop(l, t, m + 1)
  <2>1. m \in 0 .. n /\ m + 1 \in 0 .. n
    BY <1>1
  <2>2. CASE m < k - 1
    <3>1. m < k /\ m + 1 < k /\ m # k - 1 /\ m # k
      BY <1>4, <2>2
    <3> QED
      BY <1>5, <1>11, <2>1, <3>1
  <2>3. CASE m = k - 1
    <3>1. m < k /\ ~(m + 1 < k) /\ m + 1 + 1 = k + 1
      BY <1>4, <2>3
    <3>2. Stop(l, t, m) = p /\ Stop(l, t, m + 1) = q
      BY <1>5, <2>1, <2>3, <3>1
    <3> QED
      BY <1>10, <3>2
  <2>4. CASE m >= k
    <3>1. ~(m < k) /\ ~(m + 1 < k) /\ m + 1 \in 0 .. n /\ m + 1 # k - 1 /\ m + 1 # k
      BY <1>1, <1>4, <2>4
    <3>2. Stop(l, t, m) = Stop(l, s, m + 1) /\ Stop(l, t, m + 1) = Stop(l, s, m + 1 + 1)
      BY <1>5, <2>1, <3>1
    <3> QED
      BY <1>11, <3>1, <3>2
  <2> QED
    BY <1>1, <1>4, <2>2, <2>3, <2>4
<1>13. Walks(l, t)'
  BY <1>2, <1>12 DEF Walks
<1> QED
  BY <1>2, <1>3, <1>13 DEF Tour, t

(* Nothing is visited between the sentinels of a list without items.       *)
LEMMA TourEmpty ==
  ASSUME NEW l \in Lists, NodesOf(l) = {}, next[Begin(l)] = End(l)
  PROVE  Tour(l, << >>)
<1>1. /\ << >> \in Seq(Cells) /\ Len(<< >>) = 0 /\ DOMAIN << >> = {}
      /\ ToSet(<< >>) = {} /\ IsInjective(<< >>)
  BY DEF ToSet, IsInjective
<1>2. \A k \in 0 .. 0 : k = 0
  OBVIOUS
<1> QED
  BY <1>1, <1>2 DEF Tour, Walks, Stop

-----------------------------------------------------------------------------
(* A step which leaves the nodes and pointers of a list alone leaves its   *)
(* contents alone.                                                         *)
Untouched(m) ==
  /\ NodesOf(m)' = NodesOf(m)
  /\ \A n \in NodesOf(m) \cup {Begin(m)} : next'[n] = next[n] /\ elem'[n] = elem[n]

(* So a list that a step does not touch keeps its tour and its contents.   *)
LEMMA OtherList ==
  ASSUME TypeOK, TypeOK', NEW m \in Lists, NEW s \in Seq(Cells), Tour(m, s), Untouched(m)
  PROVE  Tour(m, s)' /\ Contents(m)' = Contents(m)
<1>1. Tour(m, s)'
  BY TourKept DEF Untouched
<1>2. Contents(m) = Along(elem, s) /\ Contents(m)' = Along(elem', s)
  BY <1>1, ContentsOfTour, ContentsOfTourAfter
<1>3. \A k \in DOMAIN s : elem'[s[k]] = elem[s[k]]
  BY TourFacts DEF Untouched
<1> QED
  BY <1>1, <1>2, <1>3 DEF Along

(* A step on one list: that list has the tour t, all others their old one. *)
LEMMA StepOn ==
  ASSUME WInv, IInv', NEW l \in Lists, NEW t \in Seq(Cells), Tour(l, t)',
         \A m \in Lists \ {l} : Untouched(m)
  PROVE  /\ WInv'
         /\ Contents(l)' = Along(elem', t)
         /\ \A m \in Lists \ {l} : Contents(m)' = Contents(m)
<1>1. TypeOK /\ TypeOK' /\ Toured
  BY DEF WInv, IInv
<1>2. Contents(l)' = Along(elem', t)
  BY <1>1, ContentsOfTourAfter
<1>3. ASSUME NEW m \in Lists \ {l}
      PROVE  /\ Contents(m)' = Contents(m)
             /\ \E s \in Seq(Cells) : Tour(m, s)'
  <2>1. PICK s \in Seq(Cells) : Tour(m, s)
    BY <1>1 DEF Toured
  <2> QED
    BY <1>1, <2>1, OtherList
<1>4. ASSUME NEW m \in Lists PROVE \E s \in Seq(Cells) : Tour(m, s)'
  BY <1>3
<1> QED
  BY <1>2, <1>3, <1>4 DEF WInv, Toured

(* What is along the tour of a list is listed in nodes of that list.       *)
LEMMA ContentsPlaced ==
  ASSUME WInv, NEW e \in Elems, ~Placed(e)
  PROVE  e \notin Abstract!Listed
<1>1. ASSUME NEW m \in Lists PROVE e \notin ToSet(Contents(m))
  <2>1. PICK s \in Seq(Cells) : Tour(m, s)
    BY DEF WInv, Toured
  <2>2. Contents(m) = Along(elem, s)
    BY <2>1, TourIsWalk DEF WInv, IInv
  <2>3. \A k \in DOMAIN s : s[k] \in live
    BY <2>1, TourFacts DEF WInv, IInv, NodesOf
  <2>4. \A k \in DOMAIN s : elem[s[k]] # e
    BY <2>3 DEF Placed
  <2> QED
    BY <2>2, <2>4 DEF ToSet, Along
<1>2. \A m \in Lists : Items[m] = Contents(m)
  BY DEF Items
<1> QED
  BY <1>1, <1>2 DEF Abstract!Listed, Abstract!ToSet, ToSet

(* Each item node is a stop of the tour of its list.                       *)
LEMMA StopOf ==
  ASSUME TypeOK, DoublyLinked, NEW l \in Lists, NEW s \in Seq(Cells), Tour(l, s),
         NEW p \in live \cup Begins, parent[p] = l
  PROVE  \E k \in 0 .. Len(s) : p = Stop(l, s, k) /\ next[p] = Stop(l, s, k + 1)
<1>1. \A k \in 0 .. Len(s) : next[Stop(l, s, k)] = Stop(l, s, k + 1)
  BY DEF Tour, Walks
<1>2. CASE p \in live
  <2>1. PICK k \in 1 .. Len(s) : p = s[k]
    BY <1>2, TourFacts DEF NodesOf
  <2>2. k \in 0 .. Len(s) /\ p = Stop(l, s, k)
    BY <2>1, Stops
  <2> QED
    BY <1>1, <2>2
<1>3. CASE p \in Begins
  <2>1. p = Begin(l)
    BY <1>3 DEF Begins, DoublyLinked, SentinelsEnd
  <2>2. 0 \in 0 .. Len(s) /\ p = Stop(l, s, 0)
    BY <2>1, Stops
  <2> QED
    BY <1>1, <2>2
<1> QED
  BY <1>2, <1>3

(* Linking a new node is an insertion into the sequence of its list.       *)
LEMMA LinkInserts ==
  ASSUME WInv, NEW l \in Lists, NEW c \in Cells \ live, NEW e \in Elems,
         NEW p \in live \cup Begins, NEW q \in live \cup Ends,
         next[p] = q, parent[p] = l,
         ~Placed(e), Link(c, p, q, e, l),
         parent' = [parent EXCEPT ![c] = l]
  PROVE  WInv' /\ Abstract!Next
<1>1. IInv /\ IInv' /\ TypeOK /\ DoublyLinked /\ Toured /\ TypeOK'
  BY LinkIInv DEF WInv, IInv
<1>2. PICK s \in Seq(Cells) : Tour(l, s)
  BY <1>1 DEF Toured
<1>3. PICK k \in 0 .. Len(s) : p = Stop(l, s, k) /\ q = Stop(l, s, k + 1)
  BY <1>1, <1>2, StopOf
<1>4. /\ live' = live \cup {c} /\ elem' = [elem EXCEPT ![c] = e]
      /\ next' = [next EXCEPT ![c] = q, ![p] = c]
  BY DEF Link
<1>5. \A n \in live : n # c /\ n \in Nodes /\ parent'[n] = parent[n] /\ elem'[n] = elem[n]
  BY <1>1, <1>4 DEF TypeOK, Nodes
<1>6. parent'[c] = l /\ elem'[c] = e
  BY <1>1, <1>4 DEF TypeOK, Nodes
<1>7. NodesOf(l)' = NodesOf(l) \cup {c} /\ \A m \in Lists \ {l} : NodesOf(m)' = NodesOf(m)
  BY <1>4, <1>5, <1>6 DEF NodesOf
<1>8. ASSUME NEW m \in Lists \ {l} PROVE Untouched(m)
  <2>1. Begin(m) # c /\ Begin(m) \in Nodes /\ parent[Begin(m)] = m
    BY <1>1, Addresses DEF Nodes, DoublyLinked, SentinelsEnd
  <2>2. \A n \in NodesOf(m) \cup {Begin(m)} : n # c /\ n # p /\ n \in Nodes
    BY <1>5, <2>1 DEF NodesOf
  <2> QED
    BY <1>1, <1>4, <1>7, <2>2 DEF Untouched, TypeOK
<1>9. PICK i \in 1 .. Len(s) + 1 : i = k + 1
  OBVIOUS
<1>10. PICK t \in Seq(Cells) : t = InsertAt(s, i, c)
  BY InsertedAt
<1>11. Tour(l, t)'
  BY <1>1, <1>2, <1>3, <1>4, <1>7, <1>9, <1>10, TourInserted
<1>12. /\ WInv' /\ Contents(l)' = Along(elem', t)
       /\ \A m \in Lists \ {l} : Contents(m)' = Contents(m)
  BY <1>1, <1>8, <1>11, StepOn
<1>13. elem \in [Nodes -> Held] /\ elem' \in [Nodes -> Held]
  BY <1>1 DEF TypeOK, Held
<1>14. Contents(l) = Along(elem, s) /\ Len(Contents(l)) = Len(s)
  BY <1>1, <1>2, <1>13, TourIsWalk, AlongFacts
<1>15. Contents(l)' = InsertAt(Contents(l), i, e)
  <2>1. \A j \in 1 .. Len(s) : elem'[s[j]] = elem[s[j]]
    BY <1>1, <1>2, <1>5, TourFacts DEF NodesOf
  <2>2. Along(elem', InsertAt(s, i, c)) = InsertAt(Along(elem, s), i, elem'[c])
    BY <1>13, <2>1, AlongInserted, ZenonT(30)
  <2> QED
    BY <1>6, <1>10, <1>12, <1>14, <2>2
<1>16. e \notin Abstract!Listed
  BY ContentsPlaced
<1>17. Items' = [Items EXCEPT ![l] = InsertAt(@, i, e)]
  BY <1>12, <1>15 DEF Items
<1>18. Abstract!Insert(l, i, e)
  BY <1>16, <1>17 DEF Abstract!Insert, Abstract!InsertAt, InsertAt
<1>19. i \in 1 .. Len(Items[l]) + 1
  BY <1>14 DEF Items
<1> QED
  BY <1>12, <1>18, <1>19 DEF Abstract!Next

(* Modifier::append inserts behind the node the modifier stands on.        *)
LEMMA appendInserts ==
  ASSUME WInv, NEW l \in Lists, NEW n \in Nodes, NEW c \in Cells \ live,
         NEW e \in Elems, append(n, l, c, e)
  PROVE  WInv' /\ Abstract!Next
<1>1. n \in live \cup Begins /\ next[n] \in live \cup Ends /\ parent[n] = l
  BY Addresses, ModifierParent
     DEF append, WInv, IInv, DoublyLinked, SentinelsEnd, ForwardLinked, Ends
<1> QED
  BY <1>1, LinkInserts DEF append

(* Modifier::prepend inserts in front of it.                               *)
LEMMA prependInserts ==
  ASSUME WInv, NEW l \in Lists, NEW n \in Nodes, NEW c \in Cells \ live,
         NEW e \in Elems, prepend(n, l, c, e)
  PROVE  WInv' /\ Abstract!Next
<1>1. n \in live \cup Ends /\ prev[n] \in live \cup Begins /\ parent[n] = l
      /\ next[prev[n]] = n /\ parent[prev[n]] = l
  BY Addresses, ModifierParent
     DEF prepend, WInv, IInv, DoublyLinked, SentinelsEnd, BackwardLinked, Begins
<1> QED
  BY <1>1, LinkInserts DEF prepend

(* Modifier::remove_this takes out the element of its node.                *)
LEMMA remove_thisTakes ==
  ASSUME WInv, NEW l \in Lists, NEW n \in Nodes, remove_this(n, l)
  PROVE  WInv' /\ Abstract!Next
<1>1. IInv /\ IInv' /\ TypeOK /\ DoublyLinked /\ Toured /\ TypeOK'
  BY remove_thisIInv DEF WInv, IInv
<1>2. PICK s \in Seq(Cells) : Tour(l, s)
  BY <1>1 DEF Toured
<1>3. n \in live /\ parent[n] = l /\ n \in Cells
  BY <1>1, ModifierParent DEF remove_this, TypeOK
<1>4. PICK k \in 1 .. Len(s) : n = s[k] /\ n = Stop(l, s, k)
  <2>1. PICK k \in 1 .. Len(s) : n = s[k]
    BY <1>1, <1>2, <1>3, TourFacts DEF NodesOf
  <2> QED
    BY <1>1, <1>2, <2>1, Stops
<1>5. prev[n] = Stop(l, s, k - 1) /\ next[n] = Stop(l, s, k + 1)
  <2>1. k \in 0 .. Len(s) /\ k - 1 \in 0 .. Len(s) /\ k - 1 + 1 = k /\ k - 1 # Len(s) + 1
    OBVIOUS
  <2>2. next[Stop(l, s, k - 1)] = Stop(l, s, k) /\ next[Stop(l, s, k)] = Stop(l, s, k + 1)
    BY <1>2, <2>1 DEF Tour, Walks
  <2>3. Stop(l, s, k - 1) \in live \cup Begins
    <3>1. CASE k = 1
      BY <3>1, Addresses DEF Stop
    <3>2. CASE k # 1
      <4>1. k - 1 \in 1 .. Len(s)
        BY <3>2
      <4>2. s[k - 1] \in NodesOf(l) /\ Stop(l, s, k - 1) = s[k - 1]
        BY <1>1, <1>2, <4>1, TourFacts, Stops
      <4> QED
        BY <4>2 DEF NodesOf
    <3> QED
      BY <3>1, <3>2
  <2>4. prev[next[Stop(l, s, k - 1)]] = Stop(l, s, k - 1)
    BY <1>1, <2>3 DEF DoublyLinked, ForwardLinked
  <2> QED
    BY <1>4, <2>2, <2>4
<1>6. /\ live' = live \ {n} /\ elem' = [elem EXCEPT ![n] = Null]
      /\ next' = [next EXCEPT ![prev[n]] = next[n], ![n] = Null]
      /\ parent' = [parent EXCEPT ![n] = Null]
  BY DEF remove_this
<1>7. /\ NodesOf(l)' = NodesOf(l) \ {n}
      /\ \A m \in Lists \ {l} : NodesOf(m)' = NodesOf(m)
  <2>1. \A x \in live \ {n} : x \in Nodes /\ parent'[x] = parent[x]
    BY <1>1, <1>6 DEF TypeOK, Nodes
  <2> QED
    BY <1>3, <1>6, <2>1 DEF NodesOf
<1>8. ASSUME NEW m \in Lists \ {l} PROVE Untouched(m)
  <2>1. Begin(m) # n /\ Begin(m) \in Nodes /\ parent[Begin(m)] = m
    BY <1>1, <1>3, Addresses DEF Nodes, DoublyLinked, SentinelsEnd
  <2>2. parent[prev[n]] = l
    BY <1>1, <1>3 DEF DoublyLinked, BackwardLinked
  <2>3. \A x \in NodesOf(m) \cup {Begin(m)} : x # n /\ x # prev[n] /\ x \in Nodes
    BY <1>1, <1>3, <2>1, <2>2 DEF NodesOf, TypeOK, Nodes
  <2> QED
    BY <1>1, <1>6, <1>7, <2>3 DEF Untouched, TypeOK
<1>9. PICK t \in Seq(Cells) : t = RemoveAt(s, k)
  BY RemovedAt
<1>10. Tour(l, t)'
  BY <1>1, <1>2, <1>4, <1>5, <1>6, <1>7, <1>9, TourRemoved
<1>11. /\ WInv' /\ Contents(l)' = Along(elem', t)
       /\ \A m \in Lists \ {l} : Contents(m)' = Contents(m)
  BY <1>1, <1>8, <1>10, StepOn
<1>12. elem \in [Nodes -> Held] /\ elem' \in [Nodes -> Held]
  BY <1>1 DEF TypeOK, Held
<1>13. /\ Contents(l) = Along(elem, s) /\ Contents(l) \in Seq(Held)
       /\ Len(Contents(l)) = Len(s)
  BY <1>1, <1>2, <1>12, TourIsWalk, AlongFacts
<1>14. Contents(l)' = RemoveAt(Contents(l), k)
  <2>1. \A j \in 1 .. Len(s) : s[j] \in Nodes /\ (j # k => s[j] # s[k])
    BY <1>1, <1>2, TourFacts DEF Nodes
  <2>2. \A j \in 1 .. Len(s) : j # k => elem'[s[j]] = elem[s[j]]
    BY <1>1, <1>4, <1>6, <2>1 DEF TypeOK
  <2>3. Along(elem', RemoveAt(s, k)) = RemoveAt(Along(elem, s), k)
    BY <1>12, <2>2, AlongRemoved, ZenonT(30)
  <2> QED
    BY <1>9, <1>11, <1>13, <2>3
<1>15. Items' = [Items EXCEPT ![l] = RemoveAt(@, k)]
  BY <1>11, <1>14 DEF Items
<1>16. Abstract!Take(l, k)
  BY <1>15 DEF Abstract!Take, Abstract!RemoveAt, RemoveAt
<1>17. k \in DOMAIN Items[l]
  BY <1>13 DEF Items
<1> QED
  BY <1>11, <1>16, <1>17 DEF Abstract!Next

(* Modifier::replace_this exchanges the element of its node.               *)
LEMMA replace_thisExchanges ==
  ASSUME WInv, NEW n \in Nodes, NEW e \in Elems, replace_this(n, e)
  PROVE  WInv' /\ (Abstract!Next \/ UNCHANGED Items)
<1>1. IInv /\ IInv' /\ TypeOK /\ DoublyLinked /\ Toured /\ TypeOK'
  BY replace_thisIInv DEF WInv, IInv
<1>2. /\ n \in live /\ n \in Cells /\ ~Placed(e) /\ elem' = [elem EXCEPT ![n] = e]
      /\ UNCHANGED <<live, prev, next, parent, length, self_node>>
  BY <1>1 DEF replace_this, TypeOK
<1>3. \A m \in Lists : NodesOf(m)' = NodesOf(m)
  BY <1>2 DEF NodesOf
<1>4. elem \in [Nodes -> Held] /\ elem' \in [Nodes -> Held] /\ e \in Held
  BY <1>1 DEF TypeOK, Held
<1>5. ASSUME NEW l \in Lists, parent[n] # l PROVE Untouched(l)
  <2>1. \A x \in NodesOf(l) \cup {Begin(l)} : x # n /\ x \in Nodes
    BY <1>1, <1>2, <1>5, Addresses DEF NodesOf, TypeOK, Nodes
  <2> QED
    BY <1>1, <1>2, <1>3, <2>1 DEF Untouched, TypeOK
<1>6. CASE parent[n] \in Lists
  <2>1. PICK l \in Lists : parent[n] = l
    BY <1>6
  <2>2. PICK s \in Seq(Cells) : Tour(l, s)
    BY <1>1 DEF Toured
  <2>3. PICK k \in 1 .. Len(s) : n = s[k]
    BY <1>1, <1>2, <2>1, <2>2, TourFacts DEF NodesOf
  <2>4. Tour(l, s)'
    BY <1>1, <1>2, <1>3, <2>2, TourKept
  <2>5. /\ WInv' /\ Contents(l)' = Along(elem', s)
        /\ \A m \in Lists \ {l} : Contents(m)' = Contents(m)
    BY <1>1, <1>5, <2>1, <2>4, StepOn
  <2>6. /\ Contents(l) = Along(elem, s) /\ Contents(l) \in Seq(Held)
        /\ Len(Contents(l)) = Len(s)
    BY <1>1, <1>4, <2>2, TourIsWalk, AlongFacts
  <2>7. Contents(l)' = [Contents(l) EXCEPT ![k] = e]
    <3>1. IsInjective(s)
      BY <2>2 DEF Tour
    <3>2. Along([elem EXCEPT ![s[k]] = e], s) = [Along(elem, s) EXCEPT ![k] = e]
      BY <1>4, <3>1, AlongExchanged, ZenonT(30)
    <3> QED
      BY <1>2, <2>3, <2>5, <2>6, <3>2
  <2>8. Items' = [Items EXCEPT ![l][k] = e]
    BY <2>5, <2>7 DEF Items
  <2>9. e \notin Abstract!Listed
    BY <1>2, ContentsPlaced
  <2>10. Abstract!Exchange(l, k, e)
    BY <2>8, <2>9 DEF Abstract!Exchange
  <2>11. k \in DOMAIN Items[l]
    BY <2>6 DEF Items
  <2> QED
    BY <2>5, <2>10, <2>11 DEF Abstract!Next
<1>7. CASE parent[n] \notin Lists
  <2>1. ASSUME NEW l \in Lists
        PROVE  Contents(l)' = Contents(l) /\ \E s \in Seq(Cells) : Tour(l, s)'
    <3>1. PICK s \in Seq(Cells) : Tour(l, s)
      BY <1>1 DEF Toured
    <3> QED
      BY <1>1, <1>5, <1>7, <3>1, OtherList
  <2> QED
    BY <1>1, <2>1 DEF WInv, Toured, Items
<1> QED
  BY <1>6, <1>7

(* RefList::clean empties its list.                                        *)
LEMMA cleanClears ==
  ASSUME WInv, NEW l \in Lists, clean(l)
  PROVE  WInv' /\ Abstract!Next
<1>1. IInv /\ IInv' /\ TypeOK /\ DoublyLinked
  BY cleanIInv DEF WInv, IInv
<1>2. /\ live' = live \ NodesOf(l)
      /\ next' = [n \in Nodes |-> IF n = Begin(l) THEN End(l)
                                  ELSE IF n \in NodesOf(l) THEN Null ELSE next[n]]
      /\ elem' = [n \in Nodes |-> IF n \in NodesOf(l) THEN Null ELSE elem[n]]
      /\ parent' = [n \in Nodes |-> IF n \in NodesOf(l) THEN Null ELSE parent[n]]
  BY DEF clean
<1>3. /\ NodesOf(l)' = {}
      /\ \A m \in Lists \ {l} : NodesOf(m)' = NodesOf(m)
  <2>1. \A x \in live \ NodesOf(l) : x \in Nodes /\ parent'[x] = parent[x]
    BY <1>1, <1>2 DEF TypeOK, Nodes
  <2>2. \A m \in Lists \ {l} : NodesOf(m) \cap NodesOf(l) = {}
    BY DEF NodesOf
  <2>3. \A m \in Lists : NodesOf(m)' = {x \in live \ NodesOf(l) : parent[x] = m}
    BY <1>2, <2>1 DEF NodesOf
  <2> QED
    BY <2>2, <2>3 DEF NodesOf
<1>4. Begin(l) \in Nodes /\ next'[Begin(l)] = End(l)
  BY <1>2, Addresses DEF Nodes
<1>5. Tour(l, << >>)'
  <2>1. /\ << >> \in Seq(Cells) /\ Len(<< >>) = 0 /\ DOMAIN << >> = {}
        /\ ToSet(<< >>) = {} /\ IsInjective(<< >>)
    BY DEF ToSet, IsInjective
  <2>2. \A k \in 0 .. 0 : k = 0
    OBVIOUS
  <2> QED
    BY <1>3, <1>4, <2>1, <2>2 DEF Tour, Walks, Stop
<1>6. ASSUME NEW m \in Lists \ {l} PROVE Untouched(m)
  <2>1. \A x \in NodesOf(m) \cup {Begin(m)} :
          x \in Nodes /\ x \notin NodesOf(l) /\ x # Begin(l)
    BY <1>1, Addresses DEF NodesOf, TypeOK, Nodes
  <2> QED
    BY <1>2, <1>3, <2>1 DEF Untouched
<1>7. << >> \in Seq(Cells) /\ Along(elem', << >>) = << >>
  BY DEF Along
<1>8. /\ WInv' /\ Contents(l)' = << >>
      /\ \A m \in Lists \ {l} : Contents(m)' = Contents(m)
  BY <1>1, <1>5, <1>6, <1>7, StepOn
<1>9. Items' = [Items EXCEPT ![l] = << >>]
  BY <1>8 DEF Items
<1> QED
  BY <1>8, <1>9 DEF Abstract!Next, Abstract!Clear

(* A step which leaves nodes, pointers and elements alone changes no list. *)
LEMMA NothingMoves ==
  ASSUME WInv, IInv', UNCHANGED <<live, next, parent, elem>>
  PROVE  WInv' /\ UNCHANGED Items
<1>1. TypeOK /\ TypeOK' /\ Toured
  BY DEF WInv, IInv
<1>2. \A m \in Lists : Untouched(m)
  BY DEF Untouched, NodesOf
<1>3. ASSUME NEW m \in Lists
      PROVE  Contents(m)' = Contents(m) /\ \E s \in Seq(Cells) : Tour(m, s)'
  <2>1. PICK s \in Seq(Cells) : Tour(m, s)
    BY <1>1 DEF Toured
  <2> QED
    BY <1>1, <1>2, <2>1, OtherList
<1> QED
  BY <1>3 DEF WInv, Toured, Items

(* Lists are constructed empty.                                            *)
LEMMA InitRefines == Init => WInv /\ Abstract!Init
<1> SUFFICES ASSUME Init PROVE WInv /\ Abstract!Init
  OBVIOUS
<1>1. IInv /\ TypeOK
  BY InitIInv DEF IInv
<1>2. ASSUME NEW l \in Lists PROVE Tour(l, << >>) /\ Contents(l) = << >>
  <2>1. NodesOf(l) = {} /\ next[Begin(l)] = End(l)
    BY Addresses DEF Init, NodesOf, Nodes
  <2>2. Tour(l, << >>)
    BY <2>1, TourEmpty
  <2>3. << >> \in Seq(Cells) /\ Along(elem, << >>) = << >>
    BY DEF Along
  <2> QED
    BY <1>1, <2>2, <2>3, TourIsWalk
<1>3. << >> \in Seq(Cells)
  OBVIOUS
<1> QED
  BY <1>1, <1>2, <1>3 DEF WInv, Toured, Abstract!Init, Items

(* Every operation is the one of SeqList it stands for, or changes no list.*)
LEMMA NextRefines ==
  WInv /\ [Next]_vars => WInv' /\ [Abstract!Next]_Items
<1> SUFFICES ASSUME WInv, [Next]_vars
             PROVE  WInv' /\ [Abstract!Next]_Items
  OBVIOUS
<1>1. ASSUME NEW l \in Lists, NEW n \in Nodes, NEW c \in Cells \ live, NEW e \in Elems,
             append(n, l, c, e) \/ prepend(n, l, c, e)
      PROVE  WInv' /\ Abstract!Next
  BY <1>1, appendInserts, prependInserts
<1>2. ASSUME NEW l \in Lists, NEW n \in Nodes, remove_this(n, l)
      PROVE  WInv' /\ Abstract!Next
  BY <1>2, remove_thisTakes
<1>3. ASSUME NEW n \in Nodes, NEW e \in Elems, replace_this(n, e)
      PROVE  WInv' /\ (Abstract!Next \/ UNCHANGED Items)
  BY <1>3, replace_thisExchanges
<1>4. ASSUME NEW l \in Lists, clean(l) PROVE WInv' /\ Abstract!Next
  BY <1>4, cleanClears
<1>5. ASSUME NEW l \in Lists, iterator_at(l)
      PROVE  WInv' /\ UNCHANGED Items
  <2>1. IInv' /\ UNCHANGED <<live, next, parent, elem>>
    BY <1>5, iterator_atIInv DEF WInv, iterator_at
  <2> QED
    BY <2>1, NothingMoves
<1>6. CASE UNCHANGED vars
  <2>1. IInv' /\ UNCHANGED <<live, next, parent, elem>>
    BY <1>6, StutterIInv DEF WInv, vars
  <2> QED
    BY <2>1, NothingMoves
<1> QED
  BY <1>1, <1>2, <1>3, <1>4, <1>5, <1>6 DEF Next

(* RefList implements SeqList: whatever is appended, prepended, removed,   *)
(* replaced and cleaned through modifiers on any node of any list          *)
(* (mtb-reflist.hxx:672-752), the sequence that walking next[] gives has   *)
(* one item put in, taken out or exchanged, is emptied or stays, and no    *)
(* other list moves.                                                       *)
THEOREM RefinesSequence == Spec => ImplementsSequence
<1>1. Spec => [](WInv)
  BY InitRefines, NextRefines, PTL DEF Spec
<1> QED
  BY <1>1, InitRefines, NextRefines, PTL DEF Spec, ImplementsSequence, Abstract!Spec

=============================================================================
