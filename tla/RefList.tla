------------------------------- MODULE RefList -------------------------------
(***************************************************************************)
(* The composed doubly linked list MTB::RefList<ElemT, ItemActionT> of     *)
(* include/base/mtb-reflist.hxx.  It holds the instructions of a basic     *)
(* block, the blocks of a function and the uses of a user.                 *)
(*                                                                         *)
(* Every list owns two sentinel nodes; an item node carries one owned      *)
(* element, its neighbours and the list it was created in.  An element has *)
(* a proxy (RefListProxy) whose self_node is how it finds its own node, to *)
(* insert or remove "around itself".                                       *)
(*                                                                         *)
(* A Modifier is a pair <<n, l>>: the node it stands on and the list whose *)
(* length it updates.  Preprocess callbacks are the ItemActionT of the     *)
(* list.  Instruction's refuse an element which already sits in a list, so *)
(* that is the guard taken here; BlockCFG models what ListAction does in   *)
(* full.  BasicBlock's ActionPred refuses no insertion: FunctionBody says  *)
(* what becomes of a block that is inserted twice.                         *)
(***************************************************************************)
EXTENDS Integers, Sequences, FiniteSets

CONSTANTS
  Lists,      \* the lists
  Elems,      \* the elements they hold
  Cells,      \* addresses the allocator can give an item node
  Null        \* the null pointer

ASSUME NullAssumption ==
  /\ Null \notin Cells \cup Elems \cup Lists \cup ({"begin", "end"} \X Lists)
  /\ Cells \cap ({"begin", "end"} \X Lists) = {}
ASSUME CellsAssumption == IsFiniteSet(Cells)

Begin(l) == <<"begin", l>>
End(l)   == <<"end", l>>
Begins   == {Begin(l) : l \in Lists}
Ends     == {End(l) : l \in Lists}
Nodes    == Cells \cup Begins \cup Ends

VARIABLES
  live,       \* item nodes allocated and not yet deleted
  prev, next, \* Node::prev, Node::next
  parent,     \* Node::parent
  elem,       \* Node::elem
  length,     \* RefList::_length
  self_node   \* RefListProxy::self_node of each element

vars == <<live, prev, next, parent, elem, length, self_node>>

TypeOK ==
  /\ live \subseteq Cells
  /\ prev \in [Nodes -> Nodes \cup {Null}]
  /\ next \in [Nodes -> Nodes \cup {Null}]
  /\ parent \in [Nodes -> Lists \cup {Null}]
  /\ elem \in [Nodes -> Elems \cup {Null}]
  /\ length \in [Lists -> Nat]
  /\ self_node \in [Elems -> Cells \cup {Null}]

ListOf(s) == CHOOSE l \in Lists : s \in {Begin(l), End(l)}

Init ==
  /\ live = {}
  /\ prev = [n \in Nodes |-> IF n \in Ends THEN Begin(ListOf(n)) ELSE Null]
  /\ next = [n \in Nodes |-> IF n \in Begins THEN End(ListOf(n)) ELSE Null]
  /\ parent = [n \in Nodes |-> IF n \in Cells THEN Null ELSE ListOf(n)]
  /\ elem = [n \in Nodes |-> Null]
  /\ length = [l \in Lists |-> 0]
  /\ self_node = [e \in Elems |-> Null]

-----------------------------------------------------------------------------
empty(l) == next[Begin(l)] = End(l)

Placed(e) == \E n \in live : elem[n] = e

(* The item nodes of list l. *)
NodesOf(l) == {n \in live : parent[n] = l}

(* The modifiers a client can hold: on a node of l, or on its sentinels.   *)
Modifier(n, l) ==
  \/ n \in live /\ parent[n] = l
  \/ n \in {Begin(l), End(l), next[Begin(l)], prev[End(l)]}

(* Mutants of Link: q keeps its old neighbour; the length is not counted.  *)
LinkOneWay(c, p, q, e, l) ==
  /\ live' = live \cup {c}
  /\ prev' = [prev EXCEPT ![c] = p]
  /\ next' = [next EXCEPT ![c] = q, ![p] = c]
  /\ elem' = [elem EXCEPT ![c] = e]
  /\ self_node' = [self_node EXCEPT ![e] = c]
  /\ length' = [length EXCEPT ![l] = @ + 1]

LinkUncounted(c, p, q, e, l) ==
  /\ live' = live \cup {c}
  /\ prev' = [prev EXCEPT ![c] = p, ![q] = c]
  /\ next' = [next EXCEPT ![c] = q, ![p] = c]
  /\ elem' = [elem EXCEPT ![c] = e]
  /\ self_node' = [self_node EXCEPT ![e] = c]
  /\ UNCHANGED length

(* new Node{p, q, p->parent, e} linked between the neighbours p and q.     *)
Link(c, p, q, e, l) ==
  /\ live' = live \cup {c}
  /\ prev' = [prev EXCEPT ![c] = p, ![q] = c]
  /\ next' = [next EXCEPT ![c] = q, ![p] = c]
  /\ elem' = [elem EXCEPT ![c] = e]
  /\ self_node' = [self_node EXCEPT ![e] = c]
  /\ length' = [length EXCEPT ![l] = @ + 1]

(* Mutant of append: no preprocess callback refuses a listed element.      *)
appendListed(n, l, c, e) ==
  /\ Modifier(n, l)
  /\ next[n] # Null
  /\ Link(c, n, next[n], e, l)
  /\ parent' = [parent EXCEPT ![c] = parent[n]]

(* Modifier::append; RefList::append is this on nodeof_back().             *)
append(n, l, c, e) ==
  /\ Modifier(n, l)
  /\ next[n] # Null
  /\ ~Placed(e)
  /\ Link(c, n, next[n], e, l)
  /\ parent' = [parent EXCEPT ![c] = parent[n]]

(* Modifier::prepend; RefList::prepend is this on the front node.          *)
prepend(n, l, c, e) ==
  /\ Modifier(n, l)
  /\ prev[n] # Null
  /\ ~Placed(e)
  /\ Link(c, prev[n], n, e, l)
  /\ parent' = [parent EXCEPT ![c] = parent[n]]

(* Modifier::remove_this (pop_front and pop_back are this on an end).      *)
remove_this(n, l) ==
  /\ n \in live /\ Modifier(n, l)
  /\ next' = [next EXCEPT ![prev[n]] = next[n], ![n] = Null]
  /\ prev' = [prev EXCEPT ![next[n]] = prev[n], ![n] = Null]
  /\ self_node' = [self_node EXCEPT ![elem[n]] = Null]
  /\ elem' = [elem EXCEPT ![n] = Null]
  /\ parent' = [parent EXCEPT ![n] = Null]
  /\ live' = live \ {n}
  /\ length' = [length EXCEPT ![l] = @ - 1]

(* Modifier::replace_this: the owned reference in the node is exchanged,   *)
(* no proxy is touched.                                                    *)
replace_this(n, e) ==
  /\ n \in live
  /\ ~Placed(e)
  /\ elem' = [elem EXCEPT ![n] = e]
  /\ UNCHANGED <<live, prev, next, parent, length, self_node>>

(* RefList::clean: every item node is deleted and the sentinels joined.    *)
(* Elements other owners keep alive still have their old self_node, and    *)
(* _length is not written.                                                 *)
clean(l) ==
  /\ NodesOf(l) # {}
  /\ live' = live \ NodesOf(l)
  /\ next' = [n \in Nodes |-> IF n = Begin(l) THEN End(l)
                              ELSE IF n \in NodesOf(l) THEN Null ELSE next[n]]
  /\ prev' = [n \in Nodes |-> IF n = End(l) THEN Begin(l)
                              ELSE IF n \in NodesOf(l) THEN Null ELSE prev[n]]
  /\ elem' = [n \in Nodes |-> IF n \in NodesOf(l) THEN Null ELSE elem[n]]
  /\ parent' = [n \in Nodes |-> IF n \in NodesOf(l) THEN Null ELSE parent[n]]
  /\ UNCHANGED <<length, self_node>>

(* iterator_at(index) beyond the last item but below _length: the walk     *)
(* meets the end sentinel, stores the number of items it saw and throws.   *)
(* On every other index it changes nothing.                                *)
iterator_at(l) ==
  /\ ~empty(l)
  /\ Cardinality(NodesOf(l)) < length[l]
  /\ length' = [length EXCEPT ![l] = Cardinality(NodesOf(l))]
  /\ UNCHANGED <<live, prev, next, parent, elem, self_node>>

Next ==
  \/ \E l \in Lists, n \in Nodes, c \in Cells \ live, e \in Elems :
       append(n, l, c, e) \/ prepend(n, l, c, e)
  \/ \E l \in Lists, n \in Nodes : remove_this(n, l)
  \/ \E n \in Nodes, e \in Elems : replace_this(n, e)
  \/ \E l \in Lists : clean(l) \/ iterator_at(l)

Spec == Init /\ [][Next]_vars

-----------------------------------------------------------------------------
(* Iteration: stop number k of a walk from the begin sentinel over the     *)
(* nodes of s to the end sentinel, and what it means that next[] leads     *)
(* along it.                                                               *)
Stop(l, s, k) ==
  IF k = 0 THEN Begin(l) ELSE IF k = Len(s) + 1 THEN End(l) ELSE s[k]

Walks(l, s) == \A k \in 0 .. Len(s) : next[Stop(l, s, k)] = Stop(l, s, k + 1)

Walk(l) ==
  CHOOSE s \in [1 .. Cardinality(NodesOf(l)) -> NodesOf(l)] : Walks(l, s)

Contents(l) == [k \in DOMAIN Walk(l) |-> elem[Walk(l)[k]]]

Items == [l \in Lists |-> Contents(l)]

Abstract == INSTANCE SeqList WITH items <- Items

(***************************************************************************)
(* ImplementsSequence: walking the pointers visits every item of the list  *)
(* once, and an operation of RefList does to the sequence so walked one of *)
(* the things SeqList allows, an insertion, removal, exchange or clearing, *)
(* in one list and in no other.  Which of them, and at which place, is not *)
(* said: SeqList leaves both open.                                         *)
(***************************************************************************)
ImplementsSequence == Abstract!Spec

(* Every forward pointer has its backward pointer, inside one list.        *)
ForwardLinked ==
  \A n \in live \cup Begins :
    /\ next[n] \in live \cup Ends
    /\ prev[next[n]] = n
    /\ parent[next[n]] = parent[n]

BackwardLinked ==
  \A n \in live \cup Ends :
    /\ prev[n] \in live \cup Begins
    /\ next[prev[n]] = n
    /\ parent[prev[n]] = parent[n]

SentinelsEnd ==
  \A l \in Lists :
    /\ prev[Begin(l)] = Null /\ next[End(l)] = Null
    /\ parent[Begin(l)] = l  /\ parent[End(l)] = l

(***************************************************************************)
(* DoublyLinked: after any sequence of insertions, removals, replacements  *)
(* and clean() the two pointer directions of mtb-reflist.hxx agree, and no *)
(* pointer reaches a deleted node or crosses into another list.            *)
(***************************************************************************)
DoublyLinked == ForwardLinked /\ BackwardLinked /\ SentinelsEnd

(***************************************************************************)
(* LengthCovers: _length never drops below the number of items (it may be  *)
(* too large after clean()), so iterator_at never refuses the index of an  *)
(* item it holds and _length-- never wraps around zero.                    *)
(***************************************************************************)
LengthCovers == \A l \in Lists : Cardinality(NodesOf(l)) <= length[l]

(***************************************************************************)
(* SelfIterator: "an element can quickly make an iterator that points to   *)
(* itself from its own address" (mtb-reflist.hxx:39): the proxy of a       *)
(* listed element is its node, and that of an unlisted one is null.        *)
(***************************************************************************)
SelfIterator ==
  \A e \in Elems :
    self_node[e] # Null => self_node[e] \in live /\ elem[self_node[e]] = e

(***************************************************************************)
(* LengthExact: get_length() is the number of elements in the list, as the *)
(* text of the exception iterator_at throws says (mtb-reflist.hxx:631).    *)
(***************************************************************************)
LengthExact == \A l \in Lists : Cardinality(NodesOf(l)) = length[l]
=============================================================================
