---------------------------- MODULE BackendProofs ----------------------------
(***************************************************************************)
(* Proofs about the two register allocators and the mem2reg pass, for any  *)
(* number of registers and any function:                                   *)
(*   - the colouring gives nodes that interfere different registers, and   *)
(*     spills only nodes with a crowd of neighbours, in any graph;         *)
(*   - the linear scan never gives one register to two variables that live *)
(*     at the same time, for any variables;                                *)
(*   - the pass leaves a function that LLVM accepts, in one round.         *)
(***************************************************************************)
EXTENDS Coloring, LinearScan, Mem2Reg, SequenceFacts, FiniteSetTheorems

-----------------------------------------------------------------------------
(* The colouring.                                                          *)

Typed ==
  /\ adjList \in [Nodes -> SUBSET Nodes]
  /\ node_color \in [Nodes -> Colors \cup {None, Spilled}]
  /\ stk \in Seq(Entry)
  /\ index \in 0 .. NodeNum

(* A node is on the stack once, and while simplify deletes, exactly those  *)
(* before index are there.                                                 *)
Stacked ==
  /\ \A i, j \in 1 .. Len(stk) : stk[i].node = stk[j].node => i = j
  /\ pc \in {"build", "done"} => stk = << >>
  /\ pc = "build" => index = 0
  /\ pc = "simplify" => \A n \in Nodes : OnStack(n) <=> n < index

(* Two nodes in registers that interfere: if neither is on the stack, they *)
(* are neighbours; else the lower of the two there has the other recorded. *)
Kept ==
  \A u, v \in Nodes :
    Conflict(u, v) /\ ~InMemory(u) /\ ~InMemory(v) =>
      /\ ~OnStack(u) /\ ~OnStack(v) => v \in adjList[u]
      /\ \A i \in 1 .. Len(stk) :
           stk[i].node = u /\ (\A j \in 1 .. i - 1 : stk[j].node # v) =>
             v \in stk[i].neighbors

(* The nodes that select has popped are coloured, properly.                *)
Selected ==
  /\ \A n \in Nodes : ~OnStack(n) => node_color[n] \in Colors \cup {Spilled}
  /\ \A u, v \in Nodes :
       /\ Conflict(u, v) /\ ~InMemory(u) /\ ~InMemory(v)
       /\ ~OnStack(u) /\ ~OnStack(v)
       => node_color[u] # node_color[v]

ColoringInv ==
  /\ Typed /\ Stacked
  /\ pc # "build" => Kept
  /\ pc \in {"select", "done"} => Selected

-----------------------------------------------------------------------------
(* Interference is a matter of the input.                                  *)
LEMMA ConflictStays ==
  ASSUME live' = live
  PROVE  \A u, v : Conflict(u, v)' <=> Conflict(u, v)
BY DEF Conflict, Edge

(* What is on the stack is a node with nodes.                              *)
LEMMA EntryTyped ==
  ASSUME Typed, NEW i \in 1 .. Len(stk)
  PROVE  stk[i] \in Entry /\ stk[i].node \in Nodes /\ stk[i].neighbors \subseteq Nodes
<1>1. stk[i] \in Entry
  BY ElementOfSeq DEF Typed
<1> QED
  BY <1>1 DEF Entry

(* What is left when the top is popped.                                    *)
LEMMA Popped ==
  ASSUME Typed, Stacked, stk # << >>, pop_stk
  PROVE  /\ Len(stk) \in Nat \ {0} /\ top = stk[Len(stk)]
         /\ top.node \in Nodes /\ top.neighbors \subseteq Nodes
         /\ stk' \in Seq(Entry) /\ Len(stk') = Len(stk) - 1
         /\ \A i \in 1 .. Len(stk) - 1 : stk'[i] = stk[i]
         /\ \A n \in Nodes : OnStack(n)' <=> OnStack(n) /\ n # top.node
         /\ \A i, j \in 1 .. Len(stk') : stk'[i].node = stk'[j].node => i = j
<1>1. stk \in Seq(Entry)
  BY DEF Typed
<1>2. Len(stk) \in Nat \ {0} /\ top = stk[Len(stk)]
  BY <1>1 DEF top
<1>3. top.node \in Nodes /\ top.neighbors \subseteq Nodes
  BY <1>2, EntryTyped
<1>4. /\ stk' \in Seq(Entry) /\ Len(stk') = Len(stk) - 1
      /\ \A i \in 1 .. Len(stk) - 1 : stk'[i] = stk[i]
  <2>1. \A i \in 1 .. Len(stk) - 1 : stk[i] \in Entry
    BY <1>2, EntryTyped
  <2>2. 1 \in Int /\ Len(stk) - 1 \in Int
    BY <1>2
  <2> DEFINE l == Len(stk) - 1
             p == SubSeq(stk, 1, l)
  <2>3. l \in Nat /\ stk' = p
    BY <1>2 DEF pop_stk
  <2>4. /\ p \in Seq(Entry) /\ Len(p) = (IF 1 <= l THEN l - 1 + 1 ELSE 0)
        /\ \A i \in 1 .. l - 1 + 1 : p[i] = stk[1 + i - 1]
    BY <2>1, <2>2, SubSeqProperties
  <2> HIDE DEF l, p
  <2>5. l - 1 + 1 = l /\ Len(p) = l
    BY <2>3, <2>4
  <2>6. \A i \in 1 .. l : p[i] = stk[i]
    BY <2>3, <2>4, <2>5
  <2> QED
    BY <2>3, <2>4, <2>5, <2>6 DEF l
<1>5. ASSUME NEW n \in Nodes PROVE OnStack(n)' <=> OnStack(n) /\ n # top.node
  <2>1. ASSUME OnStack(n)' PROVE OnStack(n) /\ n # top.node
    <3>1. PICK i \in 1 .. Len(stk') : stk'[i].node = n
      BY <2>1 DEF OnStack
    <3>2. i \in 1 .. Len(stk) /\ stk[i].node = n /\ i # Len(stk) /\ Len(stk) \in 1 .. Len(stk)
      BY <3>1, <1>2, <1>4
    <3> QED
      BY <3>2, <1>2 DEF OnStack, Stacked
  <2>2. ASSUME OnStack(n), n # top.node PROVE OnStack(n)'
    <3>1. PICK i \in 1 .. Len(stk) : stk[i].node = n
      BY <2>2 DEF OnStack
    <3>2. i \in 1 .. Len(stk')
      BY <3>1, <2>2, <1>2, <1>4
    <3> QED
      BY <3>1, <3>2, <1>4 DEF OnStack
  <2> QED
    BY <2>1, <2>2
<1>6. ASSUME NEW i \in 1 .. Len(stk'), NEW j \in 1 .. Len(stk'), stk'[i].node = stk'[j].node
      PROVE  i = j
  <2>1. i \in 1 .. Len(stk) /\ j \in 1 .. Len(stk) /\ stk[i].node = stk[j].node
    BY <1>6, <1>2, <1>4
  <2> QED
    BY <2>1 DEF Stacked
<1> QED
  BY <1>2, <1>3, <1>4, <1>5, <1>6

(* A pop gives a node that is not spilled its neighbours back.             *)
LEMMA PopKeeps ==
  ASSUME Typed, Stacked, Kept, stk # << >>, pop_stk, live' = live,
         \/ adjList' = Restored(top)
         \/ /\ node_color'[top.node] = Spilled
            /\ adjList' = [Restored(top) EXCEPT ![top.node] = {}],
         \A n \in Nodes : InMemory(n) => InMemory(n)'
  PROVE  Kept' /\ adjList' \in [Nodes -> SUBSET Nodes]
<1> DEFINE adj == Restored(top)
<1>0. PICK t : t = top.node
  OBVIOUS
<1>1. /\ Len(stk) \in Nat \ {0} /\ top = stk[Len(stk)] /\ t \in Nodes /\ top.neighbors \subseteq Nodes
      /\ Len(stk') = Len(stk) - 1
      /\ \A i \in 1 .. Len(stk) - 1 : stk'[i] = stk[i]
      /\ \A n \in Nodes : OnStack(n)' <=> OnStack(n) /\ n # t
  BY <1>0, Popped
<1>2. /\ adj \in [Nodes -> SUBSET Nodes]
      /\ \A u \in Nodes : adjList[u] \subseteq adj[u]
      /\ \A u \in top.neighbors : t \in adj[u] /\ u \in adj[t]
  BY <1>0, <1>1 DEF Restored, Typed
<1> HIDE DEF adj
<1>3. adjList' \in [Nodes -> SUBSET Nodes] /\ \A u \in Nodes : u # t \/ ~InMemory(t)' => adjList'[u] = adj[u]
  BY <1>0, <1>1, <1>2 DEF adj, InMemory
<1> SUFFICES ASSUME NEW u \in Nodes, NEW v \in Nodes,
                    Conflict(u, v), ~InMemory(u)', ~InMemory(v)'
             PROVE  /\ ~OnStack(u)' /\ ~OnStack(v)' => v \in adjList'[u]
                    /\ \A i \in 1 .. Len(stk') :
                         stk'[i].node = u /\ (\A j \in 1 .. i - 1 : stk'[j].node # v) =>
                           v \in stk'[i].neighbors
  BY <1>3, ConflictStays DEF Kept
<1>4. ~InMemory(u) /\ ~InMemory(v) /\ u # v /\ Conflict(v, u)
  BY DEF Conflict
<1>5. ASSUME NEW i \in 1 .. Len(stk'), stk'[i].node = u, \A j \in 1 .. i - 1 : stk'[j].node # v
      PROVE  v \in stk'[i].neighbors
  <2>1. i \in 1 .. Len(stk) /\ stk'[i] = stk[i] /\ \A j \in 1 .. i - 1 : stk'[j] = stk[j]
    BY <1>1, <1>5
  <2>2. \A j \in 1 .. i - 1 : stk[j].node # v
    BY <2>1, <1>5
  <2> QED
    BY <2>1, <2>2, <1>4, <1>5 DEF Kept
<1>6. ASSUME NEW w \in Nodes, Conflict(t, w), ~InMemory(t), ~InMemory(w), ~OnStack(w)'
      PROVE  w \in top.neighbors
  <2>1. w # t /\ ~OnStack(w)
    BY <1>1, <1>6 DEF Conflict
  <2>2. Len(stk) \in 1 .. Len(stk) /\ \A j \in 1 .. Len(stk) - 1 : stk[j].node # w
    BY <2>1, <1>1 DEF OnStack
  <2> QED
    BY <2>2, <1>0, <1>1, <1>6 DEF Kept
<1>7. ASSUME ~OnStack(u)', ~OnStack(v)' PROVE v \in adjList'[u]
  <2>1. adjList'[u] = adj[u]
    BY <1>3 DEF InMemory
  <2>2. CASE u = t \/ v = t
    BY <2>1, <2>2, <1>2, <1>4, <1>6, <1>7
  <2>3. CASE u # t /\ v # t
    BY <2>1, <2>3, <1>1, <1>2, <1>4, <1>7 DEF Kept
  <2> QED
    BY <2>2, <2>3
<1> QED
  BY <1>5, <1>7

-----------------------------------------------------------------------------
(* Nothing is on the stack at first.                                       *)
LEMMA ColoringInit ==
  ASSUME Init
  PROVE  ColoringInv
BY NumbersAssumption DEF Init, ColoringInv, Typed, Stacked, Nodes, Entry

(* The graph has every interference, in both directions.                   *)
LEMMA BuildKeeps ==
  ASSUME ColoringInv, build
  PROVE  ColoringInv'
<1>1. /\ pc = "build" /\ pc' = "simplify" /\ live' = live
      /\ UNCHANGED <<node_color, stk, index>>
      /\ adjList' = [u \in Nodes |-> {v \in Nodes : Edge(u, v) \/ Edge(v, u)}]
  BY DEF build
<1>2. stk = << >> /\ index = 0 /\ stk' = << >>
  BY <1>1 DEF ColoringInv, Stacked
<1>3. Typed'
  BY <1>1 DEF ColoringInv, Typed
<1>4. Stacked'
  BY <1>1, <1>2 DEF Stacked, OnStack, Nodes
<1>5. Kept'
  <2> SUFFICES ASSUME NEW u \in Nodes, NEW v \in Nodes, Conflict(u, v)
               PROVE  v \in adjList'[u]
    BY <1>1, <1>2, ConflictStays DEF Kept
  <2> QED
    BY <1>1 DEF Conflict
<1> QED
  BY <1>1, <1>3, <1>4, <1>5 DEF ColoringInv

(* A deleted node takes its neighbours onto the stack with it.             *)
LEMMA SimplifyKeeps ==
  ASSUME ColoringInv, simplify
  PROVE  ColoringInv'
<1>0. PICK n : n = index
  OBVIOUS
<1> DEFINE e == [node |-> n, neighbors |-> adjList[n]]
<1>1. /\ pc = "simplify" /\ n < NodeNum /\ index' = n + 1 /\ live' = live
      /\ UNCHANGED <<node_color, pc>>
      /\ stk' = Append(stk, e)
      /\ adjList' = [u \in Nodes |-> IF u = n THEN {} ELSE adjList[u] \ {n}]
  BY <1>0 DEF simplify, delete_node
<1>2. /\ adjList \in [Nodes -> SUBSET Nodes] /\ stk \in Seq(Entry) /\ index \in 0 .. NodeNum
      /\ node_color \in [Nodes -> Colors \cup {None, Spilled}]
      /\ Typed /\ Stacked /\ Kept /\ NodeNum \in Nat
  BY <1>1, NumbersAssumption DEF ColoringInv, Typed
<1>3. n \in Nodes /\ ~OnStack(n) /\ index' \in 0 .. NodeNum
  BY <1>0, <1>1, <1>2 DEF Nodes, Stacked
<1>4. e \in Entry /\ e.node = n /\ e.neighbors = adjList[n]
  BY <1>2, <1>3 DEF Entry
<1> HIDE DEF e
<1>5. /\ stk' \in Seq(Entry) /\ Len(stk') = Len(stk) + 1 /\ Len(stk) \in Nat
      /\ stk'[Len(stk) + 1] = e /\ \A i \in 1 .. Len(stk) : stk'[i] = stk[i]
  BY <1>1, <1>2, <1>4
<1>6. Typed'
  BY <1>1, <1>2, <1>3, <1>5 DEF Typed
<1>7. \A u \in Nodes : OnStack(u)' <=> OnStack(u) \/ u = n
  <2>1. ASSUME NEW u \in Nodes, OnStack(u) PROVE OnStack(u)'
    <3>1. PICK i \in 1 .. Len(stk) : stk[i].node = u
      BY <2>1 DEF OnStack
    <3>2. i \in 1 .. Len(stk') /\ stk'[i].node = u
      BY <3>1, <1>5
    <3> QED
      BY <3>2 DEF OnStack
  <2>2. OnStack(n)'
    <3>1. Len(stk) + 1 \in 1 .. Len(stk') /\ stk'[Len(stk) + 1].node = n
      BY <1>4, <1>5
    <3> QED
      BY <3>1 DEF OnStack
  <2>3. ASSUME NEW u \in Nodes, OnStack(u)' PROVE OnStack(u) \/ u = n
    <3>1. PICK i \in 1 .. Len(stk') : stk'[i].node = u
      BY <2>3 DEF OnStack
    <3>2. CASE i \in 1 .. Len(stk)
      BY <3>1, <3>2, <1>5 DEF OnStack
    <3>3. CASE i = Len(stk) + 1
      BY <3>1, <3>3, <1>4, <1>5
    <3> QED
      BY <3>2, <3>3, <1>5
  <2>4. ASSUME NEW u \in Nodes, u = n PROVE OnStack(u)'
    BY <2>2, <2>4 DEF OnStack
  <2> QED
    BY <2>1, <2>3, <2>4
<1>8. Stacked'
  <2>1. ASSUME NEW i \in 1 .. Len(stk'), NEW j \in 1 .. Len(stk'), stk'[i].node = stk'[j].node
        PROVE  i = j
    <3>1. ASSUME NEW k \in 1 .. Len(stk) PROVE stk'[k].node = stk[k].node /\ stk'[k].node # n
      BY <3>1, <1>3, <1>5 DEF OnStack
    <3>2. CASE i \in 1 .. Len(stk) /\ j \in 1 .. Len(stk)
      BY <3>1, <3>2, <2>1, <1>2 DEF Stacked
    <3>3. CASE i \notin 1 .. Len(stk) \/ j \notin 1 .. Len(stk)
      <4>1. \A k \in 1 .. Len(stk') : k \notin 1 .. Len(stk) => k = Len(stk) + 1
        BY <1>5
      <4>2. stk'[Len(stk) + 1].node = n
        BY <1>4, <1>5
      <4> QED
        BY <3>1, <3>3, <4>1, <4>2, <2>1
    <3> QED
      BY <3>2, <3>3
  <2>2. \A u \in Nodes : OnStack(u)' <=> u < index'
    <3>1. \A u \in Nodes : OnStack(u) <=> u < n
      BY <1>0, <1>1, <1>2 DEF Stacked
    <3>2. \A u \in Nodes : u < n + 1 <=> u < n \/ u = n
      BY <1>0, <1>2 DEF Nodes
    <3> QED
      BY <3>1, <3>2, <1>1, <1>7
  <2> QED
    BY <2>1, <2>2, <1>1 DEF Stacked
<1>9. Kept'
  <2> SUFFICES ASSUME NEW u \in Nodes, NEW v \in Nodes,
                      Conflict(u, v), ~InMemory(u), ~InMemory(v)
               PROVE  /\ ~OnStack(u)' /\ ~OnStack(v)' => v \in adjList'[u]
                      /\ \A i \in 1 .. Len(stk') :
                           stk'[i].node = u /\ (\A j \in 1 .. i - 1 : stk'[j].node # v) =>
                             v \in stk'[i].neighbors
    BY <1>1, ConflictStays DEF Kept, InMemory
  <2>1. /\ ~OnStack(u) /\ ~OnStack(v) => v \in adjList[u]
        /\ \A i \in 1 .. Len(stk) :
             stk[i].node = u /\ (\A j \in 1 .. i - 1 : stk[j].node # v) => v \in stk[i].neighbors
    BY <1>2 DEF Kept
  <2>2. ~OnStack(u)' /\ ~OnStack(v)' => v \in adjList'[u]
    BY <2>1, <1>1, <1>2, <1>7
  <2>3. ASSUME NEW i \in 1 .. Len(stk'), stk'[i].node = u, \A j \in 1 .. i - 1 : stk'[j].node # v
        PROVE  v \in stk'[i].neighbors
    <3>1. CASE i \in 1 .. Len(stk)
      <4>1. \A j \in 1 .. i - 1 : j \in 1 .. Len(stk)
        BY <3>1, <1>5
      <4>2. stk[i].node = u /\ stk'[i] = stk[i] /\ \A j \in 1 .. i - 1 : stk[j].node # v
        BY <3>1, <4>1, <2>3, <1>5
      <4> QED
        BY <3>1, <4>2, <2>1
    <3>2. CASE i = Len(stk) + 1
      <4>1. u = n /\ stk'[i].neighbors = adjList[n]
        BY <3>2, <2>3, <1>4, <1>5
      <4>2. ASSUME NEW j \in 1 .. Len(stk) PROVE stk[j].node # v
        BY <3>2, <2>3, <1>5
      <4> QED
        BY <4>1, <4>2, <2>1, <1>3 DEF OnStack
    <3> QED
      BY <3>1, <3>2, <1>5
  <2> QED
    BY <2>2, <2>3
<1> QED
  BY <1>1, <1>6, <1>8, <1>9 DEF ColoringInv

(* All nodes are on the stack when select begins.                          *)
LEMMA CoalesceKeeps ==
  ASSUME ColoringInv, coalesce
  PROVE  ColoringInv'
<1>1. /\ pc = "simplify" /\ index = NodeNum /\ pc' = "select" /\ live' = live
      /\ UNCHANGED <<adjList, node_color, stk, index>>
  BY DEF coalesce
<1>2. Typed /\ Stacked /\ Kept
  BY <1>1 DEF ColoringInv
<1>3. \A n \in Nodes : OnStack(n) /\ (OnStack(n)' <=> OnStack(n))
  BY <1>1, <1>2, NumbersAssumption DEF Stacked, Nodes, OnStack
<1>4. Selected'
  BY <1>3 DEF Selected
<1>5. Typed'
  BY <1>1, <1>2 DEF Typed
<1>6. Stacked'
  BY <1>1, <1>2 DEF Stacked
<1>7. Kept'
  BY <1>1, <1>2, <1>3, ConflictStays DEF Kept, InMemory
<1> QED
  BY <1>4, <1>5, <1>6, <1>7 DEF ColoringInv

(* The colour chosen is no neighbour's.                                    *)
LEMMA ChooseKeeps ==
  ASSUME ColoringInv, choose
  PROVE  ColoringInv'
<1> DEFINE adj == Restored(top)
<1>0. PICK n : n = top.node
  OBVIOUS
<1>1. /\ pc = "select" /\ stk # << >> /\ pop_stk /\ adjList' = adj
      /\ UNCHANGED <<live, pc, index>>
      /\ \/ node_color[n] = Spilled /\ UNCHANGED node_color
         \/ node_color[n] # Spilled /\ \E c \in Free(n, adj) : node_color' = [node_color EXCEPT ![n] = c]
  BY <1>0 DEF choose, LeastFree
<1>2. Typed /\ Stacked /\ Kept /\ Selected
  BY <1>1 DEF ColoringInv
<1>3. /\ n \in Nodes /\ stk' \in Seq(Entry)
      /\ \A u \in Nodes : OnStack(u)' <=> OnStack(u) /\ u # n
      /\ \A i, j \in 1 .. Len(stk') : stk'[i].node = stk'[j].node => i = j
  BY <1>0, <1>1, <1>2, Popped
<1>4. /\ node_color' \in [Nodes -> Colors \cup {None, Spilled}]
      /\ \A u \in Nodes : u # n => node_color'[u] = node_color[u]
      /\ \A u \in Nodes : InMemory(u)' <=> InMemory(u)
      /\ node_color'[n] \in Colors \cup {Spilled}
      /\ ~InMemory(n) => \A u \in adj[n] : node_color[u] # node_color'[n]
  <2>1. node_color \in [Nodes -> Colors \cup {None, Spilled}] /\ Spilled \notin Colors
    BY <1>2 DEF Typed, Spilled, Colors
  <2>2. CASE node_color[n] = Spilled /\ UNCHANGED node_color
    BY <2>1, <2>2 DEF InMemory
  <2>3. CASE node_color[n] # Spilled /\ \E c \in Free(n, adj) : node_color' = [node_color EXCEPT ![n] = c]
    <3>1. PICK c \in Free(n, adj) : node_color' = [node_color EXCEPT ![n] = c]
      BY <2>3
    <3>2. c \in Colors /\ \A u \in adj[n] : node_color[u] # c
      BY DEF Free
    <3> HIDE DEF adj
    <3> QED
      BY <2>1, <2>3, <3>1, <3>2, <1>3 DEF InMemory
  <2> QED
    BY <2>2, <2>3, <1>1
<1>5. Kept' /\ adjList' \in [Nodes -> SUBSET Nodes]
  BY <1>1, <1>2, <1>4, PopKeeps
<1>6. Typed'
  BY <1>1, <1>2, <1>3, <1>4, <1>5 DEF Typed
<1>7. Stacked'
  BY <1>1, <1>3 DEF Stacked
<1> HIDE DEF adj
<1>8. Selected'
  <2>1. ASSUME NEW u \in Nodes, ~OnStack(u)' PROVE node_color'[u] \in Colors \cup {Spilled}
    BY <2>1, <1>2, <1>3, <1>4 DEF Selected
  <2>2. ASSUME NEW u \in Nodes, Conflict(n, u), ~InMemory(n), ~InMemory(u), ~OnStack(u)'
        PROVE  node_color'[n] # node_color'[u]
    <3>1. u # n /\ ~OnStack(n)'
      BY <2>2, <1>3 DEF Conflict
    <3>2. u \in adjList'[n]
      BY <2>2, <3>1, <1>1, <1>3, <1>4, <1>5, ConflictStays DEF Kept
    <3> QED
      BY <3>1, <3>2, <2>2, <1>1, <1>4
  <2>3. ASSUME NEW u \in Nodes, NEW v \in Nodes, Conflict(u, v), ~InMemory(u), ~InMemory(v),
               ~OnStack(u)', ~OnStack(v)'
        PROVE  node_color'[u] # node_color'[v]
    <3>1. CASE u = n
      BY <3>1, <2>2, <2>3
    <3>2. CASE v = n
      <4>1. Conflict(v, u)
        BY <2>3 DEF Conflict
      <4> QED
        BY <3>2, <4>1, <2>2, <2>3
    <3>3. CASE u # n /\ v # n
      BY <3>3, <2>3, <1>2, <1>3, <1>4 DEF Selected
    <3> QED
      BY <3>1, <3>2, <3>3
  <2> QED
    BY <2>1, <2>3, <1>1, <1>4, ConflictStays DEF Selected
<1> QED
  BY <1>1, <1>5, <1>6, <1>7, <1>8 DEF ColoringInv

(* A spilled node need not keep its neighbours.                            *)
LEMMA SpillKeeps ==
  ASSUME ColoringInv, spill
  PROVE  ColoringInv'
<1>0. PICK n : n = top.node
  OBVIOUS
<1>1. /\ pc = "select" /\ stk # << >> /\ pop_stk /\ pc' = "rewrite" /\ UNCHANGED <<live, index>>
      /\ node_color' = [node_color EXCEPT ![n] = Spilled]
      /\ adjList' = [Restored(top) EXCEPT ![n] = {}]
  BY <1>0 DEF spill
<1>2. Typed /\ Stacked /\ Kept
  BY <1>1 DEF ColoringInv
<1>3. /\ n \in Nodes /\ stk' \in Seq(Entry)
      /\ \A i, j \in 1 .. Len(stk') : stk'[i].node = stk'[j].node => i = j
  BY <1>0, <1>1, <1>2, Popped
<1>4. /\ node_color' \in [Nodes -> Colors \cup {None, Spilled}] /\ node_color'[n] = Spilled
      /\ \A u \in Nodes : InMemory(u) => InMemory(u)'
  BY <1>1, <1>2, <1>3 DEF Typed, InMemory
<1>5. Kept' /\ adjList' \in [Nodes -> SUBSET Nodes]
  BY <1>0, <1>1, <1>2, <1>4, PopKeeps
<1>6. Typed'
  BY <1>1, <1>2, <1>3, <1>4, <1>5 DEF Typed
<1>7. Stacked'
  BY <1>1, <1>3 DEF Stacked
<1> QED
  BY <1>1, <1>5, <1>6, <1>7 DEF ColoringInv

(* The rest of the stack goes back into the graph.                         *)
LEMMA RewriteKeeps ==
  ASSUME ColoringInv, rewrite
  PROVE  ColoringInv'
<1>1. /\ pc = "rewrite" /\ stk # << >> /\ pop_stk /\ adjList' = Restored(top)
      /\ UNCHANGED <<live, node_color, pc, index>>
  BY DEF rewrite
<1>2. Typed /\ Stacked /\ Kept
  BY <1>1 DEF ColoringInv
<1>3. /\ stk' \in Seq(Entry)
      /\ \A i, j \in 1 .. Len(stk') : stk'[i].node = stk'[j].node => i = j
  BY <1>1, <1>2, Popped
<1>4. \A u \in Nodes : InMemory(u) => InMemory(u)'
  BY <1>1 DEF InMemory
<1>5. Kept' /\ adjList' \in [Nodes -> SUBSET Nodes]
  BY <1>1, <1>2, <1>4, PopKeeps
<1>6. Typed'
  BY <1>1, <1>2, <1>3, <1>5 DEF Typed
<1>7. Stacked'
  BY <1>1, <1>3 DEF Stacked
<1> QED
  BY <1>1, <1>5, <1>6, <1>7 DEF ColoringInv

(* Only the phase changes, with an empty stack.                            *)
LEMMA TurnKeeps ==
  ASSUME ColoringInv, finish \/ again \/ UNCHANGED vars
  PROVE  ColoringInv'
<1>1. UNCHANGED <<live, adjList, node_color, stk>>
  BY DEF finish, again, vars
<1>2. /\ \A n \in Nodes : OnStack(n)' <=> OnStack(n)
      /\ \A n \in Nodes : InMemory(n)' <=> InMemory(n)
  BY <1>1 DEF OnStack, InMemory
<1>3. Kept => Kept'
  BY <1>1, <1>2, ConflictStays DEF Kept
<1>4. Selected => Selected'
  BY <1>1, <1>2, ConflictStays DEF Selected
<1>5. index' \in 0 .. NodeNum
  BY NumbersAssumption DEF finish, again, vars, ColoringInv, Typed
<1>6. Typed'
  BY <1>1, <1>5 DEF ColoringInv, Typed
<1>7. CASE finish
  BY <1>1, <1>3, <1>4, <1>6, <1>7 DEF finish, ColoringInv, Stacked
<1>8. CASE again
  <2>1. \A n \in Nodes : ~OnStack(n)' /\ ~(n < index')
    BY <1>2, <1>8, NumbersAssumption DEF again, OnStack, Nodes
  <2>2. Stacked'
    BY <2>1, <1>8 DEF again, Stacked
  <2> QED
    BY <2>2, <1>3, <1>6, <1>8 DEF again, ColoringInv
<1>9. CASE UNCHANGED vars
  <2>1. Stacked'
    BY <1>1, <1>2, <1>9 DEF vars, ColoringInv, Stacked
  <2> QED
    BY <2>1, <1>3, <1>4, <1>6, <1>9 DEF vars, ColoringInv
<1> QED
  BY <1>7, <1>8, <1>9

(* Every step keeps the invariant.                                         *)
LEMMA ColoringStep ==
  ASSUME ColoringInv, [Next]_vars
  PROVE  ColoringInv'
BY BuildKeeps, SimplifyKeeps, CoalesceKeeps, ChooseKeeps, SpillKeeps, RewriteKeeps,
   TurnKeeps DEF Next

(***************************************************************************)
(* Whatever the graph and the number of registers: when RegAlloc prints    *)
(* its result, every node has a register or lives in memory, and nodes     *)
(* that interfere never share one, whatever rounds of deletion and spill   *)
(* went before.                                                            *)
(***************************************************************************)
THEOREM ResultIsProper == Spec => []AllocationProper
<1>1. Init => ColoringInv
  BY ColoringInit
<1>2. ColoringInv /\ [Next]_vars => ColoringInv'
  BY ColoringStep
<1>3. ColoringInv => AllocationProper
  <2> SUFFICES ASSUME ColoringInv, pc = "done"
               PROVE  /\ \A n \in Nodes : node_color[n] \in Colors \cup {Spilled}
                      /\ \A u, v \in Nodes :
                           Conflict(u, v) /\ ~InMemory(u) /\ ~InMemory(v) => node_color[u] # node_color[v]
    BY DEF AllocationProper
  <2>1. \A n \in Nodes : ~OnStack(n)
    BY DEF ColoringInv, Stacked, OnStack
  <2> QED
    BY <2>1 DEF ColoringInv, Selected
<1> QED
  BY <1>1, <1>2, <1>3, PTL DEF Spec

-----------------------------------------------------------------------------
(* Who is spilled.                                                         *)

Rivals(n) == {v \in Nodes : Conflict(n, v)}

(* Beside itself, a node's neighbours are nodes it interferes with, in the *)
(* graph and on the stack.                                                 *)
Bounded ==
  /\ \A n \in Nodes : adjList[n] \subseteq Rivals(n) \cup {n}
  /\ \A i \in 1 .. Len(stk) : stk[i].neighbors \subseteq Rivals(stk[i].node) \cup {stk[i].node}

CrowdInv == ColoringInv /\ Bounded /\ SpilledIsCrowded

(* A node whose neighbours have all the colours has one for each colour,   *)
(* and at most one of them is no rival: the node itself.                   *)
LEMMA CrowdSize ==
  ASSUME NEW n \in Nodes, NEW A, A \subseteq Rivals(n) \cup {n}, NEW paint,
         \A c \in Colors : \E u \in A : paint[u] = c
  PROVE  Cardinality(Rivals(n)) >= color_num - 1
<1>1. IsFiniteSet(Rivals(n)) /\ Cardinality(Rivals(n)) \in Nat
  <2>1. IsFiniteSet(Nodes)
    BY NumbersAssumption, FS_Interval DEF Nodes
  <2>2. Rivals(n) \in SUBSET Nodes
    BY DEF Rivals
  <2> QED
    BY <2>1, <2>2, FS_Subset, FS_CardinalityType
<1>2. IsFiniteSet(A) /\ Cardinality(A) \in Nat /\ Cardinality(A) <= Cardinality(Rivals(n)) + 1
  <2> DEFINE all == Rivals(n) \cup {n}
  <2>1. IsFiniteSet(all) /\ Cardinality(all) <= Cardinality(Rivals(n)) + 1 /\ Cardinality(all) \in Nat
    <3>1. /\ IsFiniteSet(all)
          /\ Cardinality(all) = IF n \in Rivals(n) THEN Cardinality(Rivals(n))
                                ELSE Cardinality(Rivals(n)) + 1
      BY <1>1, FS_AddElement
    <3> HIDE DEF all
    <3> QED
      BY <1>1, <3>1
  <2>2. A \in SUBSET all
    OBVIOUS
  <2> HIDE DEF all
  <2>3. IsFiniteSet(A) /\ Cardinality(A) <= Cardinality(all)
    BY <2>1, <2>2, FS_Subset
  <2>4. Cardinality(A) \in Nat
    BY <2>3, FS_CardinalityType
  <2> QED
    BY <1>1, <2>1, <2>3, <2>4
<1>3. IsFiniteSet(Colors) /\ Cardinality(Colors) = color_num
  <2>1. 0 \in Int /\ color_num - 1 \in Int
    BY NumbersAssumption
  <2>2. IsFiniteSet(0 .. color_num - 1)
        /\ Cardinality(0 .. color_num - 1) = IF 0 > color_num - 1 THEN 0 ELSE color_num - 1 - 0 + 1
    BY <2>1, FS_Interval
  <2> QED
    BY <2>2, NumbersAssumption DEF Colors
<1>4. ~(Cardinality(A) < Cardinality(Colors))
  <2> SUFFICES ASSUME Cardinality(A) < Cardinality(Colors) PROVE FALSE
    OBVIOUS
  <2> DEFINE wears == [c \in Colors |-> CHOOSE u \in A : paint[u] = c]
  <2>1. \A c \in Colors : wears[c] \in A /\ paint[wears[c]] = c
    OBVIOUS
  <2>2. wears \in [Colors -> A]
    BY <2>1
  <2> HIDE DEF wears
  <2>3. \E c, d \in Colors : c # d /\ wears[c] = wears[d]
    BY <1>2, <1>3, <2>2, FS_PigeonHole
  <2> QED
    BY <2>1, <2>3
<1> QED
  BY <1>1, <1>2, <1>3, <1>4, NumbersAssumption

(* What rivals are to a node does not change, and no node comes back from  *)
(* memory.                                                                 *)
LEMMA CrowdStays ==
  ASSUME live' = live, SpilledIsCrowded,
         \A n \in Nodes : InMemory(n)' =>
           InMemory(n) \/ Cardinality(Rivals(n)) >= color_num - 1
  PROVE  SpilledIsCrowded' /\ \A n : Rivals(n)' = Rivals(n)
<1>1. \A n : Rivals(n)' = Rivals(n)
  BY ConflictStays DEF Rivals
<1>2. SpilledIsCrowded'
  BY <1>1 DEF SpilledIsCrowded, Rivals
<1> QED
  BY <1>1, <1>2

(* What a popped node gets back is bounded as it was on the stack.         *)
LEMMA PopBounded ==
  ASSUME ColoringInv, Bounded, stk # << >>, pop_stk, live' = live
  PROVE  /\ \A n \in Nodes : Restored(top)[n] \subseteq Rivals(n) \cup {n}
         /\ \A i \in 1 .. Len(stk') :
              stk'[i].neighbors \subseteq Rivals(stk'[i].node) \cup {stk'[i].node}
<1>1. Typed /\ Stacked
  BY DEF ColoringInv
<1>2. /\ Len(stk) \in Nat \ {0} /\ top = stk[Len(stk)]
      /\ top.node \in Nodes /\ top.neighbors \subseteq Nodes /\ Len(stk') = Len(stk) - 1
      /\ \A i \in 1 .. Len(stk) - 1 : stk'[i] = stk[i]
  BY <1>1, Popped
<1>3. top.neighbors \subseteq Rivals(top.node) \cup {top.node}
  BY <1>2 DEF Bounded
<1>4. \A u \in top.neighbors : top.node \in Rivals(u) \cup {u}
  BY <1>2, <1>3 DEF Rivals, Conflict
<1>5. \A n \in Nodes : Restored(top)[n] \subseteq Rivals(n) \cup {n}
  BY <1>3, <1>4 DEF Restored, Bounded
<1>6. \A i \in 1 .. Len(stk') :
        stk'[i].neighbors \subseteq Rivals(stk'[i].node) \cup {stk'[i].node}
  BY <1>2 DEF Bounded
<1> QED
  BY <1>5, <1>6

(* Only spill puts a node into memory, when its neighbours have all the    *)
(* colours.                                                                *)
LEMMA CrowdStep ==
  ASSUME CrowdInv, [Next]_vars
  PROVE  Bounded' /\ SpilledIsCrowded'
<1>1. Typed /\ Bounded /\ SpilledIsCrowded /\ ColoringInv
  BY DEF CrowdInv, ColoringInv
<1>2. CASE build
  <2>1. \A n \in Nodes : adjList'[n] \subseteq Rivals(n) \cup {n}
    BY <1>2 DEF build, Rivals, Conflict
  <2>2. live' = live /\ UNCHANGED <<stk, node_color>>
    BY <1>2 DEF build
  <2> QED
    BY <1>1, <2>1, <2>2, CrowdStays DEF Bounded, InMemory
<1>3. CASE simplify
  <2>1. live' = live /\ UNCHANGED node_color
    BY <1>3 DEF simplify
  <2>2. \A n \in Nodes : adjList'[n] \subseteq adjList[n]
    BY <1>3 DEF simplify, delete_node
  <2>3. /\ stk \in Seq(Entry) /\ index \in Nodes
        /\ stk' = Append(stk, [node |-> index, neighbors |-> adjList[index]])
    BY <1>1, <1>3, NumbersAssumption DEF simplify, delete_node, Typed, Nodes
  <2>4. [node |-> index, neighbors |-> adjList[index]] \in Entry
    BY <1>1, <2>3 DEF Typed, Entry
  <2>5. \A i \in 1 .. Len(stk') :
          \/ i \in 1 .. Len(stk) /\ stk'[i] = stk[i]
          \/ stk'[i] = [node |-> index, neighbors |-> adjList[index]]
    BY <2>3, <2>4
  <2>6. \A i \in 1 .. Len(stk') : stk'[i].neighbors \subseteq Rivals(stk'[i].node) \cup {stk'[i].node}
    BY <1>1, <2>3, <2>5 DEF Bounded
  <2> QED
    BY <1>1, <2>1, <2>2, <2>6, CrowdStays DEF Bounded, InMemory
<1>4. CASE choose \/ spill \/ rewrite
  <2> DEFINE n == top.node
             adj == Restored(top)
  <2>1. stk # << >> /\ pop_stk /\ live' = live
    BY <1>4 DEF choose, spill, rewrite
  <2>2. /\ n \in Nodes /\ adj \in [Nodes -> SUBSET Nodes]
        /\ \A x \in Nodes : adj[x] \subseteq Rivals(x) \cup {x}
        /\ \A i \in 1 .. Len(stk') :
             stk'[i].neighbors \subseteq Rivals(stk'[i].node) \cup {stk'[i].node}
    <3>1. n \in Nodes /\ top.neighbors \subseteq Nodes
      BY <1>1, <2>1, Popped DEF ColoringInv
    <3>2. adj \in [Nodes -> SUBSET Nodes]
      BY <1>1, <3>1 DEF Restored, Typed
    <3> QED
      BY <1>1, <2>1, <3>1, <3>2, PopBounded
  <2>3. adjList' = adj \/ adjList' = [adj EXCEPT ![n] = {}]
    BY <1>4 DEF choose, spill, rewrite
  <2>4. ASSUME spill PROVE Cardinality(Rivals(n)) >= color_num - 1
    <3>1. Free(n, adj) = {}
      BY <2>4 DEF spill
    <3>2. \A c \in Colors : \E u \in adj[n] : node_color[u] = c
      BY <3>1 DEF Free
    <3> HIDE DEF n, adj
    <3> QED
      BY <2>2, <3>2, CrowdSize, SMTT(30)
  <2>5. \A x \in Nodes : InMemory(x)' => InMemory(x) \/ (spill /\ x = n)
    <3>1. node_color \in [Nodes -> Colors \cup {None, Spilled}] /\ Spilled \notin Colors
      BY <1>1 DEF Typed, Spilled, Colors
    <3>2. CASE spill
      BY <2>2, <3>1, <3>2 DEF spill, InMemory
    <3>3. CASE rewrite
      BY <3>3 DEF rewrite, InMemory
    <3>4. CASE choose
      BY <2>2, <3>1, <3>4 DEF choose, InMemory
    <3> QED
      BY <1>4, <3>2, <3>3, <3>4
  <2> HIDE DEF n, adj
  <2>6. \A x \in Nodes : adjList'[x] \subseteq Rivals(x) \cup {x}
    BY <2>2, <2>3
  <2>7. SpilledIsCrowded' /\ \A x : Rivals(x)' = Rivals(x)
    BY <1>1, <2>1, <2>4, <2>5, CrowdStays
  <2> QED
    BY <2>2, <2>6, <2>7 DEF Bounded
<1>5. CASE coalesce \/ finish \/ again \/ UNCHANGED vars
  <2>1. live' = live /\ UNCHANGED <<adjList, stk, node_color>>
    BY <1>5 DEF coalesce, finish, again, vars
  <2> QED
    BY <1>1, <2>1, CrowdStays DEF Bounded, InMemory
<1> QED
  BY <1>2, <1>3, <1>4, <1>5 DEF Next

(***************************************************************************)
(* Whatever the graph and the number of registers: a node that choose and  *)
(* spill put into memory has at least as many rivals as there are          *)
(* registers, but for the one its own colour of an earlier round bars.     *)
(***************************************************************************)
THEOREM SpillsAreCrowded == Spec => []SpilledIsCrowded
<1>1. Init => Bounded /\ SpilledIsCrowded
  BY DEF Init, Bounded, SpilledIsCrowded, InMemory, None, Spilled
<1>2. CrowdInv /\ [Next]_vars => CrowdInv'
  BY CrowdStep, ColoringStep DEF CrowdInv
<1>3. Init => CrowdInv
  BY <1>1, ColoringInit DEF CrowdInv
<1> QED
  BY <1>2, <1>3, PTL DEF Spec, CrowdInv

-----------------------------------------------------------------------------
(* The linear scan.                                                        *)

Vars == 1 .. Len(list)

ScanTyped ==
  /\ Reg_num \in Nat
  /\ list \in Seq([start : Int, end : Int]) /\ interval \in Int
  /\ active \in [Registers -> Nat] /\ free \in Seq(Registers)
  /\ given \in [Vars -> Registers \cup {-1}]

(* A register is in free, once, exactly if no variable is in it.           *)
FreeAreIdle ==
  /\ \A i, j \in 1 .. Len(free) : free[i] = free[j] => i = j
  /\ \A r \in Registers : active[r] = 0 <=> \E i \in 1 .. Len(free) : free[i] = r

(* A variable that was put in a register has started, and is there or has  *)
(* ended.                                                                  *)
GivenAreThere ==
  \A v \in Vars :
    given[v] # -1 =>
      /\ v \in allocated /\ list[v].start <= interval
      /\ active[given[v]] = v \/ list[v].end < interval

ScanInv == ScanTyped /\ FreeAreIdle /\ GivenAreThere /\ OverlapsApart

(* The spans of variables are integers.                                    *)
LEMMA SpanTyped ==
  ASSUME ScanTyped, NEW v \in Vars
  PROVE  list[v].start \in Int /\ list[v].end \in Int
<1> DEFINE Spans == [start : Int, end : Int]
<1>1. list \in Seq(Spans) /\ v \in 1 .. Len(list)
  BY DEF ScanTyped, Vars
<1> HIDE DEF Spans
<1>2. list[v] \in Spans
  BY <1>1, ElementOfSeq
<1> QED
  BY <1>2 DEF Spans

(* All registers are free at first, and nothing is given.                  *)
LEMMA ScanStarts ==
  ASSUME ScanInit
  PROVE  ScanInv
<1>1. ScanTyped
  BY InputAssumption DEF ScanInit, ScanTyped, Registers, Vars
<1>2. FreeAreIdle
  <2>1. free = [i \in 1 .. Reg_num |-> i - 1] /\ active = [r \in Registers |-> 0] /\ Reg_num \in Nat
    BY InputAssumption DEF ScanInit
  <2>2. Len(free) = Reg_num
    BY <2>1
  <2>3. ASSUME NEW r \in Registers PROVE \E i \in 1 .. Len(free) : free[i] = r
    <3>1. r + 1 \in 1 .. Len(free) /\ free[r + 1] = r
      BY <2>1, <2>2 DEF Registers
    <3> QED
      BY <3>1
  <2> QED
    BY <2>1, <2>2, <2>3 DEF FreeAreIdle
<1>3. \A v \in DOMAIN given : given[v] = -1
  BY DEF ScanInit
<1> QED
  BY <1>1, <1>2, <1>3 DEF ScanInv, GivenAreThere, OverlapsApart, Vars, ScanInit

(* The registers taken back are those of variables that have ended.        *)
LEMMA RemoveKeeps ==
  ASSUME ScanInv, remove
  PROVE  ScanInv'
<1>1. /\ active' = [r \in Registers |-> IF r \in Ended THEN 0 ELSE active[r]]
      /\ UNCHANGED <<list, allocated, interval, given>>
  BY DEF remove
<1>2. PICK s \in InOrder(Ended) : free' = free \o s
  BY DEF remove
<1>3. /\ Reg_num \in Nat /\ list \in Seq([start : Int, end : Int]) /\ interval \in Int
      /\ active \in [Registers -> Nat] /\ free \in Seq(Registers)
      /\ given \in [Vars -> Registers \cup {-1}]
  BY DEF ScanInv, ScanTyped
<1>4. Ended \subseteq Registers /\ \A r \in Ended : active[r] # 0 /\ list[active[r]].end < interval
  BY DEF Ended, isold
<1>5. /\ s \in Seq(Registers) /\ Len(s) \in Nat
      /\ \A i \in 1 .. Len(s) : s[i] \in Ended
      /\ \A r \in Ended : \E i \in 1 .. Len(s) : s[i] = r
      /\ \A i, j \in 1 .. Len(s) : s[i] = s[j] => i = j
  <2>1. Cardinality(Ended) \in Nat
    <3>1. IsFiniteSet(Registers)
      BY <1>3, FS_Interval DEF Registers
    <3> QED
      BY <3>1, <1>4, FS_Subset, FS_CardinalityType
  <2>2. /\ s \in [1 .. Cardinality(Ended) -> Ended] /\ Range(s) = Ended
        /\ \A i, j \in 1 .. Cardinality(Ended) : i < j => s[i] < s[j]
    BY DEF InOrder
  <2>3. s \in Seq(Ended) /\ Len(s) = Cardinality(Ended)
    BY <2>1, <2>2
  <2>4. ASSUME NEW i \in 1 .. Len(s) PROVE s[i] \in Int
    <3>1. s[i] \in Registers
      BY <2>3, <1>4
    <3> QED
      BY <3>1, <1>3 DEF Registers
  <2>5. ASSUME NEW i \in 1 .. Len(s), NEW j \in 1 .. Len(s), s[i] = s[j] PROVE i = j
    BY <2>1, <2>2, <2>3, <2>4, <2>5
  <2>6. \A r \in Ended : \E i \in 1 .. Len(s) : s[i] = r
    BY <2>2, <2>3 DEF Range
  <2>7. s \in Seq(Registers) /\ Len(s) \in Nat /\ \A i \in 1 .. Len(s) : s[i] \in Ended
    BY <2>1, <2>2, <2>3, <1>4
  <2> QED
    BY <2>5, <2>6, <2>7
<1>6. /\ free' \in Seq(Registers) /\ Len(free') = Len(free) + Len(s)
      /\ \A i \in 1 .. Len(free) + Len(s) :
           free'[i] = IF i <= Len(free) THEN free[i] ELSE s[i - Len(free)]
  BY <1>2, <1>3, <1>5, ConcatProperties
<1>7. Len(free) \in Nat
  BY <1>3
<1>8. ScanTyped'
  BY <1>1, <1>3, <1>6 DEF ScanTyped, Vars
<1>9. FreeAreIdle'
  <2>1. /\ \A i, j \in 1 .. Len(free) : free[i] = free[j] => i = j
        /\ \A r \in Registers : active[r] = 0 <=> \E i \in 1 .. Len(free) : free[i] = r
    BY DEF ScanInv, FreeAreIdle
  <2>2. ASSUME NEW i \in 1 .. Len(free) PROVE active[free[i]] = 0 /\ free[i] \in Registers
    BY <2>1, <1>3
  <2>3. ASSUME NEW i \in 1 .. Len(free'), NEW j \in 1 .. Len(free'), free'[i] = free'[j]
        PROVE  i = j
    <3>1. CASE i <= Len(free) /\ j <= Len(free)
      BY <3>1, <2>1, <2>3, <1>6, <1>7
    <3>2. CASE i > Len(free) /\ j > Len(free)
      <4>1. i - Len(free) \in 1 .. Len(s) /\ j - Len(free) \in 1 .. Len(s)
        BY <3>2, <1>5, <1>6, <1>7
      <4>2. s[i - Len(free)] = s[j - Len(free)]
        <5>1. ~(i <= Len(free)) /\ ~(j <= Len(free))
          BY <3>2, <1>7
        <5> QED
          BY <5>1, <2>3, <1>6
      <4>3. i - Len(free) = j - Len(free)
        BY <4>1, <4>2, <1>5
      <4> QED
        BY <4>3, <1>5, <1>6, <1>7
    <3>3. ASSUME NEW m \in 1 .. Len(free'), NEW n \in 1 .. Len(free'),
                 m <= Len(free), n > Len(free)
          PROVE  free'[m] # free'[n]
      <4>1. m \in 1 .. Len(free) /\ n - Len(free) \in 1 .. Len(s)
        BY <3>3, <1>5, <1>6, <1>7
      <4>2. free'[m] = free[m] /\ free'[n] = s[n - Len(free)]
        BY <3>3, <4>1, <1>5, <1>6, <1>7
      <4> QED
        BY <4>1, <4>2, <2>2, <1>4, <1>5
    <3> QED
      BY <3>1, <3>2, <3>3, <2>3, <1>6, <1>7
  <2>4. ASSUME NEW r \in Registers
        PROVE  active'[r] = 0 <=> \E i \in 1 .. Len(free') : free'[i] = r
    <3>1. ASSUME NEW i \in 1 .. Len(free) PROVE i \in 1 .. Len(free') /\ free'[i] = free[i]
      BY <1>5, <1>6, <1>7
    <3>2. ASSUME NEW i \in 1 .. Len(s)
          PROVE  i + Len(free) \in 1 .. Len(free') /\ free'[i + Len(free)] = s[i]
      <4>1. /\ i + Len(free) \in 1 .. Len(free) + Len(s) /\ ~(i + Len(free) <= Len(free))
            /\ (i + Len(free)) - Len(free) = i
        BY <1>5, <1>7
      <4> QED
        BY <4>1, <1>6
    <3>3. ASSUME active'[r] = 0 PROVE \E i \in 1 .. Len(free') : free'[i] = r
      <4>1. CASE r \in Ended
        BY <4>1, <3>2, <1>5
      <4>2. CASE r \notin Ended
        BY <4>2, <3>1, <3>3, <2>1, <1>1
      <4> QED
        BY <4>1, <4>2
    <3>4. ASSUME NEW i \in 1 .. Len(free'), free'[i] = r PROVE active'[r] = 0
      <4>1. CASE i <= Len(free)
        <5>1. i \in 1 .. Len(free) /\ free[i] = r
          BY <4>1, <3>4, <1>6, <1>7
        <5> QED
          BY <5>1, <2>2, <1>1
      <4>2. CASE i > Len(free)
        <5>1. i - Len(free) \in 1 .. Len(s) /\ s[i - Len(free)] = r
          BY <4>2, <3>4, <1>5, <1>6, <1>7
        <5> QED
          BY <5>1, <1>1, <1>5
      <4> QED
        BY <4>1, <4>2, <1>6, <1>7
    <3> QED
      BY <3>3, <3>4
  <2> QED
    BY <2>3, <2>4 DEF FreeAreIdle
<1>10. GivenAreThere'
  BY <1>1, <1>3, <1>4 DEF ScanInv, GivenAreThere, Vars
<1>11. OverlapsApart'
  BY <1>1 DEF ScanInv, OverlapsApart, Overlap
<1> QED
  BY <1>8, <1>9, <1>10, <1>11 DEF ScanInv

(* The register handed out is free, so the variables that had it have      *)
(* ended.                                                                  *)
LEMMA ScanChooseKeeps ==
  ASSUME ScanInv, scan_choose
  PROVE  ScanInv'
<1>1. PICK v \in Waiting :
        /\ active' = [active EXCEPT ![Head(free)] = v]
        /\ given' = [given EXCEPT ![v] = Head(free)]
        /\ allocated' = allocated \cup {v}
  BY DEF scan_choose
<1>2. ~full /\ free' = Tail(free) /\ UNCHANGED <<list, interval>>
  BY DEF scan_choose
<1>3. /\ Reg_num \in Nat /\ list \in Seq([start : Int, end : Int]) /\ interval \in Int
      /\ active \in [Registers -> Nat] /\ free \in Seq(Registers)
      /\ given \in [Vars -> Registers \cup {-1}]
  BY DEF ScanInv, ScanTyped
<1>4. /\ v \in Vars /\ v # 0 /\ v \in Nat /\ v \notin allocated /\ list[v].start = interval
      /\ given[v] = -1
  <2>1. v \in DOMAIN list /\ v \notin allocated /\ list[v].start = interval
    BY DEF Waiting, isactive
  <2>2. v \in Vars /\ v # 0 /\ v \in Nat
    BY <2>1, <1>3 DEF Vars
  <2> QED
    BY <2>1, <2>2 DEF ScanInv, GivenAreThere
<1>5. /\ \A i, j \in 1 .. Len(free) : free[i] = free[j] => i = j
      /\ \A r \in Registers : active[r] = 0 <=> \E i \in 1 .. Len(free) : free[i] = r
  BY DEF ScanInv, FreeAreIdle
<1>6. free # << >>
  <2>1. PICK r \in Registers : active[r] = 0
    BY <1>2 DEF full
  <2>2. PICK i \in 1 .. Len(free) : free[i] = r
    BY <2>1, <1>5
  <2> QED
    BY <2>2
<1> DEFINE r == Head(free)
<1>7. /\ r \in Registers /\ r = free[1] /\ 1 \in 1 .. Len(free) /\ Len(free) \in Nat
      /\ free' \in Seq(Registers) /\ Len(free') = Len(free) - 1
      /\ \A i \in 1 .. Len(free) - 1 : free'[i] = free[i + 1]
  BY <1>2, <1>3, <1>6
<1>8. active[r] = 0
  BY <1>5, <1>7
<1>9. active' = [active EXCEPT ![r] = v] /\ given' = [given EXCEPT ![v] = r]
  BY <1>1
<1> HIDE DEF r
<1>10. ScanTyped'
  BY <1>2, <1>3, <1>4, <1>7, <1>9 DEF ScanTyped, Vars
<1>11. FreeAreIdle'
  <2>1. ASSUME NEW i \in 1 .. Len(free'), NEW j \in 1 .. Len(free'), free'[i] = free'[j]
        PROVE  i = j
    <3>1. i + 1 \in 1 .. Len(free) /\ j + 1 \in 1 .. Len(free)
      BY <1>7
    <3>2. i + 1 = j + 1
      BY <3>1, <2>1, <1>5, <1>7
    <3> QED
      BY <3>2, <1>7
  <2>2. ASSUME NEW q \in Registers
        PROVE  active'[q] = 0 <=> \E i \in 1 .. Len(free') : free'[i] = q
    <3>1. CASE q = r
      <4>1. active'[q] # 0
        BY <3>1, <1>3, <1>4, <1>9
      <4>2. ASSUME NEW i \in 1 .. Len(free') PROVE free'[i] # q
        <5>1. i + 1 \in 1 .. Len(free) /\ i + 1 # 1 /\ free'[i] = free[i + 1]
          BY <1>7
        <5> QED
          BY <5>1, <3>1, <1>5, <1>7
      <4> QED
        BY <4>1, <4>2
    <3>2. CASE q # r
      <4>1. active'[q] = active[q]
        BY <3>2, <1>3, <1>9
      <4>2. ASSUME NEW i \in 1 .. Len(free), free[i] = q
            PROVE  i - 1 \in 1 .. Len(free') /\ free'[i - 1] = q
        BY <4>2, <3>2, <1>7
      <4>3. ASSUME NEW i \in 1 .. Len(free'), free'[i] = q
            PROVE  i + 1 \in 1 .. Len(free) /\ free[i + 1] = q
        BY <4>3, <1>7
      <4> QED
        BY <4>1, <4>2, <4>3, <1>5
    <3> QED
      BY <3>1, <3>2
  <2> QED
    BY <2>1, <2>2 DEF FreeAreIdle
<1>12. \A u \in Vars \ {v} : given'[u] = given[u] /\ (given[u] = r => list[u].end < interval)
  <2>1. ASSUME NEW u \in Vars \ {v}, given[u] = r PROVE list[u].end < interval
    <3>1. r # -1 /\ u # 0
      <4>1. r \in 0 .. Reg_num - 1 /\ u \in 1 .. Len(list)
        BY <1>7 DEF Registers, Vars
      <4> QED
        BY <4>1
    <3> QED
      BY <3>1, <2>1, <1>8 DEF ScanInv, GivenAreThere
  <2> QED
    BY <2>1, <1>3, <1>9
<1>13. GivenAreThere'
  <2> SUFFICES ASSUME NEW u \in Vars, given'[u] # -1
               PROVE  /\ u \in allocated' /\ list[u].start <= interval
                      /\ active'[given'[u]] = u \/ list[u].end < interval
    BY <1>2 DEF GivenAreThere, Vars
  <2>1. CASE u = v
    BY <2>1, <1>1, <1>3, <1>4, <1>7, <1>9
  <2>2. CASE u # v
    BY <2>2, <1>1, <1>3, <1>9, <1>12 DEF ScanInv, GivenAreThere
  <2> QED
    BY <2>1, <2>2
<1>14. OverlapsApart'
  <2>1. \A u \in Vars : list[u].start \in Int /\ list[u].end \in Int
    BY SpanTyped DEF ScanInv
  <2>2. ASSUME NEW u \in Vars \ {v}, given[u] = r PROVE ~Overlap(u, v) /\ ~Overlap(v, u)
    <3>1. list[u].end < interval /\ list[v].start = interval /\ interval \in Int
      BY <2>2, <1>3, <1>4, <1>12
    <3>2. list[u].end \in Int
      BY <2>1
    <3>3. ~(list[v].start <= list[u].end)
      BY <3>1, <3>2
    <3> QED
      BY <3>3 DEF Overlap
  <2>3. given'[v] = r /\ DOMAIN given = Vars /\ DOMAIN given' = Vars
    BY <1>3, <1>4, <1>9
  <2>4. ASSUME NEW u \in Vars, NEW w \in Vars, u # w, given'[u] # -1, given'[u] = given'[w]
        PROVE  ~Overlap(u, w)
    <3>1. CASE u = v \/ w = v
      BY <3>1, <2>2, <2>3, <2>4, <1>12
    <3>2. CASE u # v /\ w # v
      BY <3>2, <2>3, <2>4, <1>12 DEF ScanInv, OverlapsApart
    <3> QED
      BY <3>1, <3>2
  <2> QED
    BY <2>3, <2>4, <1>2 DEF OverlapsApart, Overlap
<1> QED
  BY <1>10, <1>11, <1>13, <1>14 DEF ScanInv

(* Every step of the scan keeps the invariant.                             *)
LEMMA ScanStep ==
  ASSUME ScanInv, [ScanNext]_scanVars
  PROVE  ScanInv'
<1>1. ASSUME UNCHANGED <<list, allocated, active, free, given>>, interval' \in {interval, interval + 1}
      PROVE  ScanInv'
  <2>1. ScanTyped'
    BY <1>1 DEF ScanInv, ScanTyped, Vars
  <2>2. FreeAreIdle'
    BY <1>1 DEF ScanInv, FreeAreIdle
  <2>3. GivenAreThere'
    <3> SUFFICES ASSUME NEW v \in Vars, given[v] # -1
                 PROVE  /\ v \in allocated /\ list[v].start <= interval'
                        /\ active[given[v]] = v \/ list[v].end < interval'
      BY <1>1 DEF GivenAreThere, Vars
    <3>2. /\ v \in allocated /\ list[v].start <= interval
          /\ active[given[v]] = v \/ list[v].end < interval
      BY DEF ScanInv, GivenAreThere
    <3>3. list[v].start \in Int /\ list[v].end \in Int /\ interval \in Int
      BY SpanTyped DEF ScanInv, ScanTyped
    <3> QED
      BY <3>2, <3>3, <1>1
  <2>4. OverlapsApart'
    BY <1>1 DEF ScanInv, OverlapsApart, Overlap
  <2> QED
    BY <2>1, <2>2, <2>3, <2>4 DEF ScanInv
<1>2. CASE UNCHANGED scanVars
  BY <1>1, <1>2 DEF scanVars
<1>3. CASE scan_spill
  BY <1>1, <1>3 DEF scan_spill
<1>4. CASE advance
  BY <1>1, <1>4 DEF advance
<1>5. CASE assigned
  BY <1>1, <1>5 DEF assigned
<1> QED
  BY <1>2, <1>3, <1>4, <1>5, RemoveKeeps, ScanChooseKeeps DEF ScanNext

(***************************************************************************)
(* Whatever the registers, the variables and the first value of the        *)
(* counter: variables put in one register never live at the same time.     *)
(***************************************************************************)
THEOREM RegistersNeverClash == ScanSpec => []OverlapsApart
<1>1. ScanInit => ScanInv
  BY ScanStarts
<1>2. ScanInv /\ [ScanNext]_scanVars => ScanInv'
  BY ScanStep
<1>3. ScanInv => OverlapsApart
  BY DEF ScanInv
<1> QED
  BY <1>1, <1>2, <1>3, PTL DEF ScanSpec

-----------------------------------------------------------------------------
(* The mem2reg pass.                                                       *)

(* An instruction that accesses a variable, and the allocas of integers in  *)
(* the entry, which the pass looks for.                                    *)
Access(p) == p \in Insts /\ At(p).op # "alloca"
IsAlloca(p, a) == p \in Insts /\ At(p).op = "alloca" /\ At(p).var = a
IntAlloca(p) == p \in Insts /\ p[1] = 1 /\ At(p).op = "alloca" /\ At(p).integer
IntVar(a) == \E p \in Insts : IsAlloca(p, a) /\ IntAlloca(p)
Promoted(a) == a \in Range(Allocas)
LoadOf(p) == <<"load", p[1], p[2]>>

(* A value that stays: if it is a load, one of memory that is not promoted. *)
Stays(v) == v[1] = "load" => ~IntVar(At(<<v[2], v[3]>>).var)
AllStay(f) == \A x \in DOMAIN f : Stays(f[x])

(* Whatever is erased.                                                     *)
Erasing ==
  /\ erased \subseteq Insts
  /\ \A p \in Left : Access(p) => AllocaOf(At(p).var) \notin erased
  /\ \A p \in erased : IntVar(At(p).var)
  /\ \A p \in erased : At(p).op = "load" => LoadOf(p) \in DOMAIN repl
  /\ AllStay(repl)

(* The list has variables of integers, and all that are left; an alloca    *)
(* may be in it more than once.                                            *)
Listed ==
  /\ Allocas \in Seq({At(p).var : p \in {q \in Insts : IntAlloca(q)}})
  /\ num \in Nat /\ it \in Nat /\ it >= 1

Listing == \A p \in Insts : IntAlloca(p) => p \in erased \/ Promoted(At(p).var)

(* Until the clearing up only allocas nobody accesses are erased.          *)
OnlyDead == \A p \in erased : At(p).op = "alloca"

(* What the first round starts from.                                       *)
Fresh == phis = {} /\ incoming = <<>> /\ repl = <<>> /\ removable = <<>>

(* The operands of p that come from b, and those there should be.          *)
From(p, b) == {k \in DOMAIN incoming[p] : incoming[p][k][1] = b}
EdgesOf(p, b) == {e \in Preds(p[2]) : e[1] = b}
OperandsOf(p, S) ==
  \A b \in Blocks : Cardinality(From(p, b)) = IF b \in S THEN Cardinality(EdgesOf(p, b)) ELSE 0

(* The phis have their operands from the blocks of S and no others.        *)
Filling(S) ==
  /\ DOMAIN incoming = phis
  /\ \A p \in phis : p[1] = "phi" /\ Promoted(p[3]) /\ p[4] \in Nat
                       /\ incoming[p] \in Seq(Range(incoming[p])) /\ OperandsOf(p, S)

(* They have all of them, and nothing is left to promote.                  *)
Full == \A p \in phis : OperandsOf(p, Blocks)
Cleared == (\A p \in Insts : IntAlloca(p) => p \in erased) /\ Full

(* The instructions that the renaming has been at.                         *)
Passed(p) == p \in Insts /\ p[1] \in VisitedSet /\ (p[1] = BB => p[2] < it)

(* S is around the entry and left through c only: all ways from the entry  *)
(* to a block outside S lead through c.                                    *)
Around(S, c) ==
  c \notin S /\ 1 \in S \cup {c} /\ \A x \in S : Range(fn.succ[x]) \subseteq S \cup {c}

InWork(b) == \E i \in DOMAIN WorkList : WorkList[i].block = b

(* The renaming reaches every block, and none but through its dominators.  *)
Spreading ==
  /\ VisitedSet \subseteq Blocks /\ BB \in VisitedSet \cup {0} /\ BB \in Nat
  /\ 1 \in VisitedSet \/ InWork(1)
  /\ \A b \in VisitedSet \ {BB} : \A c \in Range(fn.succ[b]) : c \in VisitedSet \/ InWork(c)
  /\ \A c \in Blocks \ VisitedSet : \A S \in SUBSET Blocks : Around(S, c) =>
       VisitedSet \subseteq S /\ \A b \in Blocks : InWork(b) => b \in S \cup {c}

(* It has a value for each variable of the list, and one that stays.       *)
Carrying ==
  /\ WorkList \in Seq(Range(WorkList))
  /\ \A i \in DOMAIN WorkList :
       /\ WorkList[i].block \in Blocks
       /\ Range(Allocas) \subseteq DOMAIN WorkList[i].values /\ AllStay(WorkList[i].values)
  /\ BB # 0 => Range(Allocas) \subseteq DOMAIN IncommingValues /\ AllStay(IncommingValues)

(* The i-th of the list comes once, and an access after its alloca.        *)
RemovedOnce(i) ==
  /\ Promoted(At(removable[i]).var) /\ removable[i] \notin erased /\ Passed(removable[i])
  /\ At(removable[i]).op = "load" => LoadOf(removable[i]) \in DOMAIN repl
  /\ \A j \in DOMAIN removable : i # j => removable[i] # removable[j]
  /\ Access(removable[i]) =>
       \E j \in DOMAIN removable : j < i /\ removable[j] = AllocaOf(At(removable[i]).var)

(* Whatever the renaming has been at is in the list or erased.             *)
Handled(p) ==
  Passed(p) /\ Promoted(At(p).var) =>
    p \in Range(removable) \cup erased /\ (At(p).op = "load" => LoadOf(p) \in DOMAIN repl)

Removing ==
  removable \in Seq(Insts) /\ (\A i \in DOMAIN removable : RemovedOnce(i)) /\ \A p \in Insts : Handled(p)

(* The renaming is not over.                                               *)
Early == BB # 0 \/ WorkList # <<>>

(* What holds in each phase.  From the second round on, collecting finds   *)
(* nothing.                                                                *)
CollectInv ==
  /\ BB \in Nat /\ 1 <= BB
  /\ \/ Cleared /\ Allocas = <<>>
     \/ /\ Fresh /\ erased = {}
        /\ \A p \in Insts : IntAlloca(p) /\ (BB > 1 \/ p[2] < it) => Promoted(At(p).var)

DeadInv == Fresh /\ OnlyDead /\ Listing /\ num >= 1 /\ BB = 0

PhisInv ==
  /\ Listing /\ OnlyDead /\ num >= 1 /\ BB = 0
  /\ repl = <<>> /\ removable = <<>> /\ Filling({})

RenameInv ==
  /\ Listing /\ Filling(VisitedSet \ {BB})
  /\ Spreading /\ Carrying /\ Removing
  /\ Early => OnlyDead

PassInv ==
  /\ fn \in Functions /\ Erasing /\ Listed
  /\ phase = "collect" => CollectInv
  /\ phase = "dead" => DeadInv
  /\ phase = "phis" => PhisInv
  /\ phase = "rename" => RenameInv
  /\ phase = "prune" => Cleared
  /\ phase = "run" => Full
-----------------------------------------------------------------------------
(* Sequences: one element more, one less, two joined.                      *)
LEMMA AppendedIs ==
  ASSUME NEW S, NEW s \in Seq(S), NEW e \in S
  PROVE  LET t == Append(s, e) IN
         /\ t \in Seq(S) /\ Len(t) = Len(s) + 1 /\ Len(s) \in Nat
         /\ DOMAIN s = 1 .. Len(s) /\ DOMAIN t = 1 .. Len(s) + 1
         /\ t[Len(s) + 1] = e /\ \A i \in DOMAIN s : i \in DOMAIN t /\ t[i] = s[i]
OBVIOUS

(* A sequence without its last element.                                    *)
LEMMA FrontIs ==
  ASSUME NEW S, NEW s \in Seq(S), s # <<>>
  PROVE  /\ Front(s) \in Seq(S) /\ Len(Front(s)) = Len(s) - 1 /\ Len(s) \in Nat \ {0}
         /\ DOMAIN s = 1 .. Len(s) /\ DOMAIN Front(s) = 1 .. Len(s) - 1
         /\ Last(s) = s[Len(s)] /\ Len(s) \in DOMAIN s
         /\ \A i \in 1 .. Len(s) - 1 : Front(s)[i] = s[i]
<1> DEFINE n == Len(s)
<1>1. n \in Nat \ {0} /\ DOMAIN s = 1 .. n
  OBVIOUS
<1>2. /\ SubSeq(s, 1, n - 1) \in Seq(S) /\ Len(SubSeq(s, 1, n - 1)) = n - 1
      /\ \A i \in 1 .. n - 1 : SubSeq(s, 1, n - 1)[i] = s[i]
  <2>1. n - 1 \in Nat /\ n - 1 <= n
    BY <1>1
  <2>2. \A i \in 1 .. n - 1 : s[i] \in S
    BY <1>1
  <2> QED
    BY <1>1, <2>1, <2>2, SubSeqProperties
<1>3. DOMAIN SubSeq(s, 1, n - 1) = 1 .. n - 1
  <2> DEFINE t == SubSeq(s, 1, n - 1)
  <2>1. t \in Seq(S) /\ Len(t) = n - 1
    BY <1>2
  <2> HIDE DEF t, n
  <2>2. DOMAIN t = 1 .. n - 1
    BY <2>1
  <2> QED
    BY <2>2 DEF t
<1> QED
  BY <1>1, <1>2, <1>3 DEF Front, Last

(* One sequence after another.                                             *)
LEMMA JoinedIs ==
  ASSUME NEW S, NEW s \in Seq(S), NEW t \in Seq(S)
  PROVE  LET u == s \o t IN
         /\ u \in Seq(S) /\ Len(u) = Len(s) + Len(t) /\ Len(s) \in Nat /\ Len(t) \in Nat
         /\ DOMAIN s = 1 .. Len(s) /\ DOMAIN t = 1 .. Len(t) /\ DOMAIN u = 1 .. Len(s) + Len(t)
         /\ \A i \in DOMAIN s : i \in DOMAIN u /\ u[i] = s[i]
         /\ \A i \in DOMAIN t : Len(s) + i \in DOMAIN u /\ u[Len(s) + i] = t[i]
         /\ \A i \in DOMAIN u : i \notin DOMAIN s => i - Len(s) \in DOMAIN t /\ u[i] = t[i - Len(s)]
OBVIOUS

(* A sequence of anything is one of its elements.                          *)
LEMMA OwnRange ==
  ASSUME NEW S, NEW s \in Seq(S)
  PROVE  s \in Seq(Range(s)) /\ Range(s) \subseteq S
BY DEF Range

-----------------------------------------------------------------------------
(* The function that is given.                                             *)
LEMMA Well ==
  ASSUME fn \in Functions
  PROVE  /\ Len(fn.succ) \in Nat /\ Blocks = 1 .. Len(fn.succ) /\ 1 \in Blocks
         /\ Blocks \subseteq Nat /\ 0 \notin Blocks /\ DOMAIN fn.code = Blocks
         /\ \A b \in Blocks : /\ fn.succ[b] \in Seq(Blocks) /\ Range(fn.succ[b]) \subseteq Blocks
                              /\ Len(fn.code[b]) \in Nat /\ DOMAIN fn.code[b] = 1 .. Len(fn.code[b])
         /\ \A S \in SUBSET Blocks : 1 \in S /\ (\A b \in S : Range(fn.succ[b]) \subseteq S) => S = Blocks
<1>1. Verified(fn) /\ Reachable(fn)
  BY FunctionsAssumption
<1>2. /\ Len(fn.succ) \in Nat /\ Blocks = 1 .. Len(fn.succ) /\ 1 \in Blocks /\ DOMAIN fn.code = Blocks
      /\ \A b \in Blocks : /\ fn.succ[b] \in Seq(Blocks)
                           /\ Len(fn.code[b]) \in Nat /\ DOMAIN fn.code[b] = 1 .. Len(fn.code[b])
  BY <1>1 DEF Verified, Blocks
<1>3. \A S \in SUBSET Blocks : 1 \in S /\ (\A b \in S : Range(fn.succ[b]) \subseteq S) => S = Blocks
  BY <1>1 DEF Reachable, Blocks
<1>4. \A b \in Blocks : Range(fn.succ[b]) \subseteq Blocks
  BY <1>2, OwnRange
<1> QED
  BY <1>2, <1>3, <1>4

(* An instruction has its block and its place there.                       *)
LEMMA InstIs ==
  ASSUME fn \in Functions
  PROVE  /\ \A p \in Insts : /\ p[1] \in Blocks /\ p[2] \in DOMAIN fn.code[p[1]] /\ p = <<p[1], p[2]>>
                             /\ p[1] \in Nat /\ p[2] \in Nat
         /\ \A b \in Blocks : \A i \in DOMAIN fn.code[b] :
              <<b, i>> \in Insts /\ At(<<b, i>>) = fn.code[b][i]
<1>1. \A p \in Insts : p[1] \in Blocks /\ p[2] \in DOMAIN fn.code[p[1]] /\ p = <<p[1], p[2]>>
  BY DEF Insts
<1>2. \A p \in Insts : p[1] \in Nat /\ p[2] \in Nat
  BY <1>1, Well
<1>3. \A b \in Blocks : \A i \in DOMAIN fn.code[b] : <<b, i>> \in Insts /\ At(<<b, i>>) = fn.code[b][i]
  BY DEF Insts, At
<1> QED
  BY <1>1, <1>2, <1>3

(* What is known of an instruction.                                        *)
LEMMA InstOf ==
  ASSUME fn \in Functions, NEW p \in Insts
  PROVE  \/ /\ At(p).op = "alloca" /\ At(p).integer \in BOOLEAN
            /\ \A q : IsAlloca(q, At(p).var) => q = p
         \/ /\ At(p).op \in {"load", "store"}
            /\ \E q : IsAlloca(q, At(p).var) /\ (q[1] = p[1] => q[2] < p[2])
<1> DEFINE b == p[1]
           i == p[2]
           inst == fn.code[b][i]
<1>1. b \in Blocks /\ i \in DOMAIN fn.code[b] /\ At(p) = inst /\ p = <<b, i>>
  BY InstIs DEF At
<1>2. Verified(fn)
  BY FunctionsAssumption
<1>3. Declares(fn, b, i) \/ Accesses(fn, b, i)
  BY <1>1, <1>2 DEF Verified, Blocks
<1> HIDE DEF b, i, inst
<1>5. CASE Declares(fn, b, i)
  <2>0. inst.op = "alloca" /\ inst.integer \in BOOLEAN
        /\ \A c \in DOMAIN fn.succ : \A k \in DOMAIN fn.code[c] :
             fn.code[c][k].op = "alloca" /\ fn.code[c][k].var = inst.var => c = b /\ k = i
    BY <1>5 DEF Declares, inst
  <2>1. ASSUME NEW q, IsAlloca(q, inst.var) PROVE q = p
    <3>1. q[1] \in DOMAIN fn.succ /\ q[2] \in DOMAIN fn.code[q[1]] /\ q = <<q[1], q[2]>>
      BY <2>1, InstIs DEF IsAlloca, Blocks
    <3>2. fn.code[q[1]][q[2]].op = "alloca" /\ fn.code[q[1]][q[2]].var = inst.var
      BY <2>1, <3>1 DEF IsAlloca, At
    <3>3. q[1] = b /\ q[2] = i
      BY <2>0, <3>1, <3>2
    <3> QED
      BY <1>1, <3>1, <3>3
  <2> QED
    BY <1>1, <2>0, <2>1
<1>6. CASE Accesses(fn, b, i)
  <2>0. inst.op \in {"load", "store"} /\ AllocaBefore(fn, inst.var, b, i)
    BY <1>6 DEF Accesses, inst
  <2>1. PICK c \in DOMAIN fn.succ : \E k \in DOMAIN fn.code[c] :
               /\ fn.code[c][k].op = "alloca" /\ fn.code[c][k].var = inst.var
               /\ Precedes(fn, c, k, b, i)
    BY <2>0 DEF AllocaBefore
  <2>2. PICK k \in DOMAIN fn.code[c] :
               /\ fn.code[c][k].op = "alloca" /\ fn.code[c][k].var = inst.var
               /\ Precedes(fn, c, k, b, i)
    BY <2>1
  <2> DEFINE q == <<c, k>>
  <2>3. q \in Insts /\ At(q) = fn.code[c][k] /\ q[1] = c /\ q[2] = k
    BY InstIs DEF Blocks
  <2>4. c = b => k < i
    BY <2>2 DEF Precedes
  <2> HIDE DEF q
  <2>5. IsAlloca(q, inst.var)
    BY <2>2, <2>3 DEF IsAlloca
  <2> QED
    BY <1>1, <2>0, <2>3, <2>4, <2>5 DEF b, i
<1> QED
  BY <1>3, <1>5, <1>6

(* A variable has one alloca at most.                                      *)
LEMMA AllocaIs ==
  ASSUME fn \in Functions, NEW a, NEW p, IsAlloca(p, a)
  PROVE  /\ IsAlloca(AllocaOf(a), a) /\ AllocaOf(a) = p
         /\ \A q : IsAlloca(q, a) => q = p
<1>1. p \in Insts /\ At(p).op = "alloca" /\ At(p).var = a
  BY DEF IsAlloca
<1>2. \A q : IsAlloca(q, a) => q = p
  BY <1>1, InstOf
<1>3. IsAlloca(AllocaOf(a), a)
  BY <1>1 DEF AllocaOf, IsAlloca
<1> QED
  BY <1>2, <1>3

(* The variable that an instruction accesses has an alloca, and if that is *)
(* in the same block it is before it.                                      *)
LEMMA AccessIs ==
  ASSUME fn \in Functions, NEW p, Access(p)
  PROVE  LET q == AllocaOf(At(p).var) IN
         /\ At(p).op \in {"load", "store"} /\ IsAlloca(q, At(p).var) /\ q \in Insts
         /\ q[1] = p[1] => q[2] < p[2]
<1>1. p \in Insts /\ At(p).op # "alloca"
  BY DEF Access
<1>2. PICK q : At(p).op \in {"load", "store"} /\ IsAlloca(q, At(p).var) /\ (q[1] = p[1] => q[2] < p[2])
  BY <1>1, InstOf
<1>3. AllocaOf(At(p).var) = q
  BY <1>2, AllocaIs
<1> QED
  BY <1>2, <1>3 DEF IsAlloca

(* A store writes a value of its own or that of a load before it.          *)
LEMMA StoreIs ==
  ASSUME fn \in Functions, NEW p \in Insts, At(p).op = "store"
  PROVE  \/ At(p).val = <<"inst", p[1], p[2]>>
         \/ \E q \in Insts : /\ At(p).val = LoadOf(q) /\ At(q).op = "load"
                             /\ \/ q[1] = p[1] /\ q[2] < p[2]
                                \/ q[1] # p[1] /\ \E S \in SUBSET Blocks : Around(S, q[1]) /\ p[1] \notin S
<1>1. Verified(fn) /\ AddressesKept(fn)
  BY FunctionsAssumption
<1>2. p[1] \in DOMAIN fn.succ /\ p[2] \in DOMAIN fn.code[p[1]] /\ At(p) = fn.code[p[1]][p[2]]
  BY InstIs DEF At, Blocks
<1>3. \/ At(p).val = <<"inst", p[1], p[2]>>
      \/ \E c \in DOMAIN fn.succ : \E j \in DOMAIN fn.code[c] :
           At(p).val = <<"load", c, j>> /\ LoadBefore(fn, c, j, p[1], p[2])
  <2>1. Declares(fn, p[1], p[2]) \/ Accesses(fn, p[1], p[2])
    BY <1>1, <1>2 DEF Verified
  <2>2. At(p).val[1] # "addr"
    BY <1>1, <1>2 DEF AddressesKept
  <2> QED
    BY <1>2, <2>1, <2>2 DEF Declares, Accesses
<1>4. ASSUME NEW c \in DOMAIN fn.succ, NEW j \in DOMAIN fn.code[c],
             At(p).val = <<"load", c, j>>, LoadBefore(fn, c, j, p[1], p[2])
      PROVE  \E q \in Insts : /\ At(p).val = LoadOf(q) /\ At(q).op = "load"
                              /\ \/ q[1] = p[1] /\ q[2] < p[2]
                                 \/ q[1] # p[1] /\ \E S \in SUBSET Blocks : Around(S, q[1]) /\ p[1] \notin S
  <2> DEFINE q == <<c, j>>
  <2>1. q \in Insts /\ At(q) = fn.code[c][j] /\ LoadOf(q) = <<"load", c, j>> /\ q[1] = c /\ q[2] = j
    BY InstIs DEF Blocks, LoadOf
  <2> HIDE DEF q
  <2>2. At(q).op = "load"
    BY <1>4, <2>1 DEF LoadBefore
  <2>3. CASE c = p[1]
    BY <1>4, <2>1, <2>2, <2>3 DEF LoadBefore, Precedes
  <2>4. CASE c # p[1]
    <3>1. Separates(fn, c, p[1])
      BY <1>4, <2>4 DEF LoadBefore, Precedes
    <3>2. PICK S \in SUBSET (DOMAIN fn.succ \ {c, p[1]}) :
                 1 \in S \cup {c} /\ \A x \in S : Range(fn.succ[x]) \subseteq S \cup {c}
      BY <3>1 DEF Separates
    <3>3. S \in SUBSET Blocks /\ Around(S, c) /\ p[1] \notin S
      BY <3>2 DEF Around, Blocks
    <3> QED
      BY <1>4, <2>1, <2>2, <2>4, <3>3
  <2> QED
    BY <2>3, <2>4
<1> QED
  BY <1>3, <1>4

(* The function stays as it is.                                            *)
LEMMA SameFunction ==
  ASSUME fn' = fn
  PROVE  /\ Blocks' = Blocks /\ Insts' = Insts /\ Edges' = Edges
         /\ \A p : At(p)' = At(p)
         /\ \A p : Access(p)' = Access(p) /\ IntAlloca(p)' = IntAlloca(p)
         /\ \A p, a : IsAlloca(p, a)' = IsAlloca(p, a)
         /\ \A a : IntVar(a)' = IntVar(a)
         /\ \A a : AllocaOf(a)' = AllocaOf(a)
         /\ \A v : Stays(v)' = Stays(v)
         /\ \A f : AllStay(f)' = AllStay(f)
         /\ \A S, c : Around(S, c)' = Around(S, c)
         /\ \A b : Preds(b)' = Preds(b)
         /\ \A p, b : EdgesOf(p, b)' = EdgesOf(p, b)
<1>1. Blocks' = Blocks /\ Insts' = Insts /\ Edges' = Edges
  BY DEF Blocks, Insts, Edges
<1>2. \A p : At(p)' = At(p)
  BY DEF At
<1>3. \A p : Access(p)' = Access(p) /\ IntAlloca(p)' = IntAlloca(p)
  BY <1>1, <1>2 DEF Access, IntAlloca
<1>4. \A p, a : IsAlloca(p, a)' = IsAlloca(p, a)
  BY <1>1, <1>2 DEF IsAlloca
<1>5. \A a : IntVar(a)' = IntVar(a)
  BY <1>1, <1>3, <1>4 DEF IntVar
<1>6. \A a : AllocaOf(a)' = AllocaOf(a)
  BY <1>1, <1>2 DEF AllocaOf
<1>7. \A v : Stays(v)' = Stays(v)
  BY <1>2, <1>5 DEF Stays
<1>8. \A f : AllStay(f)' = AllStay(f)
  BY <1>7 DEF AllStay
<1>9. \A S, c : Around(S, c)' = Around(S, c)
  BY DEF Around
<1>10. \A b : Preds(b)' = Preds(b)
  BY <1>1 DEF Preds
<1>11. \A p, b : EdgesOf(p, b)' = EdgesOf(p, b)
  BY <1>10 DEF EdgesOf
<1> QED
  BY <1>1, <1>2, <1>3, <1>4, <1>5, <1>6, <1>7, <1>8, <1>9, <1>10, <1>11

(* The parts of the invariant, when what they speak of stays.              *)
LEMMA ErasingStays ==
  ASSUME Erasing, fn' = fn, erased' = erased, repl' = repl
  PROVE  Erasing'
BY SameFunction DEF Erasing, Left

(* The variables in the list are of integers.                              *)
LEMMA ListedStays ==
  ASSUME Listed, fn' = fn, Allocas' = Allocas, num' \in Nat, it' \in Nat, it' >= 1
  PROVE  Listed'
BY SameFunction DEF Listed, IntAlloca

(* What there is to promote is in the list.                                *)
LEMMA ListingStays ==
  ASSUME Listing, fn' = fn, erased' = erased, Allocas' = Allocas
  PROVE  Listing'
BY SameFunction DEF Listing, Promoted

(* Only allocas are erased before the clearing up.                         *)
LEMMA OnlyDeadStays ==
  ASSUME OnlyDead, fn' = fn, erased' = erased
  PROVE  OnlyDead'
BY SameFunction DEF OnlyDead

(* Phis may go.                                                            *)
LEMMA FullStays ==
  ASSUME Full, fn' = fn, phis' \subseteq phis, incoming' = incoming
  PROVE  Full'
BY SameFunction DEF Full, OperandsOf, From

(* Nothing left to promote stays so.                                       *)
LEMMA ClearedStays ==
  ASSUME Cleared, fn' = fn, phis' \subseteq phis, incoming' = incoming, erased' = erased
  PROVE  Cleared'
BY SameFunction, FullStays DEF Cleared

(* The operands of the phis.                                               *)
LEMMA FillingStays ==
  ASSUME NEW S, Filling(S), fn' = fn, Allocas' = Allocas, phis' = phis, incoming' = incoming
  PROVE  Filling(S)'
BY SameFunction DEF Filling, Promoted, OperandsOf, From

(* A variable to promote has an alloca of integers.                        *)
LEMMA PromotedIs ==
  ASSUME fn \in Functions, Listed, NEW a, Promoted(a)
  PROVE  /\ IntVar(a) /\ IntAlloca(AllocaOf(a)) /\ IsAlloca(AllocaOf(a), a)
<1>1. a \in {At(p).var : p \in {q \in Insts : IntAlloca(q)}}
  BY DEF Promoted, Listed, Range
<1>2. PICK p \in Insts : IntAlloca(p) /\ At(p).var = a
  BY <1>1
<1>3. IsAlloca(p, a)
  BY <1>2 DEF IsAlloca, IntAlloca
<1>4. AllocaOf(a) = p
  BY <1>3, AllocaIs
<1> QED
  BY <1>2, <1>3, <1>4 DEF IntVar

-----------------------------------------------------------------------------
(* What each step preserves.                                               *)
LEMMA PassStarts == PassInit => PassInv
<1> SUFFICES ASSUME PassInit PROVE PassInv
  OBVIOUS
<1>1. /\ fn \in Functions /\ phase = "collect" /\ Allocas = <<>> /\ num = 0 /\ BB = 1 /\ it = 1
      /\ phis = {} /\ incoming = <<>> /\ repl = <<>> /\ removable = <<>> /\ erased = {}
  BY DEF PassInit
<1>2. Erasing
  BY <1>1 DEF Erasing, AllStay
<1>3. Listed
  BY <1>1 DEF Listed
<1>4. CollectInv
  <2>1. \A p \in Insts : p[2] \in Nat /\ p[1] \in Blocks /\ p[2] \in DOMAIN fn.code[p[1]]
    BY <1>1, InstIs
  <2>2. \A p \in Insts : ~(p[2] < 1)
    BY <1>1, <2>1, Well
  <2> QED
    BY <1>1, <2>2 DEF CollectInv, Fresh
<1> QED
  BY <1>1, <1>2, <1>3, <1>4 DEF PassInv

(* An alloca of the entry is in the list or not to be promoted.            *)
LEMMA CollectInstKeeps == PassInv /\ CollectInst => PassInv'
<1> SUFFICES ASSUME PassInv, CollectInst PROVE PassInv'
  OBVIOUS
<1>0. PICK p : p = <<1, it>>
  OBVIOUS
<1>1. /\ phase = "collect" /\ BB \in Blocks /\ it \in DOMAIN fn.code[1] /\ it' = it + 1
      /\ Allocas' = IF isPromote(p) THEN Append(Allocas, fn.code[1][it].var) ELSE Allocas
      /\ fn' = fn /\ phase' = phase /\ num' = num /\ BB' = BB /\ phis' = phis /\ incoming' = incoming
      /\ repl' = repl /\ removable' = removable /\ erased' = erased
  BY <1>0 DEF CollectInst, code
<1>2. fn \in Functions /\ Erasing /\ Listed /\ CollectInv
  BY <1>1 DEF PassInv
<1>3. p \in Insts /\ At(p) = fn.code[1][it]
  BY <1>0, <1>1, <1>2, InstIs, Well
<1>4. Erasing'
  BY <1>1, <1>2, ErasingStays
<1>5. isPromote(p) <=> p \notin erased /\ IntAlloca(p)
  BY <1>0, <1>3 DEF isPromote, IntAlloca, Left
<1> DEFINE V == {At(q).var : q \in {r \in Insts : IntAlloca(r)}}
<1>6. Allocas \in Seq(V) /\ V' = V
  BY <1>1, <1>2, SameFunction DEF Listed
<1>7. isPromote(p) => At(p).var \in V
  BY <1>3, <1>5
<1>8. Allocas' \in Seq(V) /\ \A a : Promoted(a) => Promoted(a)'
  <2> HIDE DEF V
  <2>1. CASE isPromote(p)
    <3>1. Allocas' = Append(Allocas, At(p).var)
      BY <1>1, <1>3, <2>1
    <3> QED
      BY <1>6, <1>7, <2>1, <3>1, AppendedIs DEF Promoted, Range
  <2>2. CASE ~isPromote(p)
    BY <1>1, <1>6, <2>2 DEF Promoted
  <2> QED
    BY <2>1, <2>2
<1>9. isPromote(p) => Promoted(At(p).var)'
  <2> SUFFICES ASSUME isPromote(p) PROVE Promoted(At(p).var)'
    OBVIOUS
  <2>1. Allocas' = Append(Allocas, At(p).var) /\ At(p)' = At(p)
    BY <1>1, <1>3, SameFunction
  <2> HIDE DEF V
  <2> QED
    BY <1>6, <1>7, <2>1, AppendedIs DEF Promoted, Range
<1>10. Listed'
  <2>1. num' \in Nat /\ it' \in Nat /\ it' >= 1
    BY <1>1, <1>2 DEF Listed
  <2>2. Allocas' \in Seq(V')
    BY <1>6, <1>8
  <2> QED
    BY <2>1, <2>2 DEF Listed
<1>11. CollectInv'
  <2>1. CASE Cleared /\ Allocas = <<>>
    <3>1. ~isPromote(p)
      BY <1>5, <1>3, <2>1 DEF Cleared
    <3>2. Cleared' /\ Allocas' = <<>>
      BY <1>1, <2>1, <3>1, ClearedStays
    <3> QED
      BY <1>1, <1>2, <3>2 DEF CollectInv
  <2>2. CASE /\ Fresh /\ erased = {}
             /\ \A q \in Insts : IntAlloca(q) /\ (BB > 1 \/ q[2] < it) => Promoted(At(q).var)
    <3>1. Fresh' /\ erased' = {}
      BY <1>1, <2>2 DEF Fresh
    <3>2. ASSUME NEW q \in Insts, IntAlloca(q), BB > 1 \/ q[2] < it + 1
          PROVE  Promoted(At(q).var)'
      <4>1. q[1] = 1 /\ q[2] \in Nat /\ q = <<q[1], q[2]>> /\ it \in Nat
        BY <1>2, <3>2, InstOf, InstIs DEF IntAlloca, Listed
      <4>2. CASE BB > 1 \/ q[2] < it
        BY <1>1, <1>8, <2>2, <3>2, <4>2, SameFunction
      <4>3. CASE q[2] = it
        <5>1. q = p
          BY <1>0, <4>1, <4>3
        <5> QED
          BY <1>5, <1>9, <2>2, <3>2, <5>1
      <4> QED
        BY <3>2, <4>1, <4>2, <4>3
    <3> QED
      BY <1>1, <1>2, <3>1, <3>2, SameFunction DEF CollectInv
  <2> QED
    BY <1>2, <2>1, <2>2 DEF CollectInv
<1> QED
  BY <1>1, <1>2, <1>4, <1>10, <1>11 DEF PassInv

(* The entry has been searched once.                                       *)
LEMMA CollectBlockKeeps == PassInv /\ CollectBlock => PassInv'
<1> SUFFICES ASSUME PassInv, CollectBlock PROVE PassInv'
  OBVIOUS
<1>1. /\ phase = "collect" /\ BB \in Blocks /\ it \notin DOMAIN fn.code[1] /\ BB' = BB + 1 /\ it' = 1
      /\ fn' = fn /\ phase' = phase /\ num' = num /\ Allocas' = Allocas /\ phis' = phis
      /\ incoming' = incoming /\ repl' = repl /\ removable' = removable /\ erased' = erased
  BY DEF CollectBlock, code, round
<1>2. fn \in Functions /\ Erasing /\ Listed /\ CollectInv
  BY <1>1 DEF PassInv
<1>3. Erasing'
  BY <1>1, <1>2, ErasingStays
<1>4. Listed'
  <2>1. num' \in Nat /\ it' \in Nat /\ it' >= 1
    BY <1>1, <1>2 DEF Listed
  <2> QED
    BY <1>1, <1>2, <2>1, ListedStays
<1>5. CollectInv'
  <2>1. BB' \in Nat /\ BB' > 1 /\ BB \in Nat /\ BB >= 1
    BY <1>1, <1>2 DEF CollectInv
  <2>2. CASE Cleared /\ Allocas = <<>>
    <3>1. Cleared' /\ Allocas' = <<>>
      BY <1>1, <2>2, ClearedStays
    <3> QED
      BY <2>1, <3>1 DEF CollectInv
  <2>3. CASE /\ Fresh /\ erased = {}
             /\ \A q \in Insts : IntAlloca(q) /\ (BB > 1 \/ q[2] < it) => Promoted(At(q).var)
    <3>1. Fresh' /\ erased' = {}
      BY <1>1, <2>3 DEF Fresh
    <3>2. ASSUME NEW q \in Insts, IntAlloca(q) PROVE Promoted(At(q).var)
      <4>1. q[1] = 1 /\ q[2] \in DOMAIN fn.code[1] /\ q[2] \in Nat
        BY <1>2, <3>2, InstOf, InstIs DEF IntAlloca
      <4>2. q[2] < it
        <5>1. it \in Nat /\ it >= 1
          BY <1>2 DEF Listed
        <5>2. Len(fn.code[1]) \in Nat /\ DOMAIN fn.code[1] = 1 .. Len(fn.code[1])
          BY <1>2, Well
        <5> QED
          BY <1>1, <4>1, <5>1, <5>2
      <4> QED
        BY <2>3, <3>2, <4>2
    <3>3. \A q \in Insts' : IntAlloca(q)' => Promoted(At(q).var)'
      BY <1>1, <3>2, SameFunction DEF Promoted
    <3> QED
      BY <2>1, <3>1, <3>3 DEF CollectInv
  <2> QED
    BY <1>2, <2>2, <2>3 DEF CollectInv
<1> QED
  BY <1>1, <1>2, <1>3, <1>4, <1>5 DEF PassInv

(* The search is over: the run, if nothing was found.                      *)
LEMMA CollectedKeeps == PassInv /\ Collected => PassInv'
<1> SUFFICES ASSUME PassInv, Collected PROVE PassInv'
  OBVIOUS
<1>1. /\ phase = "collect" /\ BB \notin Blocks
      /\ IF Allocas = <<>> THEN phase' = "run" ELSE phase' = "dead"
      /\ num' = 1 /\ BB' = 0 /\ it' = it
      /\ fn' = fn /\ Allocas' = Allocas /\ phis' = phis
      /\ incoming' = incoming /\ repl' = repl /\ removable' = removable /\ erased' = erased
  BY DEF Collected, code, renaming
<1>2. fn \in Functions /\ Erasing /\ Listed /\ CollectInv
  BY <1>1 DEF PassInv
<1>3. Erasing'
  BY <1>1, <1>2, ErasingStays
<1>4. Listed'
  <2>1. num' \in Nat /\ it' \in Nat /\ it' >= 1
    BY <1>1, <1>2 DEF Listed
  <2> QED
    BY <1>1, <1>2, <2>1, ListedStays
<1>5. CASE Allocas = <<>>
  <2>1. Full
    <3>1. phis = {} => Full
      BY DEF Full
    <3> QED
      BY <1>2, <3>1 DEF CollectInv, Fresh, Cleared
  <2>2. Full'
    BY <1>1, <2>1, FullStays
  <2>3. phase' = "run"
    BY <1>1, <1>5
  <2> QED
    BY <1>1, <1>2, <1>3, <1>4, <2>2, <2>3 DEF PassInv
<1>6. CASE Allocas # <<>>
  <2>1. phase' = "dead"
    BY <1>1, <1>6
  <2>2. /\ Fresh /\ erased = {}
        /\ \A q \in Insts : IntAlloca(q) /\ (BB > 1 \/ q[2] < it) => Promoted(At(q).var)
    BY <1>2, <1>6 DEF CollectInv
  <2>3. BB > 1
    BY <1>1, <1>2, Well DEF CollectInv
  <2>4. Fresh' /\ OnlyDead'
    BY <1>1, <2>2 DEF Fresh, OnlyDead
  <2>5. Listing'
    <3>1. Listing
      BY <2>2, <2>3 DEF Listing
    <3> QED
      BY <1>1, <3>1, ListingStays
  <2> QED
    BY <1>1, <1>2, <1>3, <1>4, <2>1, <2>4, <2>5 DEF PassInv, DeadInv
<1> QED
  BY <1>5, <1>6

(* A variable with users stays in the list.                                *)
LEMMA AnalyseKeeps == PassInv /\ Analyse => PassInv'
<1> SUFFICES ASSUME PassInv, Analyse PROVE PassInv'
  OBVIOUS
<1>1. /\ phase = "dead" /\ num' = num + 1 /\ it' = it /\ BB' = BB
      /\ fn' = fn /\ phase' = phase /\ Allocas' = Allocas /\ phis' = phis
      /\ incoming' = incoming /\ repl' = repl /\ removable' = removable /\ erased' = erased
  BY DEF Analyse, code, renaming
<1>2. fn \in Functions /\ Erasing /\ Listed /\ DeadInv
  BY <1>1 DEF PassInv
<1>3. Erasing'
  BY <1>1, <1>2, ErasingStays
<1>4. Listed' /\ num' >= 1
  <2>1. num' \in Nat /\ it' \in Nat /\ it' >= 1 /\ num' >= 1
    BY <1>1, <1>2 DEF Listed
  <2> QED
    BY <1>1, <1>2, <2>1, ListedStays
<1>5. Fresh' /\ OnlyDead' /\ Listing' /\ BB' = 0
  <2>1. Fresh'
    BY <1>1, <1>2 DEF DeadInv, Fresh
  <2>2. OnlyDead' /\ Listing'
    BY <1>1, <1>2, OnlyDeadStays, ListingStays DEF DeadInv
  <2> QED
    BY <1>1, <1>2, <2>1, <2>2 DEF DeadInv
<1> QED
  BY <1>1, <1>2, <1>3, <1>4, <1>5 DEF PassInv, DeadInv

(* No phi yet.                                                             *)
LEMMA StartPhisKeeps == PassInv /\ StartPhis => PassInv'
<1> SUFFICES ASSUME PassInv, StartPhis PROVE PassInv'
  OBVIOUS
<1>1. /\ phase = "dead" /\ num' = 1 /\ it' = it /\ BB' = BB
      /\ fn' = fn /\ phase' = "phis" /\ Allocas' = Allocas /\ phis' = phis
      /\ incoming' = incoming /\ repl' = repl /\ removable' = removable /\ erased' = erased
  BY DEF StartPhis, PhisFor, code, renaming
<1>2. fn \in Functions /\ Erasing /\ Listed /\ DeadInv
  BY <1>1 DEF PassInv
<1>3. Erasing'
  BY <1>1, <1>2, ErasingStays
<1>4. Listed' /\ num' >= 1
  <2>1. num' \in Nat /\ it' \in Nat /\ it' >= 1 /\ num' >= 1
    BY <1>1, <1>2 DEF Listed
  <2> QED
    BY <1>1, <1>2, <2>1, ListedStays
<1>5. OnlyDead' /\ Listing' /\ BB' = 0
  BY <1>1, <1>2, OnlyDeadStays, ListingStays DEF DeadInv
<1>6. repl' = <<>> /\ removable' = <<>> /\ phis' = {} /\ incoming' = <<>>
  BY <1>1, <1>2 DEF DeadInv, Fresh
<1>7. Filling({})'
  BY <1>6 DEF Filling
<1> QED
  BY <1>1, <1>2, <1>3, <1>4, <1>5, <1>6, <1>7 DEF PassInv, PhisInv

(* The phis of one variable are there.                                     *)
LEMMA NextAllocaKeeps == PassInv /\ NextAlloca => PassInv'
<1> SUFFICES ASSUME PassInv, NextAlloca PROVE PassInv'
  OBVIOUS
<1>1. /\ phase = "phis" /\ num' = num + 1 /\ it' = it /\ BB' = BB
      /\ fn' = fn /\ phase' = phase /\ Allocas' = Allocas /\ phis' = phis
      /\ incoming' = incoming /\ repl' = repl /\ removable' = removable /\ erased' = erased
  BY DEF NextAlloca, PhisFor, code, renaming
<1>2. fn \in Functions /\ Erasing /\ Listed /\ PhisInv
  BY <1>1 DEF PassInv
<1>3. Erasing'
  BY <1>1, <1>2, ErasingStays
<1>4. Listed' /\ num' >= 1
  <2>1. num' \in Nat /\ it' \in Nat /\ it' >= 1 /\ num' >= 1
    BY <1>1, <1>2 DEF Listed
  <2> QED
    BY <1>1, <1>2, <2>1, ListedStays
<1>5. OnlyDead' /\ Listing' /\ BB' = 0
  BY <1>1, <1>2, OnlyDeadStays, ListingStays DEF PhisInv
<1>6. repl' = <<>> /\ removable' = <<>>
  BY <1>1, <1>2 DEF PhisInv
<1>7. Filling({})'
  <2>1. Filling({})
    BY <1>2 DEF PhisInv
  <2> QED
    BY <1>1, <2>1, FillingStays
<1> QED
  BY <1>1, <1>2, <1>3, <1>4, <1>5, <1>6, <1>7 DEF PassInv, PhisInv

(* The renaming starts at the entry, with undefined values.                *)
LEMMA StartRenamingKeeps == PassInv /\ StartRenaming => PassInv'
<1> SUFFICES ASSUME PassInv, StartRenaming PROVE PassInv'
  OBVIOUS
<1> DEFINE w == [block |-> 1, values |-> [a \in Range(Allocas) |-> Undef]]
<1>1. /\ phase = "phis" /\ num' = num /\ it' = it /\ BB' = BB
      /\ fn' = fn /\ phase' = "rename" /\ Allocas' = Allocas /\ phis' = phis
      /\ incoming' = incoming /\ repl' = repl /\ removable' = removable /\ erased' = erased
      /\ WorkList' = <<w>> /\ VisitedSet' = {}
  BY DEF StartRenaming, code, round
<1>2. fn \in Functions /\ Erasing /\ Listed /\ PhisInv
  BY <1>1 DEF PassInv
<1>3. Erasing'
  BY <1>1, <1>2, ErasingStays
<1>4. Listed'
  <2>1. num' \in Nat /\ it' \in Nat /\ it' >= 1
    BY <1>1, <1>2 DEF Listed
  <2> QED
    BY <1>1, <1>2, <2>1, ListedStays
<1>5. OnlyDead' /\ Listing' /\ BB' = 0
  BY <1>1, <1>2, OnlyDeadStays, ListingStays DEF PhisInv
<1>6. Filling(VisitedSet \ {BB})'
  <2>1. Filling({})
    BY <1>2 DEF PhisInv
  <2>2. Filling({})'
    BY <1>1, <2>1, FillingStays
  <2>3. VisitedSet' \ {BB'} = {}
    BY <1>1
  <2> QED
    BY <2>2, <2>3
<1>w. w.block = 1 /\ DOMAIN w.values = Range(Allocas) /\ \A a \in Range(Allocas) : w.values[a] = Undef
  OBVIOUS
<1> HIDE DEF w
<1>7. Len(WorkList') = 1 /\ DOMAIN WorkList' = {1} /\ WorkList'[1] = w /\ WorkList' \in Seq({w})
  BY <1>1
<1>8. Spreading'
  <2>1. \A b : InWork(b)' <=> b = 1
    BY <1>7, <1>w DEF InWork
  <2>2. \A c \in Blocks : \A S \in SUBSET Blocks : Around(S, c) => 1 \in S \cup {c}
    BY DEF Around
  <2> QED
    BY <1>1, <1>5, <2>1, <2>2, SameFunction DEF Spreading
<1>9. Carrying'
  <2>1. Stays(Undef)
    BY DEF Stays, Undef
  <2>2. AllStay(w.values)
    BY <1>w, <2>1 DEF AllStay
  <2>3. WorkList' \in Seq(Range(WorkList'))
    BY <1>7, OwnRange
  <2>4. 1 \in Blocks
    BY <1>2, Well
  <2> QED
    BY <1>1, <1>5, <1>7, <1>w, <2>2, <2>3, <2>4, SameFunction DEF Carrying
<1>10. Removing'
  <2>1. \A p : ~Passed(p)'
    BY <1>1 DEF Passed
  <2>2. removable' = <<>>
    BY <1>1, <1>2 DEF PhisInv
  <2> QED
    BY <2>1, <2>2 DEF Removing, Handled
<1> QED
  BY <1>1, <1>2, <1>3, <1>4, <1>5, <1>6, <1>8, <1>9, <1>10 DEF PassInv, RenameInv

(* The alloca erased is that of a variable no instruction left accesses.   *)
LEMMA DeleteDeadKeeps == PassInv /\ DeleteDead => PassInv'
<1> SUFFICES ASSUME PassInv, DeleteDead PROVE PassInv'
  OBVIOUS
<1>1. /\ phase = "dead" /\ num <= Len(Allocas) /\ num' = num /\ it' = it /\ BB' = BB
      /\ fn' = fn /\ phase' \in {"undefined", "dead"} /\ phis' = phis
      /\ incoming' = incoming /\ repl' = repl /\ removable' = removable
      /\ UsersOf(Allocas[num]) = {}
      /\ Allocas' = Front([Allocas EXCEPT ![num] = Last(Allocas)])
      /\ erased' = erased \cup {AllocaOf(Allocas[num])}
  BY DEF DeleteDead, renaming
<1>2. fn \in Functions /\ Erasing /\ Listed /\ DeadInv
  BY <1>1 DEF PassInv
<1>a. PICK a : a = Allocas[num]
  OBVIOUS
<1>q. PICK q : q = AllocaOf(a)
  OBVIOUS
<1> DEFINE V == {At(p).var : p \in {r \in Insts : IntAlloca(r)}}
           s == [Allocas EXCEPT ![num] = Last(Allocas)]
<1>3. Allocas \in Seq(V) /\ V' = V /\ num \in Nat /\ num >= 1
  BY <1>1, <1>2, SameFunction DEF Listed, DeadInv
<1>4. /\ Allocas' \in Seq(V) /\ Promoted(a)
      /\ \A b : Promoted(b) => Promoted(b)' \/ b = a
  <2> HIDE DEF V
  <2>1. /\ Len(Allocas) \in Nat /\ DOMAIN Allocas = 1 .. Len(Allocas) /\ num \in DOMAIN Allocas
        /\ Len(Allocas) \in DOMAIN Allocas /\ Last(Allocas) = Allocas[Len(Allocas)]
        /\ \A k \in DOMAIN Allocas : Allocas[k] \in V
    BY <1>1, <1>3 DEF Last
  <2>2. /\ s \in Seq(V) /\ Len(s) = Len(Allocas) /\ DOMAIN s = DOMAIN Allocas
        /\ s[num] = Allocas[Len(Allocas)]
        /\ \A k \in DOMAIN Allocas : k # num => s[k] = Allocas[k]
    <3>1. Last(Allocas) \in V
      BY <2>1
    <3>2. \A k \in DOMAIN Allocas : k # num => s[k] = Allocas[k]
      BY <2>1
    <3>3. s[num] = Last(Allocas)
      BY <2>1
    <3>4. s \in Seq(V) /\ Len(s) = Len(Allocas)
      BY <1>3, <2>1, <3>1, ExceptSeq
    <3>5. DOMAIN s = DOMAIN Allocas
      OBVIOUS
    <3> QED
      BY <2>1, <3>2, <3>3, <3>4, <3>5
  <2> HIDE DEF s
  <2>3. /\ Allocas' \in Seq(V) /\ Len(Allocas') = Len(Allocas) - 1
        /\ DOMAIN Allocas' = 1 .. Len(Allocas) - 1
        /\ \A i \in 1 .. Len(Allocas) - 1 : Allocas'[i] = s[i]
    <3>1. s # <<>>
      BY <2>1, <2>2
    <3>2. Allocas' = Front(s)
      BY <1>1 DEF s
    <3>3. s \in Seq(V)
      BY <2>2
    <3>4. /\ Front(s) \in Seq(V) /\ Len(Front(s)) = Len(s) - 1
          /\ DOMAIN Front(s) = 1 .. Len(s) - 1
          /\ \A i \in 1 .. Len(s) - 1 : Front(s)[i] = s[i]
      BY <3>1, <3>3, FrontIs
    <3> QED
      BY <2>2, <3>2, <3>4
  <2>4. ASSUME NEW k \in DOMAIN Allocas, k # num
        PROVE  \E i \in DOMAIN Allocas' : Allocas'[i] = Allocas[k]
    <3>1. CASE k = Len(Allocas)
      <4>1. num \in 1 .. Len(Allocas) - 1
        BY <2>1, <2>4, <3>1
      <4> QED
        BY <2>2, <2>3, <3>1, <4>1
    <3>2. CASE k # Len(Allocas)
      <4>1. k \in 1 .. Len(Allocas) - 1
        BY <2>1, <2>4, <3>2
      <4> QED
        BY <2>2, <2>3, <2>4, <4>1
    <3> QED
      BY <3>1, <3>2
  <2>5. Promoted(a)
    BY <1>a, <2>1 DEF Promoted, Range
  <2>6. \A b : Promoted(b) => Promoted(b)' \/ b = a
    BY <1>a, <2>4 DEF Promoted, Range
  <2> QED
    BY <2>3, <2>5, <2>6
<1>5. IntAlloca(q) /\ IsAlloca(q, a) /\ IntVar(a) /\ q \in Insts /\ At(q).op = "alloca" /\ At(q).var = a
  BY <1>2, <1>4, <1>q, PromotedIs DEF IsAlloca
<1>6. erased' = erased \cup {q}
  BY <1>1, <1>a, <1>q
<1>7. Erasing'
  <2>1. erased' \subseteq Insts
    BY <1>2, <1>5, <1>6 DEF Erasing
  <2>2. ASSUME NEW p \in Insts \ erased', Access(p) PROVE AllocaOf(At(p).var) \notin erased'
    <3>1. p \in Left
      BY <1>6, <2>2 DEF Left
    <3>2. AllocaOf(At(p).var) \notin erased
      BY <1>2, <2>2, <3>1 DEF Erasing
    <3>3. AllocaOf(At(p).var) # q
      <4>1. At(p).var # a
        BY <1>1, <1>a, <2>2, <3>1 DEF UsersOf, Access
      <4> QED
        BY <1>2, <1>5, <2>2, <4>1, AccessIs DEF IsAlloca
    <3> QED
      BY <1>6, <3>2, <3>3
  <2>3. \A p \in erased' : IntVar(At(p).var)
    BY <1>2, <1>5, <1>6 DEF Erasing
  <2>4. \A p \in erased' : At(p).op = "load" => LoadOf(p) \in DOMAIN repl
    BY <1>2, <1>5, <1>6 DEF Erasing
  <2>5. AllStay(repl)
    BY <1>2 DEF Erasing
  <2> QED
    BY <1>1, <2>1, <2>2, <2>3, <2>4, <2>5, SameFunction DEF Erasing, Left
<1>8. Listed'
  <2>1. num' \in Nat /\ it' \in Nat /\ it' >= 1
    BY <1>1, <1>2 DEF Listed
  <2>2. Allocas' \in Seq(V')
    BY <1>3, <1>4
  <2> QED
    BY <2>1, <2>2 DEF Listed
<1>9. DeadInv'
  <2>1. Fresh' /\ num' >= 1 /\ BB' = 0
    BY <1>1, <1>2 DEF DeadInv, Fresh
  <2>2. OnlyDead'
    BY <1>1, <1>2, <1>5, <1>6, SameFunction DEF DeadInv, OnlyDead
  <2>3. Listing'
    <3>1. ASSUME NEW p \in Insts, IntAlloca(p) PROVE p \in erased' \/ Promoted(At(p).var)'
      <4>1. CASE At(p).var = a
        <5>1. p = q
          BY <1>2, <1>5, <3>1, <4>1, AllocaIs DEF IntAlloca, IsAlloca
        <5> QED
          BY <1>6, <5>1
      <4>2. CASE At(p).var # a
        BY <1>1, <1>2, <1>4, <1>6, <3>1, <4>2, SameFunction DEF DeadInv, Listing
      <4> QED
        BY <4>1, <4>2
    <3> QED
      BY <1>1, <3>1, SameFunction DEF Listing
  <2> QED
    BY <2>1, <2>2, <2>3 DEF DeadInv
<1> QED
  BY <1>1, <1>2, <1>7, <1>8, <1>9 DEF PassInv

(* A phi inserted has no operand yet.                                      *)
LEMMA InsertPhisKeeps == PassInv /\ InsertPhis => PassInv'
<1> SUFFICES ASSUME PassInv, InsertPhis PROVE PassInv'
  OBVIOUS
<1>0. PICK X \in W :
       LET fresh == NeedPhi(X)
           made  == {<<"phi", Y, Allocas[num], num>> : Y \in fresh}
       IN /\ phis' = phis \cup made
          /\ incoming' = [p \in phis' |-> IF p \in made THEN <<>> ELSE incoming[p]]
  BY DEF InsertPhis
<1> DEFINE made == {<<"phi", Y, Allocas[num], num>> : Y \in NeedPhi(X)}
<1>1. /\ phase = "phis" /\ num <= Len(Allocas) /\ num' = num /\ it' = it /\ BB' = BB
      /\ fn' = fn /\ phase' = phase /\ Allocas' = Allocas
      /\ repl' = repl /\ removable' = removable /\ erased' = erased
  BY DEF InsertPhis, round
<1>2. fn \in Functions /\ Erasing /\ Listed /\ PhisInv
  BY <1>1 DEF PassInv
<1>3. Erasing'
  BY <1>1, <1>2, ErasingStays
<1>4. Listed' /\ num' >= 1 /\ num \in Nat
  <2>1. num' \in Nat /\ it' \in Nat /\ it' >= 1 /\ num' >= 1 /\ num \in Nat
    BY <1>1, <1>2 DEF Listed, PhisInv
  <2> QED
    BY <1>1, <1>2, <2>1, ListedStays
<1>5. OnlyDead' /\ Listing' /\ BB' = 0
  BY <1>1, <1>2, OnlyDeadStays, ListingStays DEF PhisInv
<1>6. repl' = <<>> /\ removable' = <<>>
  BY <1>1, <1>2 DEF PhisInv
<1>7. phis' = phis \cup made /\ incoming' = [p \in phis' |-> IF p \in made THEN <<>> ELSE incoming[p]]
  BY <1>0
<1>8. \A p \in made : p[1] = "phi" /\ Promoted(p[3]) /\ p[4] \in Nat
  <2>1. num \in DOMAIN Allocas
    BY <1>1, <1>2, <1>4 DEF Listed, PhisInv
  <2> QED
    BY <1>4, <2>1 DEF Promoted, Range
<1> HIDE DEF made
<1>9. Filling({})'
  <2>1. Filling({})
    BY <1>2 DEF PhisInv
  <2>2. DOMAIN incoming' = phis'
    BY <1>7
  <2>3. ASSUME NEW p \in phis'
        PROVE  /\ p[1] = "phi" /\ Promoted(p[3])' /\ p[4] \in Nat
               /\ incoming'[p] \in Seq(Range(incoming'[p])) /\ OperandsOf(p, {})'
    <3>1. CASE p \in made
      <4>1. incoming'[p] = <<>>
        BY <1>7, <3>1
      <4>2. \A b : From(p, b)' = {}
        BY <4>1 DEF From
      <4>3. OperandsOf(p, {})'
        BY <4>2, FS_EmptySet DEF OperandsOf
      <4> QED
        BY <1>1, <1>8, <3>1, <4>1, <4>3 DEF Promoted
    <3>2. CASE p \notin made
      <4>1. p \in phis /\ incoming'[p] = incoming[p]
        BY <1>7, <3>2
      <4>2. OperandsOf(p, {})'
        BY <1>1, <2>1, <4>1, SameFunction DEF Filling, OperandsOf, From
      <4> QED
        BY <1>1, <2>1, <4>1, <4>2 DEF Filling, Promoted
    <3> QED
      BY <3>1, <3>2
  <2> QED
    BY <2>2, <2>3 DEF Filling
<1> QED
  BY <1>1, <1>2, <1>3, <1>4, <1>5, <1>6, <1>9 DEF PassInv, PhisInv

-----------------------------------------------------------------------------
(* How far the renaming is.  A block is visited after those that all ways  *)
(* to it lead through, the entry among them.                               *)
LEMMA EntryVisited ==
  ASSUME fn \in Functions, Spreading, BB # 0
  PROVE  BB \in VisitedSet /\ BB \in Blocks /\ 1 \in VisitedSet
<1>1. BB \in VisitedSet /\ BB \in Blocks /\ 1 \in Blocks
  BY Well DEF Spreading
<1>2. Around({}, 1)
  BY DEF Around
<1>3. {} \in SUBSET Blocks
  OBVIOUS
<1>4. ASSUME 1 \notin VisitedSet PROVE FALSE
  <2>1. VisitedSet \subseteq {}
    BY <1>1, <1>2, <1>3, <1>4 DEF Spreading
  <2> QED
    BY <1>1, <2>1
<1> QED
  BY <1>1, <1>4

(* A block that all ways to the one visited lead through was visited.      *)
LEMMA DominatorVisited ==
  ASSUME fn \in Functions, Spreading, BB # 0,
         NEW c \in Blocks, NEW S \in SUBSET Blocks, Around(S, c), BB \notin S
  PROVE  c \in VisitedSet
BY EntryVisited DEF Spreading

(* When nothing waits, every block was visited: all are reachable.         *)
LEMMA AllVisited ==
  ASSUME fn \in Functions, Spreading, BB = 0, WorkList = <<>>
  PROVE  VisitedSet = Blocks
<1>1. \A b : ~InWork(b)
  BY DEF InWork
<1>2. VisitedSet \ {BB} = VisitedSet /\ VisitedSet \subseteq Blocks
  BY Well DEF Spreading
<1>3. 1 \in VisitedSet
  BY <1>1 DEF Spreading
<1>4. \A b \in VisitedSet \ {BB} : \A c \in Range(fn.succ[b]) : c \in VisitedSet \/ InWork(c)
  BY DEF Spreading
<1>5. \A b \in VisitedSet : Range(fn.succ[b]) \subseteq VisitedSet
  BY <1>1, <1>2, <1>4
<1> QED
  BY <1>2, <1>3, <1>5, Well

(* What was visited and what waits.                                        *)
LEMMA SpreadingStays ==
  ASSUME Spreading, fn' = fn, VisitedSet' = VisitedSet, BB' = BB, WorkList' = WorkList
  PROVE  Spreading'
<1>1. \A b : InWork(b)' = InWork(b)
  BY DEF InWork
<1> QED
  BY <1>1, SameFunction DEF Spreading

(* The values carried.                                                     *)
LEMMA CarryingStays ==
  ASSUME Carrying, fn' = fn, Allocas' = Allocas, BB' = BB, WorkList' = WorkList,
         BB # 0 => Range(Allocas) \subseteq DOMAIN IncommingValues' /\ AllStay(IncommingValues')
  PROVE  Carrying'
BY SameFunction DEF Carrying

(* The list of instructions to remove.                                     *)
LEMMA RemovingStays ==
  ASSUME Removing, fn' = fn, Allocas' = Allocas, removable' = removable, repl' = repl, erased' = erased,
         \A p \in Insts : Passed(p)' = Passed(p)
  PROVE  Removing'
<1>1. ASSUME NEW i \in DOMAIN removable PROVE RemovedOnce(i)'
  <2>1. RemovedOnce(i) /\ removable[i] \in Insts
    BY DEF Removing
  <2>2. PICK r \in Insts : r = removable[i]
    BY <2>1
  <2>3. Promoted(At(r).var)' /\ Passed(r)'
    BY <2>1, <2>2, SameFunction DEF RemovedOnce, Promoted
  <2> QED
    BY <2>1, <2>2, <2>3, SameFunction DEF RemovedOnce
<1>2. \A p \in Insts : Handled(p)'
  BY SameFunction DEF Removing, Handled, Promoted
<1> QED
  BY <1>1, <1>2, SameFunction DEF Removing

(* Whatever operands become, they come from where they came.               *)
LEMMA OperandsReplaced ==
  ASSUME NEW S, Filling(S), fn' = fn, Allocas' = Allocas, phis' = phis, NEW from, NEW to,
         incoming' = [p \in DOMAIN incoming |-> ReplacedOperand(incoming[p], from, to)]
  PROVE  Filling(S)'
<1>1. DOMAIN incoming' = phis'
  BY DEF Filling
<1>2. ASSUME NEW p \in phis
      PROVE  incoming'[p] \in Seq(Range(incoming'[p])) /\ \A b : From(p, b)' = From(p, b)
  <2> DEFINE s == incoming[p]
             t == ReplacedOperand(s, from, to)
  <2>1. incoming'[p] = t /\ s \in Seq(Range(s))
    BY DEF Filling
  <2>2. Len(s) \in Nat /\ DOMAIN s = 1 .. Len(s)
    <3> HIDE DEF s
    <3> QED
      BY <2>1
  <2> HIDE DEF s
  <2>3. t = [k \in 1 .. Len(s) |-> IF s[k][2] = from THEN <<s[k][1], to>> ELSE s[k]]
    BY <2>2 DEF ReplacedOperand
  <2>4. DOMAIN t = DOMAIN s /\ \A k \in DOMAIN s : t[k][1] = s[k][1]
    BY <2>2, <2>3
  <2>5. t \in Seq(Range(t))
    <3>1. \A k \in 1 .. Len(s) : t[k] \in Range(t)
      BY <2>3 DEF Range
    <3>2. t = [k \in 1 .. Len(s) |-> t[k]]
      BY <2>3
    <3> HIDE DEF t
    <3> QED
      BY <2>2, <3>1, <3>2
  <2> HIDE DEF t
  <2>6. \A b : From(p, b)' = From(p, b)
    BY <2>1, <2>4 DEF From, s
  <2> QED
    BY <2>1, <2>5, <2>6
<1>3. ASSUME NEW p \in phis PROVE OperandsOf(p, S)'
  BY <1>2, SameFunction DEF Filling, OperandsOf
<1> QED
  BY <1>1, <1>2, <1>3 DEF Filling, Promoted

(* The instruction that the renaming is at, and what stays the same.       *)
LEMMA RenamedIs ==
  ASSUME PassInv, NEW op, Renames(op), NEW p, p = <<BB, it>>
  PROVE  /\ p \in Insts /\ At(p) = fn.code[BB][it] /\ At(p).op = op /\ Promoted(At(p).var) /\ p \notin erased
         /\ phase = "rename" /\ phase' = phase /\ BB # 0 /\ fn \in Functions /\ fn' = fn
         /\ Allocas' = Allocas /\ phis' = phis /\ erased' = erased /\ BB' = BB /\ it' = it + 1
         /\ WorkList' = WorkList /\ VisitedSet' = VisitedSet /\ removable' = Append(removable, p)
         /\ Erasing /\ Listed /\ RenameInv
         /\ Listed' /\ Listing' /\ Spreading' /\ OnlyDead'
<1>1. /\ phase = "rename" /\ phase' = phase /\ BB # 0 /\ fn' = fn /\ num' = num
      /\ it \in DOMAIN fn.code[BB] /\ p \notin erased /\ fn.code[BB][it].var \in Range(Allocas)
      /\ fn.code[BB][it].op = op
      /\ Allocas' = Allocas /\ phis' = phis /\ erased' = erased /\ BB' = BB /\ it' = it + 1
      /\ WorkList' = WorkList /\ VisitedSet' = VisitedSet /\ removable' = Append(removable, p)
  BY DEF Renames, round
<1>2. fn \in Functions /\ Erasing /\ Listed /\ RenameInv
  BY <1>1 DEF PassInv
<1>3. BB \in Blocks
  BY <1>1, <1>2, EntryVisited DEF RenameInv
<1>4. p \in Insts /\ At(p) = fn.code[BB][it]
  BY <1>1, <1>2, <1>3, InstIs
<1>5. Listed'
  <2>1. num' \in Nat /\ it' \in Nat /\ it' >= 1
    BY <1>1, <1>2 DEF Listed
  <2> QED
    BY <1>1, <1>2, <2>1, ListedStays
<1>6. Listing' /\ Spreading'
  BY <1>1, <1>2, ListingStays, SpreadingStays DEF RenameInv
<1>7. OnlyDead'
  BY <1>1, <1>2, OnlyDeadStays DEF RenameInv, Early
<1> QED
  BY <1>1, <1>2, <1>4, <1>5, <1>6, <1>7 DEF Promoted

(* The instruction is one more to remove, after its variable's alloca.     *)
LEMMA RemovingGrows ==
  ASSUME PassInv, NEW op, Renames(op), NEW p, p = <<BB, it>>,
         DOMAIN repl \subseteq DOMAIN repl', op = "load" => LoadOf(p) \in DOMAIN repl'
  PROVE  Removing'
<1>1. /\ p \in Insts /\ At(p).op = op /\ Promoted(At(p).var) /\ p \notin erased
      /\ BB # 0 /\ fn \in Functions /\ fn' = fn
      /\ Allocas' = Allocas /\ erased' = erased /\ BB' = BB /\ it' = it + 1
      /\ VisitedSet' = VisitedSet /\ removable' = Append(removable, p)
      /\ Erasing /\ Listed /\ Spreading /\ Removing
  BY RenamedIs DEF RenameInv
<1>2. p[1] = BB /\ p[2] = it /\ BB \in VisitedSet /\ 1 \in VisitedSet /\ it \in Nat
  BY <1>1, EntryVisited DEF Listed
<1>3. removable \in Seq(Insts)
  BY <1>1 DEF Removing
<1> DEFINE n == Len(removable)
<1>4. /\ removable' \in Seq(Insts) /\ n \in Nat /\ DOMAIN removable = 1 .. n /\ DOMAIN removable' = 1 .. n + 1
      /\ removable'[n + 1] = p /\ \A i \in DOMAIN removable : i \in DOMAIN removable' /\ removable'[i] = removable[i]
  BY <1>1, <1>3, AppendedIs
<1> HIDE DEF n
<1>5. \A q \in Insts : Passed(q)' <=> Passed(q) \/ q = p
  <2>1. ASSUME NEW q \in Insts PROVE (q[1] = BB => q[2] < it + 1) <=> (q[1] = BB => q[2] < it) \/ q = p
    <3>1. q = <<q[1], q[2]>> /\ q[2] \in Nat
      BY <1>1, InstIs
    <3>2. q = p <=> q[1] = BB /\ q[2] = it
      BY <1>2, <3>1
    <3> QED
      BY <1>2, <3>1, <3>2
  <2>2. p[1] \in VisitedSet
    BY <1>2
  <2> QED
    BY <1>1, <2>1, <2>2, SameFunction DEF Passed
<1>6. ~Passed(p)
  BY <1>1, <1>2 DEF Passed
<1>7. Access(p) => \E j \in DOMAIN removable : removable[j] = AllocaOf(At(p).var)
  <2> SUFFICES ASSUME Access(p) PROVE \E j \in DOMAIN removable : removable[j] = AllocaOf(At(p).var)
    OBVIOUS
  <2>1. PICK q : q = AllocaOf(At(p).var)
    OBVIOUS
  <2>6. q[1] = 1
    BY <1>1, <2>1, PromotedIs DEF IntAlloca
  <2>2. q \in Insts /\ q[1] = 1 /\ (p[1] = 1 => q[2] < p[2]) /\ At(q).var = At(p).var
    BY <1>1, <2>1, <2>6, AccessIs DEF IsAlloca
  <2>3. Passed(q)
    BY <1>2, <2>2 DEF Passed
  <2>4. q \notin erased
    BY <1>1, <2>1 DEF Erasing, Left
  <2>5. q \in Range(removable)
    BY <1>1, <2>2, <2>3, <2>4 DEF Removing, RemovedOnce, Handled
  <2> QED
    BY <2>1, <2>5 DEF Range
<1>8. ASSUME NEW i \in DOMAIN removable'
      PROVE  RemovedOnce(i)'
  <2>0. PICK r : r = removable'[i]
    OBVIOUS
  <2>1. CASE i = n + 1
    <3>1. r = p
      BY <1>4, <2>0, <2>1
    <3>2. Promoted(At(r).var)' /\ r \notin erased' /\ Passed(r)'
      BY <1>1, <1>5, <3>1, SameFunction DEF Promoted
    <3>3. At(r)'.op = "load" => LoadOf(r) \in DOMAIN repl'
      BY <1>1, <3>1, SameFunction
    <3>4. \A j \in DOMAIN removable' : i # j => r # removable'[j]
      <4>1. ASSUME NEW j \in DOMAIN removable', i # j PROVE p # removable'[j]
        <5>1. j \in DOMAIN removable
          BY <1>4, <2>1, <4>1
        <5>2. Passed(removable[j])
          BY <1>1, <5>1 DEF Removing, RemovedOnce, Handled
        <5> QED
          BY <1>4, <1>6, <5>1, <5>2
      <4> QED
        BY <3>1, <4>1
    <3>5. Access(r)' => \E j \in DOMAIN removable' : j < i /\ removable'[j] = AllocaOf(At(r).var)'
      <4>1. Access(r)' = Access(p) /\ AllocaOf(At(r).var)' = AllocaOf(At(p).var)
        BY <1>1, <3>1, SameFunction
      <4>2. \A j \in DOMAIN removable : j < i
        BY <1>4, <2>1
      <4> QED
        BY <1>4, <1>7, <4>1, <4>2
    <3> QED
      BY <2>0, <3>2, <3>3, <3>4, <3>5 DEF RemovedOnce
  <2>2. CASE i # n + 1
    <3>1. i \in DOMAIN removable /\ r = removable[i] /\ r \in Insts
      BY <1>3, <1>4, <2>0, <2>2
    <3>2. Promoted(At(r).var)' /\ r \notin erased' /\ Passed(r)'
      <4>1. Promoted(At(r).var) /\ r \notin erased /\ Passed(r)
        BY <1>1, <3>1 DEF Removing, RemovedOnce, Handled
      <4> QED
        BY <1>1, <1>5, <3>1, <4>1, SameFunction DEF Promoted
    <3>3. At(r)'.op = "load" => LoadOf(r) \in DOMAIN repl'
      BY <1>1, <3>1, SameFunction DEF Removing, RemovedOnce, Handled
    <3>4. \A j \in DOMAIN removable' : i # j => r # removable'[j]
      <4>1. ASSUME NEW j \in DOMAIN removable', i # j PROVE r # removable'[j]
        <5>1. CASE j = n + 1
          <6>1. Passed(r)
            BY <1>1, <3>1 DEF Removing, RemovedOnce, Handled
          <6> QED
            BY <1>4, <1>6, <5>1, <6>1
        <5>2. CASE j # n + 1
          <6>1. j \in DOMAIN removable
            BY <1>4, <5>2
          <6> QED
            BY <1>1, <1>4, <3>1, <4>1, <6>1 DEF Removing, RemovedOnce, Handled
        <5> QED
          BY <5>1, <5>2
      <4> QED
        BY <4>1
    <3>5. Access(r)' => \E j \in DOMAIN removable' : j < i /\ removable'[j] = AllocaOf(At(r).var)'
      <4>1. Access(r)' = Access(r) /\ AllocaOf(At(r).var)' = AllocaOf(At(r).var)
        BY <1>1, SameFunction
      <4>2. Access(r) => \E j \in DOMAIN removable : j < i /\ removable[j] = AllocaOf(At(r).var)
        BY <1>1, <3>1 DEF Removing, RemovedOnce, Handled
      <4> QED
        BY <1>4, <4>1, <4>2
    <3> QED
      BY <2>0, <3>2, <3>3, <3>4, <3>5 DEF RemovedOnce
  <2> QED
    BY <2>1, <2>2
<1>9. ASSUME NEW q \in Insts PROVE Handled(q)'
  <2> SUFFICES ASSUME Passed(q)', Promoted(At(q).var)'
               PROVE  q \in Range(removable') \cup erased' /\ (At(q)'.op = "load" => LoadOf(q) \in DOMAIN repl')
    BY DEF Handled
  <2>1. CASE q = p
    <3>1. q \in Range(removable')
      BY <1>4, <2>1 DEF Range
    <3> QED
      BY <1>1, <2>1, <3>1, SameFunction
  <2>2. CASE q # p
    <3>1. Passed(q) /\ Promoted(At(q).var)
      BY <1>1, <1>5, <2>2, SameFunction DEF Promoted
    <3>2. q \in Range(removable) \cup erased /\ (At(q).op = "load" => LoadOf(q) \in DOMAIN repl)
      BY <1>1, <3>1 DEF Removing, RemovedOnce, Handled
    <3>3. Range(removable) \subseteq Range(removable')
      BY <1>4 DEF Range
    <3> QED
      BY <1>1, <3>2, <3>3, SameFunction
  <2> QED
    BY <2>1, <2>2
<1>10. removable' \in Seq(Insts')
  BY <1>1, <1>4, SameFunction
<1> QED
  BY <1>1, <1>8, <1>9, <1>10, SameFunction DEF Removing

(* An alloca is only put in the list.                                      *)
LEMMA RenameAllocaKeeps == PassInv /\ RenameAlloca => PassInv'
<1> SUFFICES ASSUME PassInv, RenameAlloca PROVE PassInv'
  OBVIOUS
<1>0. PICK p : p = <<BB, it>>
  OBVIOUS
<1>1. Renames("alloca") /\ IncommingValues' = IncommingValues /\ repl' = repl /\ incoming' = incoming
  BY DEF RenameAlloca
<1>2. /\ phase = "rename" /\ phase' = phase /\ BB # 0 /\ fn \in Functions /\ fn' = fn
      /\ Allocas' = Allocas /\ phis' = phis /\ erased' = erased /\ BB' = BB
      /\ WorkList' = WorkList /\ VisitedSet' = VisitedSet /\ Erasing /\ RenameInv
      /\ Listed' /\ Listing' /\ Spreading' /\ OnlyDead'
  BY <1>0, <1>1, RenamedIs
<1>3. Removing'
  BY <1>0, <1>1, RemovingGrows
<1>4. Erasing'
  BY <1>1, <1>2, ErasingStays
<1>5. Carrying'
  <2>1. Range(Allocas) \subseteq DOMAIN IncommingValues /\ AllStay(IncommingValues)
    BY <1>2 DEF RenameInv, Carrying
  <2> QED
    BY <1>1, <1>2, <2>1, CarryingStays DEF RenameInv
<1>6. Filling(VisitedSet \ {BB})'
  <2>1. PICK S : S = VisitedSet \ {BB}
    OBVIOUS
  <2>2. Filling(S)'
    BY <1>1, <1>2, <2>1, FillingStays DEF RenameInv
  <2>3. (VisitedSet \ {BB})' = S
    BY <1>2, <2>1
  <2> QED
    BY <2>2, <2>3
<1> QED
  BY <1>2, <1>3, <1>4, <1>5, <1>6 DEF PassInv, RenameInv

(* A load is replaced by what the block has for its variable.              *)
LEMMA RenameLoadKeeps == PassInv /\ RenameLoad => PassInv'
<1> SUFFICES ASSUME PassInv, RenameLoad PROVE PassInv'
  OBVIOUS
<1>0. PICK p : p = <<BB, it>>
  OBVIOUS
<1>1. /\ phase = "rename" /\ phase' = phase /\ BB # 0 /\ fn \in Functions /\ fn' = fn
      /\ Allocas' = Allocas /\ phis' = phis /\ erased' = erased /\ BB' = BB
      /\ WorkList' = WorkList /\ VisitedSet' = VisitedSet /\ Erasing /\ RenameInv
      /\ Listed' /\ Listing' /\ Spreading' /\ OnlyDead'
      /\ At(p) = fn.code[BB][it] /\ Promoted(At(p).var)
  BY <1>0, RenamedIs DEF RenameLoad
<1>a. PICK a : a = fn.code[BB][it].var
  OBVIOUS
<1>2. /\ Range(Allocas) \subseteq DOMAIN IncommingValues /\ AllStay(IncommingValues)
      /\ a \in DOMAIN IncommingValues
  BY <1>1, <1>a DEF RenameInv, Carrying, Promoted
<1>3. /\ IncommingValues' = [x \in DOMAIN IncommingValues \cup {a} |->
                               IF x \in DOMAIN IncommingValues THEN IncommingValues[x] ELSE Undef]
      /\ replaceAllUsesWith(LoadOf(p), IncommingValues'[a])
  BY <1>0, <1>a DEF RenameLoad, LoadOf
<1>4. PICK from, to : from = LoadOf(p) /\ to = IncommingValues'[a]
  OBVIOUS
<1>5. /\ DOMAIN IncommingValues' = DOMAIN IncommingValues
      /\ \A x \in DOMAIN IncommingValues : IncommingValues'[x] = IncommingValues[x]
      /\ to = IncommingValues[a] /\ Stays(to) /\ AllStay(IncommingValues')
  <2>1. /\ DOMAIN IncommingValues' = DOMAIN IncommingValues
        /\ \A x \in DOMAIN IncommingValues : IncommingValues'[x] = IncommingValues[x]
    BY <1>2, <1>3
  <2>2. to = IncommingValues[a]
    BY <1>2, <1>4, <2>1
  <2> QED
    BY <1>2, <2>1, <2>2 DEF AllStay
<1>6. /\ repl' = [v \in DOMAIN repl \cup {from} |-> IF v = from \/ repl[v] = from THEN to ELSE repl[v]]
      /\ incoming' = [q \in DOMAIN incoming |-> ReplacedOperand(incoming[q], from, to)]
  BY <1>3, <1>4 DEF replaceAllUsesWith
<1>7. DOMAIN repl' = DOMAIN repl \cup {from} /\ AllStay(repl')
  <2>1. DOMAIN repl' = DOMAIN repl \cup {from}
    BY <1>6
  <2>2. \A v \in DOMAIN repl' : repl'[v] = to \/ (v \in DOMAIN repl /\ repl'[v] = repl[v])
    BY <1>6
  <2> QED
    BY <1>1, <1>5, <2>1, <2>2 DEF Erasing, AllStay
<1>8. Removing'
  <2>1. Renames("load") /\ DOMAIN repl \subseteq DOMAIN repl' /\ LoadOf(p) \in DOMAIN repl'
    BY <1>4, <1>7 DEF RenameLoad
  <2> QED
    BY <1>0, <2>1, RemovingGrows
<1>9. Erasing'
  BY <1>1, <1>7, SameFunction DEF Erasing, Left
<1>10. Carrying'
  BY <1>1, <1>2, <1>5, CarryingStays DEF RenameInv
<1>11. Filling(VisitedSet \ {BB})'
  <2>1. PICK S : S = VisitedSet \ {BB}
    OBVIOUS
  <2>2. Filling(S)'
    BY <1>1, <1>6, <2>1, OperandsReplaced DEF RenameInv
  <2>3. (VisitedSet \ {BB})' = S
    BY <1>1, <2>1
  <2> QED
    BY <2>2, <2>3
<1> QED
  BY <1>1, <1>8, <1>9, <1>10, <1>11 DEF PassInv, RenameInv

(* A load that a store refers to dominates the store: it has been replaced *)
(* when the renaming is at the store, or is one of a variable that stays.  *)
LEMMA StoredStays ==
  ASSUME PassInv, Renames("store"), NEW p, p = <<BB, it>>
  PROVE  Stays(Operand(repl, At(p).val))
<1>1. /\ p \in Insts /\ At(p).op = "store" /\ BB # 0 /\ fn \in Functions
      /\ Erasing /\ Listed /\ RenameInv
  BY RenamedIs
<1>2. CASE At(p).val \in DOMAIN repl
  BY <1>1, <1>2 DEF Operand, Erasing, AllStay
<1>3. CASE At(p).val \notin DOMAIN repl /\ At(p).val = <<"inst", p[1], p[2]>>
  BY <1>3 DEF Operand, Stays
<1>4. CASE /\ At(p).val \notin DOMAIN repl
           /\ \E q \in Insts : /\ At(p).val = LoadOf(q) /\ At(q).op = "load"
                               /\ \/ q[1] = p[1] /\ q[2] < p[2]
                                  \/ q[1] # p[1] /\ \E S \in SUBSET Blocks : Around(S, q[1]) /\ p[1] \notin S
  <2>1. PICK q \in Insts : /\ At(p).val = LoadOf(q) /\ At(q).op = "load"
                           /\ \/ q[1] = p[1] /\ q[2] < p[2]
                              \/ q[1] # p[1] /\ \E S \in SUBSET Blocks : Around(S, q[1]) /\ p[1] \notin S
    BY <1>4
  <2>2. p[1] = BB /\ p[2] = it /\ q[1] \in Blocks /\ q = <<q[1], q[2]>> /\ BB \in VisitedSet
    BY <1>1, InstIs, EntryVisited DEF RenameInv
  <2>3. Passed(q)
    <3>1. CASE q[1] = p[1] /\ q[2] < p[2]
      BY <2>2, <3>1 DEF Passed
    <3>2. CASE q[1] # p[1] /\ \E S \in SUBSET Blocks : Around(S, q[1]) /\ p[1] \notin S
      <4>1. q[1] \in VisitedSet
        BY <1>1, <2>2, <3>2, DominatorVisited DEF RenameInv
      <4> QED
        BY <2>2, <3>2, <4>1 DEF Passed
    <3> QED
      BY <2>1, <3>1, <3>2
  <2>4. LoadOf(q) \notin DOMAIN repl
    BY <1>4, <2>1
  <2>5. q \notin erased /\ ~Promoted(At(q).var)
    <3>1. q \notin erased
      BY <1>1, <2>1, <2>4 DEF Erasing
    <3>2. Handled(q)
      BY <1>1 DEF RenameInv, Removing
    <3> QED
      BY <2>1, <2>3, <2>4, <3>1, <3>2 DEF Handled
  <2>6. ASSUME IntVar(At(q).var) PROVE FALSE
    <3>1. PICK r \in Insts : IsAlloca(r, At(q).var) /\ IntAlloca(r)
      BY <2>6 DEF IntVar
    <3>2. IntAlloca(r) /\ At(r).var = At(q).var
      BY <3>1 DEF IsAlloca
    <3>3. r \in erased
      BY <1>1, <2>5, <3>2 DEF RenameInv, Listing
    <3>4. Access(q) /\ q \in Left
      BY <2>1, <2>5 DEF Access, Left
    <3>5. AllocaOf(At(q).var) = r
      BY <1>1, <3>1, AllocaIs
    <3> QED
      BY <1>1, <3>3, <3>4, <3>5 DEF Erasing
  <2>7. Operand(repl, At(p).val) = <<"load", q[1], q[2]>>
    BY <1>4, <2>1 DEF Operand, LoadOf
  <2> QED
    BY <2>2, <2>6, <2>7 DEF Stays
<1> QED
  BY <1>1, <1>2, <1>3, <1>4, StoreIs

(* A store gives its variable a value that stays.                          *)
LEMMA RenameStoreKeeps == PassInv /\ RenameStore => PassInv'
<1> SUFFICES ASSUME PassInv, RenameStore PROVE PassInv'
  OBVIOUS
<1>0. PICK p : p = <<BB, it>>
  OBVIOUS
<1>r. Renames("store")
  BY DEF RenameStore
<1>1. /\ phase = "rename" /\ phase' = phase /\ BB # 0 /\ fn \in Functions /\ fn' = fn
      /\ Allocas' = Allocas /\ phis' = phis /\ erased' = erased /\ BB' = BB
      /\ WorkList' = WorkList /\ VisitedSet' = VisitedSet /\ Erasing /\ RenameInv
      /\ Listed' /\ Listing' /\ Spreading' /\ OnlyDead'
      /\ At(p) = fn.code[BB][it]
  BY <1>0, <1>r, RenamedIs
<1>2. /\ repl' = repl /\ incoming' = incoming
      /\ IncommingValues' = [x \in DOMAIN IncommingValues \cup {At(p).var} |->
                               IF x = At(p).var THEN Operand(repl, At(p).val) ELSE IncommingValues[x]]
  BY <1>1 DEF RenameStore
<1>3. Removing'
  BY <1>0, <1>2, <1>r, RemovingGrows
<1>4. Erasing'
  BY <1>1, <1>2, ErasingStays
<1>5. Carrying'
  <2>1. Range(Allocas) \subseteq DOMAIN IncommingValues /\ AllStay(IncommingValues)
    BY <1>1 DEF RenameInv, Carrying
  <2>2. Stays(Operand(repl, At(p).val))
    BY <1>0, <1>r, StoredStays
  <2>3. PICK e : e = Operand(repl, At(p).val)
    OBVIOUS
  <2>4. DOMAIN IncommingValues' = DOMAIN IncommingValues \cup {At(p).var}
    BY <1>2
  <2>5. \A x \in DOMAIN IncommingValues' :
          IncommingValues'[x] = e \/ (x \in DOMAIN IncommingValues /\ IncommingValues'[x] = IncommingValues[x])
    BY <1>2, <2>3
  <2>6. AllStay(IncommingValues') /\ Range(Allocas) \subseteq DOMAIN IncommingValues'
    BY <2>1, <2>2, <2>3, <2>4, <2>5 DEF AllStay
  <2> QED
    BY <1>1, <2>6, CarryingStays DEF RenameInv
<1>6. Filling(VisitedSet \ {BB})'
  <2>1. PICK S : S = VisitedSet \ {BB}
    OBVIOUS
  <2>2. Filling(S)'
    BY <1>1, <1>2, <2>1, FillingStays DEF RenameInv
  <2>3. (VisitedSet \ {BB})' = S
    BY <1>1, <2>1
  <2> QED
    BY <2>2, <2>3
<1> QED
  BY <1>1, <1>3, <1>4, <1>5, <1>6 DEF PassInv, RenameInv

(* Nothing is done at instructions of other variables.                     *)
LEMMA PassOverKeeps == PassInv /\ PassOver => PassInv'
<1> SUFFICES ASSUME PassInv, PassOver PROVE PassInv'
  OBVIOUS
<1>0. PICK p : p = <<BB, it>>
  OBVIOUS
<1>1. /\ phase = "rename" /\ phase' = phase /\ BB # 0 /\ it \in DOMAIN fn.code[BB]
      /\ p \in erased \/ fn.code[BB][it].var \notin Range(Allocas)
      /\ fn' = fn /\ it' = it + 1 /\ num' = num
      /\ Allocas' = Allocas /\ phis' = phis /\ erased' = erased /\ BB' = BB
      /\ WorkList' = WorkList /\ VisitedSet' = VisitedSet /\ IncommingValues' = IncommingValues
      /\ repl' = repl /\ incoming' = incoming /\ removable' = removable
  BY <1>0 DEF PassOver, round, renaming, code
<1>2. fn \in Functions /\ Erasing /\ Listed /\ RenameInv
  BY <1>1 DEF PassInv
<1>3. p \in Insts /\ At(p) = fn.code[BB][it] /\ p[1] = BB /\ p[2] = it
  BY <1>0, <1>1, <1>2, InstIs, EntryVisited DEF RenameInv
<1>4. Listed' /\ it \in Nat
  <2>1. num' \in Nat /\ it' \in Nat /\ it' >= 1 /\ it \in Nat
    BY <1>1, <1>2 DEF Listed
  <2> QED
    BY <1>1, <1>2, <2>1, ListedStays
<1>5. Erasing' /\ Listing' /\ Spreading' /\ OnlyDead'
  <2>1. OnlyDead
    BY <1>1, <1>2 DEF RenameInv, Early
  <2> QED
    BY <1>1, <1>2, <2>1, ErasingStays, ListingStays, SpreadingStays, OnlyDeadStays DEF RenameInv
<1>6. Carrying'
  <2>1. Range(Allocas) \subseteq DOMAIN IncommingValues /\ AllStay(IncommingValues)
    BY <1>1, <1>2 DEF RenameInv, Carrying
  <2> QED
    BY <1>1, <1>2, <2>1, CarryingStays DEF RenameInv
<1>7. Filling(VisitedSet \ {BB})'
  <2>1. PICK S : S = VisitedSet \ {BB}
    OBVIOUS
  <2>2. Filling(S)'
    BY <1>1, <1>2, <2>1, FillingStays DEF RenameInv
  <2>3. (VisitedSet \ {BB})' = S
    BY <1>1, <2>1
  <2> QED
    BY <2>2, <2>3
<1>8. Removing'
  <2>1. \A q \in Insts : /\ Passed(q) => Passed(q)'
                         /\ Passed(q)' => Passed(q) \/ q = p
    <3>1. ASSUME NEW q \in Insts
          PROVE  /\ (q[1] = BB => q[2] < it) => (q[1] = BB => q[2] < it + 1)
                 /\ (q[1] = BB => q[2] < it + 1) => (q[1] = BB => q[2] < it) \/ q = p
      <4>1. q = <<q[1], q[2]>> /\ q[2] \in Nat
        BY <1>2, InstIs
      <4> QED
        BY <1>0, <1>4, <4>1
    <3> QED
      BY <1>1, <3>1, SameFunction DEF Passed
  <2>2. Removing
    BY <1>2 DEF RenameInv
  <2>3. ASSUME NEW i \in DOMAIN removable PROVE RemovedOnce(i)'
    <3>1. RemovedOnce(i) /\ removable[i] \in Insts
      BY <2>2 DEF Removing
    <3>2. PICK r \in Insts : r = removable[i]
      BY <3>1
    <3>3. Promoted(At(r).var)' /\ Passed(r)'
      BY <1>1, <2>1, <3>1, <3>2, SameFunction DEF RemovedOnce, Promoted
    <3> QED
      BY <1>1, <3>1, <3>2, <3>3, SameFunction DEF RemovedOnce
  <2>4. ASSUME NEW q \in Insts PROVE Handled(q)'
    <3>1. CASE q = p
      <4>1. Promoted(At(q).var)' => q \in erased
        BY <1>1, <1>3, <3>1, SameFunction DEF Promoted
      <4> QED
        BY <1>1, <1>2, <4>1, SameFunction DEF Handled, Erasing
    <3>2. CASE q # p
      <4>1. Handled(q)
        BY <2>2 DEF Removing
      <4> QED
        BY <1>1, <2>1, <3>2, <4>1, SameFunction DEF Handled, Promoted
    <3> QED
      BY <3>1, <3>2
  <2>5. removable' \in Seq(Insts')
    BY <1>1, <2>2, SameFunction DEF Removing
  <2> QED
    BY <1>1, <2>3, <2>4, <2>5, SameFunction DEF Removing
<1> QED
  BY <1>1, <1>2, <1>4, <1>5, <1>6, <1>7, <1>8 DEF PassInv, RenameInv

-----------------------------------------------------------------------------
(* Of the phis of a variable in a block there is a first one.              *)
LEMMA FirstPhiStays ==
  ASSUME NEW S, Filling(S), NEW b, NEW p \in PhisOf(b)
  PROVE  Stays(FirstPhi(b, p[3]))
<1> DEFINE Same == {q \in PhisOf(b) : q[3] = p[3]}
           T == {q[4] : q \in Same}
<1>1. \A q \in PhisOf(b) : q[1] = "phi" /\ q[4] \in Nat
  BY DEF PhisOf, Filling
<1>2. T \in SUBSET Nat /\ T # {}
  BY <1>1
<1>3. PICK x \in T : \A y \in T : x <= y
  <2> HIDE DEF T
  <2> QED
    BY <1>2, LeastNatural
<1>4. PICK q \in Same : q[4] = x
  BY <1>3
<1>5. q \in PhisOf(b) /\ q[3] = p[3] /\ \A r \in PhisOf(b) : r[3] = p[3] => q[4] <= r[4]
  BY <1>3, <1>4
<1>6. FirstPhi(b, p[3]) \in PhisOf(b)
  BY <1>5 DEF FirstPhi
<1> QED
  BY <1>1, <1>6 DEF Stays

(* So the values a block starts with are phis or values that stay.         *)
LEMMA AfterPhisStay ==
  ASSUME NEW S, Filling(S), NEW b, NEW values, AllStay(values)
  PROVE  AllStay(AfterPhis(b, values)) /\ DOMAIN values \subseteq DOMAIN AfterPhis(b, values)
<1> DEFINE merged == {p[3] : p \in PhisOf(b)}
<1>1. ASSUME NEW a \in merged PROVE Stays(FirstPhi(b, a))
  BY FirstPhiStays
<1> HIDE DEF merged
<1>2. AfterPhis(b, values) = [a \in merged \cup DOMAIN values |-> IF a \in merged THEN FirstPhi(b, a) ELSE values[a]]
  BY DEF AfterPhis, merged
<1> QED
  BY <1>1, <1>2 DEF AllStay

(* A block is visited once, after its dominators.                          *)
LEMMA VisitBlockKeeps == PassInv /\ VisitBlock => PassInv'
<1> SUFFICES ASSUME PassInv, VisitBlock PROVE PassInv'
  OBVIOUS
<1>0. PICK c, values : c = Last(WorkList).block /\ values = Last(WorkList).values
  OBVIOUS
<1>1. /\ phase = "rename" /\ phase' = phase /\ BB = 0 /\ WorkList # <<>> /\ fn' = fn /\ num' = num
      /\ Allocas' = Allocas /\ phis' = phis /\ erased' = erased
      /\ repl' = repl /\ incoming' = incoming /\ removable' = removable
      /\ WorkList' = Front(WorkList)
      /\ \/ c \in VisitedSet /\ VisitedSet' = VisitedSet /\ BB' = BB /\ it' = it
         \/ /\ c \notin VisitedSet /\ VisitedSet' = VisitedSet \cup {c}
            /\ BB' = c /\ it' = 1 /\ IncommingValues' = AfterPhis(c, values)
  BY <1>0 DEF VisitBlock, round, code
<1>2. fn \in Functions /\ Erasing /\ Listed /\ RenameInv /\ Carrying /\ Spreading /\ Removing
  BY <1>1 DEF PassInv, RenameInv
<1> DEFINE n == Len(WorkList)
<1>3. /\ n \in Nat \ {0} /\ DOMAIN WorkList = 1 .. n /\ DOMAIN WorkList' = 1 .. n - 1 /\ n \in DOMAIN WorkList
      /\ WorkList' \in Seq(Range(WorkList')) /\ WorkList[n].block = c /\ WorkList[n].values = values
      /\ \A i \in 1 .. n - 1 : i \in DOMAIN WorkList /\ WorkList'[i] = WorkList[i]
  <2>1. WorkList \in Seq(Range(WorkList))
    BY <1>2 DEF Carrying
  <2>2. /\ Front(WorkList) \in Seq(Range(WorkList)) /\ n \in Nat \ {0}
        /\ DOMAIN WorkList = 1 .. n /\ DOMAIN Front(WorkList) = 1 .. n - 1
        /\ Last(WorkList) = WorkList[n] /\ n \in DOMAIN WorkList
        /\ \A i \in 1 .. n - 1 : Front(WorkList)[i] = WorkList[i]
    BY <1>1, <2>1, FrontIs
  <2>3. Front(WorkList) \in Seq(Range(Front(WorkList)))
    BY <2>2, OwnRange
  <2> HIDE DEF n
  <2> QED
    BY <1>0, <1>1, <2>2, <2>3
<1> HIDE DEF n
<1>4. c \in Blocks /\ Range(Allocas) \subseteq DOMAIN values /\ AllStay(values) /\ c # 0
  BY <1>2, <1>3, Well DEF Carrying
<1>5. \A b : InWork(b) <=> InWork(b)' \/ b = c
  <2>1. \A i \in DOMAIN WorkList : i \in 1 .. n - 1 \/ i = n
    BY <1>3
  <2> QED
    BY <1>3, <2>1 DEF InWork
<1>6. Listed'
  <2>1. num' \in Nat /\ it' \in Nat /\ it' >= 1
    BY <1>1, <1>2 DEF Listed
  <2> QED
    BY <1>1, <1>2, <2>1, ListedStays
<1>7. Erasing' /\ Listing' /\ OnlyDead'
  BY <1>1, <1>2, ErasingStays, ListingStays, OnlyDeadStays DEF RenameInv, Early
<1>8. Spreading'
  <2>1. VisitedSet' \subseteq Blocks /\ BB' \in VisitedSet' \cup {0} /\ BB' \in Nat
    <3>1. c \in Nat
      BY <1>2, <1>4, Well
    <3>2. VisitedSet \subseteq Blocks
      BY <1>2 DEF Spreading
    <3>3. \/ VisitedSet' = VisitedSet /\ BB' = 0
          \/ VisitedSet' = VisitedSet \cup {c} /\ BB' = c
      BY <1>1
    <3>4. c \in Blocks
      BY <1>4
    <3>5. VisitedSet' \subseteq Blocks
      BY <3>2, <3>3, <3>4
    <3>6. BB' \in VisitedSet' \cup {0}
      BY <3>3
    <3>7. BB' \in Nat
      BY <3>1, <3>3
    <3> QED
      BY <3>5, <3>6, <3>7
  <2>2. \A b : b \in VisitedSet \/ InWork(b) => b \in VisitedSet' \/ InWork(b)'
    BY <1>1, <1>5
  <2>3. 1 \in VisitedSet' \/ InWork(1)'
    BY <1>2, <2>2 DEF Spreading
  <2>4. ASSUME NEW b \in VisitedSet' \ {BB'}, NEW d \in Range(fn.succ[b]) PROVE d \in VisitedSet' \/ InWork(d)'
    <3>1. b \in VisitedSet \ {BB}
      BY <1>1, <1>2, <2>4, Well DEF Spreading
    <3> QED
      BY <1>2, <2>2, <3>1 DEF Spreading
  <2>5. ASSUME NEW d \in Blocks \ VisitedSet', NEW S \in SUBSET Blocks, Around(S, d)
        PROVE  VisitedSet' \subseteq S /\ \A b \in Blocks : InWork(b)' => b \in S \cup {d}
    <3>1. d \in Blocks \ VisitedSet
      BY <1>1
    <3>2. VisitedSet \subseteq S /\ \A b \in Blocks : InWork(b) => b \in S \cup {d}
      BY <1>2, <2>5, <3>1 DEF Spreading
    <3>3. c \in S \cup {d}
      BY <1>4, <1>5, <3>2
    <3> QED
      BY <1>1, <1>5, <3>2, <3>3
  <2> QED
    BY <1>1, <2>1, <2>3, <2>4, <2>5, SameFunction DEF Spreading
<1>9. Carrying'
  <2>1. ASSUME NEW i \in DOMAIN WorkList'
        PROVE  /\ WorkList'[i].block \in Blocks
               /\ Range(Allocas) \subseteq DOMAIN WorkList'[i].values /\ AllStay(WorkList'[i].values)
    BY <1>2, <1>3 DEF Carrying
  <2>2. BB' # 0 => Range(Allocas) \subseteq DOMAIN IncommingValues' /\ AllStay(IncommingValues')
    <3> SUFFICES ASSUME BB' # 0
                 PROVE  Range(Allocas) \subseteq DOMAIN IncommingValues' /\ AllStay(IncommingValues')
      OBVIOUS
    <3>1. IncommingValues' = AfterPhis(c, values)
      BY <1>1
    <3>2. PICK S : S = VisitedSet \ {BB}
      OBVIOUS
    <3>3. AllStay(AfterPhis(c, values)) /\ DOMAIN values \subseteq DOMAIN AfterPhis(c, values)
      BY <1>2, <1>4, <3>2, AfterPhisStay DEF RenameInv
    <3> QED
      BY <1>4, <3>1, <3>3
  <2> QED
    BY <1>1, <1>3, <2>1, <2>2, SameFunction DEF Carrying
<1>10. Filling(VisitedSet \ {BB})'
  <2>1. PICK S : S = VisitedSet \ {BB}
    OBVIOUS
  <2>2. Filling(S)'
    BY <1>1, <1>2, <2>1, FillingStays DEF RenameInv
  <2>3. VisitedSet' \ {BB'} = S
    BY <1>1, <1>2, <2>1, Well DEF Spreading
  <2> QED
    BY <2>2, <2>3
<1>11. Removing'
  <2>1. \A p \in Insts : Passed(p)' = Passed(p)
    <3>1. ASSUME NEW p \in Insts PROVE p[1] # 0 /\ ~(p[2] < 1)
      BY <1>2, InstIs, Well
    <3> QED
      BY <1>1, <3>1, SameFunction DEF Passed
  <2> QED
    BY <1>1, <1>2, <2>1, RemovingStays
<1> QED
  BY <1>1, <1>2, <1>6, <1>7, <1>8, <1>9, <1>10, <1>11 DEF PassInv, RenameInv

-----------------------------------------------------------------------------
(* The edges from a block to another are as many as places in its branch.  *)
LEMMA EdgesCounted ==
  ASSUME fn \in Functions, NEW b \in Blocks, NEW c
  PROVE  LET J == {j \in DOMAIN fn.succ[b] : fn.succ[b][j] = c}
             E == {e \in Preds(c) : e[1] = b}
         IN Cardinality(J) \in Nat /\ Cardinality(E) = Cardinality(J)
<1> DEFINE J == {j \in DOMAIN fn.succ[b] : fn.succ[b][j] = c}
           E == {e \in Preds(c) : e[1] = b}
           f == [j \in J |-> <<b, j>>]
<1>1. IsFiniteSet(J) /\ Cardinality(J) \in Nat
  <2>1. Len(fn.succ[b]) \in Nat /\ DOMAIN fn.succ[b] = 1 .. Len(fn.succ[b])
    <3>1. fn.succ[b] \in Seq(Blocks)
      BY Well
    <3> QED
      BY <3>1
  <2>2. IsFiniteSet(1 .. Len(fn.succ[b]))
    BY <2>1, FS_Interval
  <2>3. IsFiniteSet(J)
    BY <2>1, <2>2, FS_Subset
  <2> QED
    BY <2>3, FS_CardinalityType
<1>2. E = {<<b, j>> : j \in J}
  BY DEF Preds, Edges
<1>3. f \in Bijection(J, E)
  <2>1. f \in [J -> E] /\ \A i, j \in J : f[i] = f[j] => i = j
    BY <1>2
  <2>2. \A e \in E : \E j \in J : f[j] = e
    BY <1>2
  <2> HIDE DEF f, J, E
  <2> QED
    BY <2>1, <2>2 DEF Bijection, Injection, Surjection, IsInjective
<1>4. ExistsBijection(J, E)
  BY <1>3 DEF ExistsBijection
<1> HIDE DEF J, E
<1>5. Cardinality(E) = Cardinality(J)
  BY <1>1, <1>4, FS_Bijection
<1> QED
  BY <1>1, <1>5 DEF J, E

(* Every phi gets one operand more for each edge from the block, and none  *)
(* of them from another block.                                             *)
LEMMA FilledKeeps ==
  ASSUME fn \in Functions, NEW S, Filling(S), NEW b \in Blocks, b \notin S,
         Range(Allocas) \subseteq DOMAIN IncommingValues,
         incoming' = Filled(b), fn' = fn, Allocas' = Allocas, phis' = phis
  PROVE  Filling(S \cup {b})'
<1>1. DOMAIN incoming' = phis' /\ DOMAIN incoming = phis
  BY DEF Filling, Filled
<1>2. ASSUME NEW p \in phis
      PROVE  incoming'[p] \in Seq(Range(incoming'[p])) /\ OperandsOf(p, S \cup {b})'
  <2>1. Promoted(p[3]) /\ incoming[p] \in Seq(Range(incoming[p])) /\ OperandsOf(p, S)
    BY DEF Filling
  <2> DEFINE J == {j \in DOMAIN fn.succ[b] : fn.succ[b][j] = p[2]}
  <2>2. PICK n, v, s : n = Cardinality(J) /\ v = <<b, IncommingValues[p[3]]>> /\ s = incoming[p]
    OBVIOUS
  <2>3. n \in Nat /\ Cardinality(EdgesOf(p, b)) = n
    BY <2>2, EdgesCounted DEF EdgesOf
  <2>4. {j \in EdgesToFill(b) : fn.succ[b][j] = p[2] /\ p[3] \in DOMAIN IncommingValues} = J
    BY <2>1 DEF EdgesToFill, Promoted
  <2> HIDE DEF J
  <2> DEFINE t == [k \in 1 .. n |-> v]
             u == s \o t
  <2>5. incoming'[p] = u
    BY <1>1, <2>2, <2>4 DEF Filled
  <2>6. s \in Seq(Range(s) \cup {v}) /\ t \in Seq(Range(s) \cup {v}) /\ Len(t) = n
    <3>1. s \in Seq(Range(s))
      BY <2>1, <2>2
    <3>2. s \in Seq(Range(s) \cup {v})
      BY <3>1
    <3>3. t \in Seq(Range(s) \cup {v}) /\ Len(t) = n
      BY <2>3
    <3> QED
      BY <3>2, <3>3
  <2>7. DOMAIN t = 1 .. n /\ \A k \in 1 .. n : t[k] = v
    OBVIOUS
  <2> HIDE DEF t
  <2>8. /\ u \in Seq(Range(s) \cup {v}) /\ Len(s) \in Nat /\ DOMAIN s = 1 .. Len(s)
        /\ DOMAIN u = 1 .. Len(s) + n
        /\ \A i \in DOMAIN s : i \in DOMAIN u /\ u[i] = s[i]
        /\ \A i \in DOMAIN u : i \notin DOMAIN s => u[i] = v
    <3>1. /\ u \in Seq(Range(s) \cup {v}) /\ Len(s) \in Nat /\ DOMAIN s = 1 .. Len(s)
          /\ DOMAIN u = 1 .. Len(s) + Len(t)
          /\ \A i \in DOMAIN s : i \in DOMAIN u /\ u[i] = s[i]
          /\ \A i \in DOMAIN u : i \notin DOMAIN s => i - Len(s) \in DOMAIN t /\ u[i] = t[i - Len(s)]
      <4> DEFINE T == Range(s) \cup {v}
      <4>1. s \in Seq(T) /\ t \in Seq(T)
        BY <2>6
      <4> HIDE DEF T
      <4>2. /\ u \in Seq(T) /\ Len(s) \in Nat /\ DOMAIN s = 1 .. Len(s)
            /\ DOMAIN u = 1 .. Len(s) + Len(t)
            /\ \A i \in DOMAIN s : i \in DOMAIN u /\ u[i] = s[i]
            /\ \A i \in DOMAIN u : i \notin DOMAIN s => i - Len(s) \in DOMAIN t /\ u[i] = t[i - Len(s)]
        BY <4>1, JoinedIs
      <4> QED
        BY <4>2 DEF T
    <3> HIDE DEF u
    <3> QED
      BY <2>6, <2>7, <3>1
  <2>9. u \in Seq(Range(u))
    BY <2>8, OwnRange
  <2> HIDE DEF u
  <2>10. \A c : From(p, c) = {k \in DOMAIN s : s[k][1] = c}
    BY <2>2 DEF From
  <2>11. \A c : From(p, c)' = {k \in DOMAIN u : u[k][1] = c}
    BY <2>5 DEF From
  <2>12. v[1] = b
    BY <2>2
  <2>13. ASSUME NEW c \in Blocks, c # b PROVE From(p, c)' = From(p, c)
    <3>1. \A k \in DOMAIN u : u[k][1] = c => k \in DOMAIN s
      BY <2>8, <2>12, <2>13
    <3>2. \A k : k \in DOMAIN s /\ s[k][1] = c <=> k \in DOMAIN u /\ u[k][1] = c
      BY <2>8, <3>1
    <3> QED
      BY <2>10, <2>11, <3>2
  <2>14. From(p, b) = {}
    <3>1. IsFiniteSet(From(p, b))
      <4>0. Len(s) \in Int /\ 1 \in Int
        BY <2>8
      <4>1. IsFiniteSet(1 .. Len(s))
        BY <4>0, FS_Interval
      <4>2. From(p, b) \in SUBSET (1 .. Len(s))
        BY <2>8, <2>10
      <4> QED
        BY <4>1, <4>2, FS_Subset
    <3>2. Cardinality(From(p, b)) = 0
      BY <2>1 DEF OperandsOf
    <3> QED
      BY <3>1, <3>2, FS_EmptySet
  <2>15. From(p, b)' = (Len(s) + 1) .. (Len(s) + n)
    <3>1. \A k \in DOMAIN s : s[k][1] # b
      BY <2>10, <2>14
    <3>2. \A k \in DOMAIN u : u[k][1] = b <=> k \notin DOMAIN s
      BY <2>8, <2>12, <3>1
    <3>3. \A k : k \in DOMAIN u /\ k \notin DOMAIN s <=> k \in (Len(s) + 1) .. (Len(s) + n)
      BY <2>3, <2>8
    <3>4. From(p, b)' = {k \in DOMAIN u : u[k][1] = b}
      BY <2>11
    <3> QED
      BY <3>2, <3>3, <3>4
  <2>16. Cardinality(From(p, b)') = n
    <3>1. Len(s) + 1 \in Int /\ Len(s) + n \in Int
      BY <2>3, <2>8
    <3>2. Cardinality((Len(s) + 1) .. (Len(s) + n))
            = IF Len(s) + 1 > Len(s) + n THEN 0 ELSE (Len(s) + n) - (Len(s) + 1) + 1
      BY <3>1, FS_Interval
    <3> QED
      BY <2>3, <2>8, <2>15, <3>2
  <2>17. ASSUME NEW c \in Blocks
         PROVE  Cardinality(From(p, c)') = IF c \in S \cup {b} THEN Cardinality(EdgesOf(p, c)) ELSE 0
    <3>1. CASE c = b
      BY <2>3, <2>16, <3>1
    <3>2. CASE c # b
      <4>1. Cardinality(From(p, c)) = IF c \in S THEN Cardinality(EdgesOf(p, c)) ELSE 0
        BY <2>1 DEF OperandsOf
      <4> QED
        BY <2>13, <3>2, <4>1
    <3> QED
      BY <3>1, <3>2
  <2>18. OperandsOf(p, S \cup {b})'
    BY <2>17, SameFunction DEF OperandsOf
  <2> QED
    BY <2>5, <2>9, <2>18
<1> QED
  BY <1>1, <1>2 DEF Filling, Promoted

(* The successors wait, and their phis have their operands.                *)
LEMMA FillSuccessorsKeeps == PassInv /\ FillSuccessors => PassInv'
<1> SUFFICES ASSUME PassInv, FillSuccessors PROVE PassInv'
  OBVIOUS
<1>0. PICK b, values : b = BB /\ values = IncommingValues
  OBVIOUS
<1> DEFINE new == [k \in DOMAIN fn.succ[b] |-> [block |-> fn.succ[b][k], values |-> values]]
<1>1. /\ phase = "rename" /\ phase' = phase /\ BB # 0 /\ it \notin DOMAIN fn.code[b]
      /\ fn' = fn /\ num' = num /\ it' = it
      /\ Allocas' = Allocas /\ phis' = phis /\ erased' = erased
      /\ repl' = repl /\ incoming' = Filled(b) /\ removable' = removable
      /\ WorkList' = WorkList \o new /\ VisitedSet' = VisitedSet /\ BB' = 0
  BY <1>0 DEF FillSuccessors, round
<1>2. /\ fn \in Functions /\ Erasing /\ Listed /\ RenameInv /\ Carrying /\ Spreading /\ Removing
      /\ b \in VisitedSet /\ b \in Blocks
  BY <1>0, <1>1, EntryVisited DEF PassInv, RenameInv
<1>3. Range(Allocas) \subseteq DOMAIN values /\ AllStay(values)
  BY <1>0, <1>1, <1>2 DEF Carrying
<1> DEFINE m == Len(WorkList)
<1>s. PICK s : s = fn.succ[b]
  OBVIOUS
<1>4. /\ s \in Seq(Blocks) /\ Len(s) \in Nat /\ DOMAIN s = 1 .. Len(s)
      /\ new = [k \in 1 .. Len(s) |-> [block |-> s[k], values |-> values]]
      /\ \A k \in DOMAIN s : s[k] \in Blocks
  <2>1. s \in Seq(Blocks)
    BY <1>2, <1>s, Well
  <2>2. new = [k \in 1 .. Len(s) |-> [block |-> s[k], values |-> values]]
    BY <1>s, <2>1
  <2> QED
    BY <2>1, <2>2
<1>5. /\ DOMAIN new = 1 .. Len(s) /\ Len(new) = Len(s) /\ new \in Seq(Range(new))
      /\ \A k \in DOMAIN s : new[k].block = s[k] /\ new[k].values = values
  <2>1. DOMAIN new = 1 .. Len(s) /\ Len(new) = Len(s)
        /\ \A k \in DOMAIN s : new[k].block = s[k] /\ new[k].values = values
    <3> DEFINE w(k) == [block |-> s[k], values |-> values]
    <3>1. Len(s) \in Nat /\ DOMAIN s = 1 .. Len(s) /\ new = [k \in 1 .. Len(s) |-> w(k)]
      BY <1>4
    <3>2. \A k : w(k).block = s[k] /\ w(k).values = values
      OBVIOUS
    <3> HIDE DEF w, new
    <3> QED
      BY <3>1, <3>2
  <2>2. \A k \in 1 .. Len(s) : new[k] \in Range(new)
    BY <2>1 DEF Range
  <2>3. new = [k \in 1 .. Len(s) |-> new[k]]
    BY <1>4
  <2>4. Len(s) \in Nat
    BY <1>4
  <2> HIDE DEF new
  <2>5. new \in Seq(Range(new))
    BY <2>2, <2>3, <2>4
  <2> QED
    BY <2>1, <2>5
<1> HIDE DEF new
<1>6. /\ WorkList' \in Seq(Range(WorkList')) /\ m \in Nat /\ DOMAIN WorkList = 1 .. m
      /\ \A i \in DOMAIN WorkList : i \in DOMAIN WorkList' /\ WorkList'[i] = WorkList[i]
      /\ \A k \in DOMAIN new : m + k \in DOMAIN WorkList' /\ WorkList'[m + k] = new[k]
      /\ \A i \in DOMAIN WorkList' : i \notin DOMAIN WorkList => i - m \in DOMAIN new /\ WorkList'[i] = new[i - m]
  <2> DEFINE T == Range(WorkList) \cup Range(new)
             u == WorkList \o new
  <2>1. WorkList \in Seq(T) /\ new \in Seq(T)
    <3>1. WorkList \in Seq(Range(WorkList))
      BY <1>2 DEF Carrying
    <3> QED
      BY <1>5, <3>1
  <2> HIDE DEF T
  <2>2. /\ u \in Seq(T) /\ Len(WorkList) \in Nat /\ DOMAIN WorkList = 1 .. Len(WorkList)
        /\ \A i \in DOMAIN WorkList : i \in DOMAIN u /\ u[i] = WorkList[i]
        /\ \A i \in DOMAIN new : Len(WorkList) + i \in DOMAIN u /\ u[Len(WorkList) + i] = new[i]
        /\ \A i \in DOMAIN u : i \notin DOMAIN WorkList =>
             i - Len(WorkList) \in DOMAIN new /\ u[i] = new[i - Len(WorkList)]
    BY <2>1, JoinedIs
  <2>3. u \in Seq(Range(u))
    BY <2>2, OwnRange
  <2>4. WorkList' = u
    BY <1>1
  <2> HIDE DEF u, m
  <2> QED
    BY <2>2, <2>3, <2>4 DEF m
<1> HIDE DEF m
<1>7. \A c : InWork(c)' <=> InWork(c) \/ c \in Range(s)
  <2>1. ASSUME NEW c, InWork(c)' PROVE InWork(c) \/ c \in Range(s)
    <3>1. PICK i \in DOMAIN WorkList' : WorkList'[i].block = c
      BY <2>1 DEF InWork
    <3>2. CASE i \in DOMAIN WorkList
      BY <1>6, <3>1, <3>2 DEF InWork
    <3>3. CASE i \notin DOMAIN WorkList
      <4>0. i - m \in DOMAIN new /\ WorkList'[i] = new[i - m]
        BY <1>6, <3>1, <3>3
      <4>1. i - m \in DOMAIN s /\ s[i - m] = c
        BY <1>4, <1>5, <3>1, <4>0
      <4> QED
        BY <4>1 DEF Range
    <3> QED
      BY <3>2, <3>3
  <2>2. ASSUME NEW c, InWork(c) PROVE InWork(c)'
    BY <1>6, <2>2 DEF InWork
  <2>3. ASSUME NEW c, c \in Range(s) PROVE InWork(c)'
    <3>1. PICK k \in DOMAIN s : s[k] = c
      BY <2>3 DEF Range
    <3>2. m + k \in DOMAIN WorkList' /\ WorkList'[m + k].block = c
      BY <1>4, <1>5, <1>6, <3>1
    <3> QED
      BY <3>2 DEF InWork
  <2> QED
    BY <2>1, <2>2, <2>3
<1>8. Listed'
  <2>1. num' \in Nat /\ it' \in Nat /\ it' >= 1
    BY <1>1, <1>2 DEF Listed
  <2> QED
    BY <1>1, <1>2, <2>1, ListedStays
<1>9. Erasing' /\ Listing' /\ OnlyDead'
  BY <1>1, <1>2, ErasingStays, ListingStays, OnlyDeadStays DEF RenameInv, Early
<1>10. Spreading'
  <2>1. VisitedSet' \subseteq Blocks /\ BB' \in VisitedSet' \cup {0} /\ BB' \in Nat
    BY <1>1, <1>2 DEF Spreading
  <2>2. 1 \in VisitedSet' \/ InWork(1)'
    BY <1>1, <1>2, <1>7 DEF Spreading
  <2>3. ASSUME NEW d \in VisitedSet, NEW c \in Range(fn.succ[d]) PROVE c \in VisitedSet \/ InWork(c)'
    <3>1. CASE d = b
      BY <1>7, <1>s, <3>1
    <3>2. CASE d # b
      BY <1>0, <1>2, <1>7, <3>2 DEF Spreading
    <3> QED
      BY <3>1, <3>2
  <2>4. ASSUME NEW d \in Blocks \ VisitedSet, NEW S \in SUBSET Blocks, Around(S, d)
        PROVE  VisitedSet \subseteq S /\ \A c \in Blocks : InWork(c)' => c \in S \cup {d}
    <3>1. VisitedSet \subseteq S /\ \A c \in Blocks : InWork(c) => c \in S \cup {d}
      BY <1>2, <2>4 DEF Spreading
    <3>2. Range(s) \subseteq S \cup {d}
      BY <1>2, <1>s, <2>4, <3>1 DEF Around
    <3> QED
      BY <1>7, <3>1, <3>2
  <2> QED
    BY <1>1, <2>1, <2>2, <2>3, <2>4, SameFunction DEF Spreading
<1>11. Carrying'
  <2>1. ASSUME NEW i \in DOMAIN WorkList'
        PROVE  /\ WorkList'[i].block \in Blocks
               /\ Range(Allocas) \subseteq DOMAIN WorkList'[i].values /\ AllStay(WorkList'[i].values)
    <3>1. CASE i \in DOMAIN WorkList
      BY <1>2, <1>6, <3>1 DEF Carrying
    <3>2. CASE i \notin DOMAIN WorkList
      <4>1. i - m \in DOMAIN s /\ WorkList'[i].block = s[i - m] /\ WorkList'[i].values = values
        <5>1. i - m \in DOMAIN new /\ WorkList'[i] = new[i - m]
          BY <1>6, <3>2
        <5> QED
          BY <1>4, <1>5, <5>1
      <4> QED
        BY <1>3, <1>4, <4>1
    <3> QED
      BY <3>1, <3>2
  <2> QED
    BY <1>1, <1>6, <2>1, SameFunction DEF Carrying
<1>12. Filling(VisitedSet \ {BB})'
  <2>1. PICK S : S = VisitedSet \ {BB}
    OBVIOUS
  <2>2. Filling(S) /\ b \notin S
    BY <1>0, <1>2, <2>1 DEF RenameInv
  <2>3. Filling(S \cup {b})'
    BY <1>0, <1>1, <1>2, <1>3, <2>2, FilledKeeps
  <2>4. VisitedSet' \ {BB'} = S \cup {b}
    <3>1. b # 0 /\ 0 \notin VisitedSet
      BY <1>0, <1>1, <1>2, Well DEF Spreading
    <3> QED
      BY <1>0, <1>1, <1>2, <2>1, <3>1
  <2> QED
    BY <2>3, <2>4
<1>13. Removing'
  <2>1. ASSUME NEW p \in Insts PROVE p[1] # 0 /\ (p[1] = BB => p[2] < it)
    <3>1. p[1] \in Blocks /\ p[2] \in DOMAIN fn.code[p[1]] /\ p[2] \in Nat
      BY <1>2, InstIs
    <3>2. 0 \notin Blocks /\ Len(fn.code[p[1]]) \in Nat /\ DOMAIN fn.code[p[1]] = 1 .. Len(fn.code[p[1]])
      BY <1>2, <3>1, Well
    <3>3. it \in Nat /\ it >= 1
      BY <1>2 DEF Listed
    <3> QED
      BY <1>0, <1>1, <3>1, <3>2, <3>3
  <2>2. \A p \in Insts : Passed(p)' = Passed(p)
    BY <1>1, <2>1, SameFunction DEF Passed
  <2> QED
    BY <1>1, <1>2, <2>2, RemovingStays
<1> QED
  BY <1>1, <1>2, <1>8, <1>9, <1>10, <1>11, <1>12, <1>13 DEF PassInv, RenameInv

-----------------------------------------------------------------------------
(* Last in, first out: when an alloca is the last of the list, the accesses *)
(* of its variable have all been erased.                                   *)
LEMMA EraseKeeps == PassInv /\ eraseFromParent => PassInv'
<1> SUFFICES ASSUME PassInv, eraseFromParent PROVE PassInv'
  OBVIOUS
<1>0. PICK q : q = Last(removable)
  OBVIOUS
<1>1. /\ phase = "rename" /\ phase' = phase /\ BB = 0 /\ WorkList = <<>> /\ removable # <<>>
      /\ fn' = fn /\ num' = num /\ it' = it /\ BB' = BB
      /\ Allocas' = Allocas /\ phis' = phis /\ erased' = erased \cup {q}
      /\ repl' = repl /\ incoming' = incoming /\ removable' = Front(removable)
      /\ WorkList' = WorkList /\ VisitedSet' = VisitedSet
  BY <1>0 DEF eraseFromParent, round, renaming
<1>2. fn \in Functions /\ Erasing /\ Listed /\ RenameInv /\ Carrying /\ Spreading /\ Removing
  BY <1>1 DEF PassInv, RenameInv
<1>3. \A p \in Insts : Passed(p) /\ Passed(p)'
  <2>1. VisitedSet = Blocks
    BY <1>1, <1>2, AllVisited
  <2>2. \A p \in Insts : p[1] \in Blocks /\ p[1] # 0
    BY <1>2, InstIs, Well
  <2> QED
    BY <1>1, <2>1, <2>2, SameFunction DEF Passed
<1> DEFINE n == Len(removable)
<1>4. /\ n \in Nat \ {0} /\ DOMAIN removable = 1 .. n /\ n \in DOMAIN removable /\ removable[n] = q
      /\ removable' \in Seq(Insts) /\ DOMAIN removable' = 1 .. n - 1
      /\ \A i \in 1 .. n - 1 : removable'[i] = removable[i]
      /\ \A i \in DOMAIN removable : removable[i] \in Insts
  <2>1. removable \in Seq(Insts)
    BY <1>2 DEF Removing
  <2>2. /\ Front(removable) \in Seq(Insts) /\ n \in Nat \ {0}
        /\ DOMAIN removable = 1 .. n /\ DOMAIN Front(removable) = 1 .. n - 1
        /\ Last(removable) = removable[n] /\ n \in DOMAIN removable
        /\ \A i \in 1 .. n - 1 : Front(removable)[i] = removable[i]
    BY <1>1, <2>1, FrontIs
  <2>3. \A i \in DOMAIN removable : removable[i] \in Insts
    BY <2>1
  <2> HIDE DEF n
  <2> QED
    BY <1>0, <1>1, <2>2, <2>3
<1> HIDE DEF n
<1>5. RemovedOnce(n) /\ q \in Insts
  BY <1>2, <1>4 DEF Removing
<1>6. IntVar(At(q).var)
  BY <1>2, <1>4, <1>5, PromotedIs DEF RemovedOnce
<1>7. Erasing'
  <2>1. erased' \subseteq Insts
    BY <1>1, <1>2, <1>5 DEF Erasing
  <2>2. ASSUME NEW p \in Insts \ erased', Access(p) PROVE AllocaOf(At(p).var) \notin erased'
    <3>1. p \in Left
      BY <1>1, <2>2 DEF Left
    <3>2. AllocaOf(At(p).var) \notin erased
      BY <1>2, <2>2, <3>1 DEF Erasing
    <3>3. ASSUME AllocaOf(At(p).var) = q PROVE FALSE
      <4>1. At(q).var = At(p).var
        BY <1>2, <2>2, <3>3, AccessIs DEF IsAlloca
      <4>2. Promoted(At(p).var) /\ Handled(p) /\ Passed(p) /\ p \notin erased
        BY <1>1, <1>2, <1>3, <1>4, <1>5, <2>2, <4>1 DEF Removing, RemovedOnce
      <4>3. PICK i \in DOMAIN removable : removable[i] = p
        BY <4>2 DEF Handled, Range
      <4>4. PICK j \in DOMAIN removable : j < i /\ removable[j] = q
        BY <1>2, <2>2, <3>3, <4>3 DEF Removing, RemovedOnce
      <4>5. j # n
        BY <1>4, <4>3, <4>4
      <4> QED
        BY <1>4, <1>5, <4>4, <4>5 DEF RemovedOnce
    <3> QED
      BY <1>1, <3>2, <3>3
  <2>3. \A p \in erased' : IntVar(At(p).var)
    BY <1>1, <1>2, <1>6 DEF Erasing
  <2>4. \A p \in erased' : At(p).op = "load" => LoadOf(p) \in DOMAIN repl
    BY <1>1, <1>2, <1>4, <1>5 DEF Erasing, RemovedOnce
  <2>5. AllStay(repl)
    BY <1>2 DEF Erasing
  <2> QED
    BY <1>1, <2>1, <2>2, <2>3, <2>4, <2>5, SameFunction DEF Erasing, Left
<1>8. Listed'
  <2>1. num' \in Nat /\ it' \in Nat /\ it' >= 1
    BY <1>1, <1>2 DEF Listed
  <2> QED
    BY <1>1, <1>2, <2>1, ListedStays
<1>9. Listing' /\ Spreading' /\ ~Early'
  <2>1. Listing'
    BY <1>1, <1>2, SameFunction DEF RenameInv, Listing, Promoted
  <2>2. Spreading'
    BY <1>1, <1>2, SpreadingStays
  <2> QED
    BY <1>1, <2>1, <2>2 DEF Early
<1>10. Carrying'
  BY <1>1, <1>2, CarryingStays
<1>11. Filling(VisitedSet \ {BB})'
  <2>1. PICK S : S = VisitedSet \ {BB}
    OBVIOUS
  <2>2. Filling(S)'
    BY <1>1, <1>2, <2>1, FillingStays DEF RenameInv
  <2>3. (VisitedSet \ {BB})' = S
    BY <1>1, <2>1
  <2> QED
    BY <2>2, <2>3
<1>12. Removing'
  <2>1. ASSUME NEW i \in DOMAIN removable' PROVE RemovedOnce(i)'
    <3>1. i \in DOMAIN removable /\ i # n /\ i \in 1 .. n - 1
      BY <1>4
    <3>2. PICK r \in Insts : r = removable[i] /\ r = removable'[i]
      BY <1>4, <3>1
    <3>3. RemovedOnce(i)
      BY <1>2, <3>1 DEF Removing
    <3>4. Promoted(At(r).var)' /\ r \notin erased' /\ Passed(r)'
      BY <1>1, <1>3, <1>4, <3>1, <3>2, <3>3, SameFunction DEF RemovedOnce, Promoted
    <3>5. At(r)'.op = "load" => LoadOf(r) \in DOMAIN repl'
      BY <1>1, <3>2, <3>3, SameFunction DEF RemovedOnce
    <3>6. \A j \in DOMAIN removable' : i # j => r # removable'[j]
      BY <1>4, <3>2, <3>3 DEF RemovedOnce
    <3>7. Access(r)' => \E j \in DOMAIN removable' : j < i /\ removable'[j] = AllocaOf(At(r).var)'
      <4> SUFFICES ASSUME Access(r)
                   PROVE  \E j \in DOMAIN removable' : j < i /\ removable'[j] = AllocaOf(At(r).var)
        BY <1>1, SameFunction
      <4>1. PICK j \in DOMAIN removable : j < i /\ removable[j] = AllocaOf(At(r).var)
        BY <3>2, <3>3 DEF RemovedOnce
      <4>2. j \in 1 .. n - 1
        BY <1>4, <3>1, <4>1
      <4> QED
        BY <1>4, <4>1, <4>2
    <3> QED
      BY <3>2, <3>4, <3>5, <3>6, <3>7 DEF RemovedOnce
  <2>2. ASSUME NEW p \in Insts PROVE Handled(p)'
    <3>1. Handled(p)
      BY <1>2 DEF Removing
    <3>2. p \in Range(removable) => p \in Range(removable') \/ p = q
      <4>1. ASSUME NEW i \in DOMAIN removable PROVE removable[i] \in Range(removable') \/ removable[i] = q
        <5>1. i = n \/ i \in 1 .. n - 1
          BY <1>4
        <5> QED
          BY <1>4, <5>1 DEF Range
      <4> QED
        BY <4>1 DEF Range
    <3> QED
      BY <1>1, <1>3, <3>1, <3>2, SameFunction DEF Handled, Promoted
  <2> QED
    BY <1>1, <1>4, <2>1, <2>2, SameFunction DEF Removing
<1> QED
  BY <1>1, <1>2, <1>7, <1>8, <1>9, <1>10, <1>11, <1>12 DEF PassInv, RenameInv

(* Every block has been visited and the list is empty.                     *)
LEMMA StartPruningKeeps == PassInv /\ StartPruning => PassInv'
<1> SUFFICES ASSUME PassInv, StartPruning PROVE PassInv'
  OBVIOUS
<1>1. /\ phase = "rename" /\ phase' = "prune" /\ BB = 0 /\ WorkList = <<>> /\ removable = <<>>
      /\ fn' = fn /\ num' = num /\ it' = it
      /\ Allocas' = Allocas /\ phis' = phis /\ erased' = erased
      /\ repl' = repl /\ incoming' = incoming
  BY DEF StartPruning, round, code
<1>2. fn \in Functions /\ Erasing /\ Listed /\ RenameInv /\ Spreading /\ Removing
  BY <1>1 DEF PassInv, RenameInv
<1>3. VisitedSet = Blocks /\ VisitedSet \ {BB} = Blocks
  BY <1>1, <1>2, AllVisited, Well
<1>4. Full
  BY <1>2, <1>3 DEF RenameInv, Filling, Full
<1>5. ASSUME NEW p \in Insts, IntAlloca(p) PROVE p \in erased
  <2>1. Passed(p) /\ Handled(p)
    BY <1>1, <1>2, <1>3, InstIs, Well DEF Passed, Removing
  <2>2. p \in erased \/ Promoted(At(p).var)
    BY <1>2, <1>5 DEF RenameInv, Listing
  <2>3. Range(removable) = {}
    BY <1>1 DEF Range
  <2> QED
    BY <2>1, <2>2, <2>3 DEF Handled
<1>6. Cleared'
  BY <1>1, <1>4, <1>5, ClearedStays DEF Cleared
<1>7. Listed' /\ Erasing'
  <2>1. num' \in Nat /\ it' \in Nat /\ it' >= 1
    BY <1>1, <1>2 DEF Listed
  <2> QED
    BY <1>1, <1>2, <2>1, ListedStays, ErasingStays
<1> QED
  BY <1>1, <1>2, <1>6, <1>7 DEF PassInv

(* Without a phi the others are as they were.                              *)
LEMMA PruneKeeps == PassInv /\ Prune => PassInv'
<1> SUFFICES ASSUME PassInv, Prune PROVE PassInv'
  OBVIOUS
<1>1. /\ phase = "prune" /\ phase' = phase /\ fn' = fn /\ num' = num /\ it' = it
      /\ Allocas' = Allocas /\ phis' \subseteq phis /\ erased' = erased
      /\ repl' = repl /\ incoming' = incoming
  BY DEF Prune, round
<1>2. fn \in Functions /\ Erasing /\ Listed /\ Cleared
  BY <1>1 DEF PassInv
<1>3. Cleared'
  BY <1>1, <1>2, ClearedStays
<1>4. Listed' /\ Erasing'
  <2>1. num' \in Nat /\ it' \in Nat /\ it' >= 1
    BY <1>1, <1>2 DEF Listed
  <2> QED
    BY <1>1, <1>2, <2>1, ListedStays, ErasingStays
<1> QED
  BY <1>1, <1>2, <1>3, <1>4 DEF PassInv

(* The next round starts with nothing left to promote.                     *)
LEMMA AgainKeeps == PassInv /\ Again => PassInv'
<1> SUFFICES ASSUME PassInv, Again PROVE PassInv'
  OBVIOUS
<1>1. /\ phase = "prune" /\ phase' = "collect" /\ fn' = fn /\ num' = num /\ it' = 1 /\ BB' = 1
      /\ Allocas' = <<>> /\ phis' = phis /\ erased' = erased
      /\ repl' = repl /\ incoming' = incoming
  BY DEF Again, code
<1>2. fn \in Functions /\ Erasing /\ Listed /\ Cleared
  BY <1>1 DEF PassInv
<1>3. Cleared' /\ Erasing'
  BY <1>1, <1>2, ClearedStays, ErasingStays
<1>4. Listed'
  BY <1>1, <1>2 DEF Listed
<1> QED
  BY <1>1, <1>2, <1>3, <1>4 DEF PassInv, CollectInv

(* Running the function changes nothing that the pass keeps.               *)
LEMMA NothingElse ==
  ASSUME PassInv, fn' = fn, phase' = phase, UNCHANGED <<Allocas, num, BB, it, phis, incoming, repl,
         removable, erased, WorkList, VisitedSet, IncommingValues>>
  PROVE  PassInv'
<1>1. Erasing' /\ Listed'
  BY ErasingStays, ListedStays DEF PassInv, Listed
<1>2. Fresh' = Fresh /\ Early' = Early
  BY DEF Fresh, Early
<1>3. /\ OnlyDead => OnlyDead'
      /\ Listing => Listing'
      /\ Full => Full'
      /\ Cleared => Cleared'
      /\ Spreading => Spreading'
      /\ Removing => Removing'
  <2>1. \A p \in Insts : Passed(p)' = Passed(p)
    BY SameFunction DEF Passed
  <2> QED
    BY <2>1, OnlyDeadStays, ListingStays, FullStays, ClearedStays, SpreadingStays, RemovingStays
<1>4. Carrying => Carrying'
  BY CarryingStays DEF Carrying
<1>5. Filling({}) => Filling({})'
  BY FillingStays
<1>6. Filling(VisitedSet \ {BB}) => Filling(VisitedSet \ {BB})'
  <2>1. PICK S : S = VisitedSet \ {BB} /\ S = VisitedSet' \ {BB'}
    OBVIOUS
  <2>2. Filling(S) => Filling(S)'
    BY FillingStays
  <2> QED
    BY <2>1, <2>2
<1>7. CollectInv => CollectInv'
  BY <1>2, <1>3, SameFunction DEF CollectInv, Promoted
<1> QED
  BY <1>1, <1>2, <1>3, <1>4, <1>5, <1>6, <1>7 DEF PassInv, DeadInv, PhisInv, RenameInv

(* Every step keeps the invariant.                                         *)
LEMMA PassStep == PassInv /\ [PassNext]_passVars => PassInv'
<1> SUFFICES ASSUME PassInv, [PassNext]_passVars PROVE PassInv'
  OBVIOUS
<1>1. CASE CollectInst \/ CollectBlock \/ Collected
  BY <1>1, CollectInstKeeps, CollectBlockKeeps, CollectedKeeps
<1>2. CASE Analyse \/ DeleteDead \/ StartPhis
  BY <1>2, AnalyseKeeps, DeleteDeadKeeps, StartPhisKeeps
<1>3. CASE InsertPhis \/ NextAlloca \/ StartRenaming
  BY <1>3, InsertPhisKeeps, NextAllocaKeeps, StartRenamingKeeps
<1>4. CASE VisitBlock \/ RenameAlloca \/ RenameLoad \/ RenameStore
  BY <1>4, VisitBlockKeeps, RenameAllocaKeeps, RenameLoadKeeps, RenameStoreKeeps
<1>5. CASE PassOver \/ FillSuccessors \/ eraseFromParent
  BY <1>5, PassOverKeeps, FillSuccessorsKeeps, EraseKeeps
<1>6. CASE StartPruning \/ Prune \/ Again
  BY <1>6, StartPruningKeeps, PruneKeeps, AgainKeeps
<1>7. CASE Run
  BY <1>7, NothingElse DEF Run, round, renaming, code
<1>8. CASE UNCHANGED passVars
  BY <1>8, NothingElse DEF passVars, round, renaming, code
<1> QED
  BY <1>1, <1>2, <1>3, <1>4, <1>5, <1>6, <1>7, <1>8 DEF PassNext, Pass

(* A load that a store refers to has not been replaced while it is there.  *)
LEMMA InvVerifies == PassInv => Verifies
<1> SUFFICES ASSUME PassInv PROVE Verifies
  OBVIOUS
<1>1. fn \in Functions /\ Erasing
  BY DEF PassInv
<1>2. ASSUME NEW p \in Left, At(p).op # "alloca"
      PROVE  /\ AllocaOf(At(p).var) \notin erased
             /\ At(p).op = "store" => LET v == Operand(repl, At(p).val) IN
                                        v[1] = "load" => <<v[2], v[3]>> \notin erased
  <2>1. p \in Insts /\ Access(p)
    BY <1>2 DEF Left, Access
  <2>2. AllocaOf(At(p).var) \notin erased
    BY <1>1, <1>2, <2>1 DEF Erasing
  <2>3. PICK v : v = Operand(repl, At(p).val)
    OBVIOUS
  <2>4. ASSUME At(p).op = "store", v[1] = "load", <<v[2], v[3]>> \in erased PROVE FALSE
    <3>1. CASE At(p).val \in DOMAIN repl
      <4>1. Stays(v)
        BY <1>1, <2>3, <3>1 DEF Operand, Erasing, AllStay
      <4> QED
        BY <1>1, <2>4, <4>1 DEF Stays, Erasing
    <3>2. CASE At(p).val \notin DOMAIN repl
      <4>1. v = At(p).val
        BY <2>3, <3>2 DEF Operand
      <4>2. At(p).val # <<"inst", p[1], p[2]>>
        BY <2>4, <4>1
      <4>3. PICK q \in Insts : At(p).val = LoadOf(q) /\ At(q).op = "load"
        BY <1>1, <2>1, <2>4, <4>2, StoreIs
      <4>4. <<v[2], v[3]>> = q
        BY <1>1, <4>1, <4>3, InstIs DEF LoadOf
      <4> QED
        BY <1>1, <2>4, <3>2, <4>3, <4>4 DEF Erasing
    <3> QED
      BY <3>1, <3>2
  <2> QED
    BY <2>2, <2>3, <2>4
<1>3. ASSUME phase \in {"prune", "run"}, NEW p \in phis, NEW b \in Blocks
      PROVE  Cardinality({k \in DOMAIN incoming[p] : incoming[p][k][1] = b})
               = Cardinality({e \in Preds(p[2]) : e[1] = b})
  <2>1. Full
    BY <1>3 DEF PassInv, Cleared
  <2> QED
    BY <1>3, <2>1 DEF Full, OperandsOf, From, EdgesOf
<1> QED
  BY <1>2, <1>3 DEF Verifies

(* A function that LLVM accepts, whose blocks are all reachable and that   *)
(* stores no address of a variable, stays one that LLVM accepts, at every  *)
(* step of the pass: what the loop over the users, the work list and the   *)
(* list of instructions to remove leave refers to nothing that is gone,    *)
(* and a phi has an operand for each edge.                                 *)
THEOREM StaysVerified == PassSpec => []Verifies
<1>1. PassInit => PassInv
  BY PassStarts
<1>2. PassInv /\ [PassNext]_passVars => PassInv'
  BY PassStep
<1>3. PassInv => Verifies
  BY InvVerifies
<1> QED
  BY <1>1, <1>2, <1>3, PTL DEF PassSpec

(* For the same functions, the second round finds nothing: once anything   *)
(* is erased, no alloca is collected, and runOnFunction ends with it.      *)
THEOREM OneRound == PassSpec => [](phase = "collect" /\ erased # {} => Allocas = <<>>)
<1>1. PassInit => PassInv
  BY PassStarts
<1>2. PassInv /\ [PassNext]_passVars => PassInv'
  BY PassStep
<1>3. PassInv => (phase = "collect" /\ erased # {} => Allocas = <<>>)
  BY DEF PassInv, CollectInv
<1> QED
  BY <1>1, <1>2, <1>3, PTL DEF PassSpec
=============================================================================
