------------------------------ MODULE Coloring ------------------------------
(***************************************************************************)
(* Register allocation by graph colouring (gra-coloring.cpp): build the    *)
(* interference graph, then rounds of simplify, coalesce and select, each  *)
(* ended by a spill and a rewrite or by the last node coloured.            *)
(*                                                                         *)
(* A loop of the program is one action for each turn.  Nodes are numbers   *)
(* because simplify takes them in ascending order and choose takes the     *)
(* least free colour.                                                      *)
(***************************************************************************)
EXTENDS Integers, FiniteSets, Sequences

CONSTANTS
  NodeNum,     \* gragh::node_num
  color_num,   \* RegAllocationContext::color_num
  Lives        \* the inputs: each a set of live states, lists of nodes

Nodes   == 0 .. NodeNum - 1
Colors  == 0 .. color_num - 1
None    == -1          \* node_color of a node that has not been coloured
Spilled == -2          \* node_color of a node that lives in memory

ASSUME NumbersAssumption == NodeNum \in Nat /\ color_num \in Nat
ASSUME LivesAssumption ==
  \A l \in Lives : \A s \in l : s \in Seq(Nodes) /\ s # << >>

VARIABLES
  live,          \* RegAllocationContext::live
  adjList,       \* gragh::adjList
  node_color,    \* variety::node_color of each node
  stk,           \* gragh::stk, the top last
  pc,            \* the phase RegAlloc is in
  index          \* the node simplify deletes next

vars == <<live, adjList, node_color, stk, pc, index>>

Entry == [node : Nodes, neighbors : SUBSET Nodes]

TypeOK ==
  /\ live \in Lives
  /\ adjList \in [Nodes -> SUBSET Nodes]
  /\ node_color \in [Nodes -> Colors \cup {None, Spilled}]
  /\ stk \in Seq(Entry)
  /\ pc \in {"build", "simplify", "select", "rewrite", "done"}
  /\ index \in 0 .. NodeNum

Init ==
  /\ live \in Lives
  /\ adjList = [n \in Nodes |-> {}]
  /\ node_color = [n \in Nodes |-> None]
  /\ stk = << >>
  /\ pc = "build"
  /\ index = 0

-----------------------------------------------------------------------------
(* The edges build makes: the first node of a live state with each node of *)
(* the state, itself included.                                             *)
Edge(u, v) == \E s \in live : u = s[1] /\ \E i \in 1 .. Len(s) : v = s[i]

build ==
  /\ pc = "build"
  /\ adjList' = [u \in Nodes |-> {v \in Nodes : Edge(u, v) \/ Edge(v, u)}]
  /\ pc' = "simplify"
  /\ UNCHANGED <<live, node_color, stk, index>>

(* Mutant: the neighbours are read after the list was cleared.             *)
delete_nodeCleared(n) ==
  /\ stk' = Append(stk, [node |-> n, neighbors |-> {}])
  /\ adjList' = [u \in Nodes |-> IF u = n THEN {} ELSE adjList[u] \ {n}]

(* The node leaves the graph, and its neighbours go onto the stack.        *)
delete_node(n) ==
  /\ stk' = Append(stk, [node |-> n, neighbors |-> adjList[n]])
  /\ adjList' = [u \in Nodes |-> IF u = n THEN {} ELSE adjList[u] \ {n}]

simplify ==
  /\ pc = "simplify" /\ index < NodeNum
  /\ delete_node(index)
  /\ index' = index + 1
  /\ UNCHANGED <<live, node_color, pc>>

(* coalesce merges along M_edge, to which nothing is ever added.           *)
coalesce ==
  /\ pc = "simplify" /\ index = NodeNum
  /\ pc' = "select"
  /\ UNCHANGED <<live, adjList, node_color, stk, index>>

-----------------------------------------------------------------------------
top     == stk[Len(stk)]
pop_stk == stk' = SubSeq(stk, 1, Len(stk) - 1)

(* The graph with a popped node's edges back, in both directions.          *)
Restored(e) ==
  [u \in Nodes |-> IF u = e.node THEN adjList[u] \cup e.neighbors
                   ELSE IF u \in e.neighbors THEN adjList[u] \cup {e.node}
                   ELSE adjList[u]]

(* Mutant: the last colour is forgotten.                                   *)
FreeButLast(n, adj) == {c \in Colors : c < color_num - 1} \ {node_color[u] : u \in adj[n]}

(* The colours choose may take: its neighbours' are barred, and its own of *)
(* an earlier round when it is its own neighbour.                          *)
Free(n, adj) == Colors \ {node_color[u] : u \in adj[n]}

LeastFree(n, adj, c) == c \in Free(n, adj) /\ \A d \in Free(n, adj) : c <= d

choose ==
  /\ pc = "select" /\ stk # << >>
  /\ pop_stk
  /\ LET n == top.node  adj == Restored(top)
     IN  /\ adjList' = adj
         /\ \/ node_color[n] = Spilled /\ UNCHANGED node_color
            \/ /\ node_color[n] # Spilled
               /\ \E c \in Colors : /\ LeastFree(n, adj, c)
                                    /\ node_color' = [node_color EXCEPT ![n] = c]
  /\ UNCHANGED <<live, pc, index>>

(* Mutant: the round fails, and the node is left as it was.                *)
spillUnmarked ==
  /\ pc = "select" /\ stk # << >>
  /\ pop_stk
  /\ LET n == top.node  adj == Restored(top)
     IN  /\ node_color[n] # Spilled /\ Free(n, adj) = {}
         /\ adjList' = adj
  /\ pc' = "rewrite"
  /\ UNCHANGED <<live, node_color, index>>

spill ==
  /\ pc = "select" /\ stk # << >>
  /\ pop_stk
  /\ LET n == top.node  adj == Restored(top)
     IN  /\ node_color[n] # Spilled /\ Free(n, adj) = {}
         /\ node_color' = [node_color EXCEPT ![n] = Spilled]
         /\ adjList' = [adj EXCEPT ![n] = {}]
  /\ pc' = "rewrite"
  /\ UNCHANGED <<live, index>>

finish ==
  /\ pc = "select" /\ stk = << >>
  /\ pc' = "done"
  /\ UNCHANGED <<live, adjList, node_color, stk, index>>

rewrite ==
  /\ pc = "rewrite" /\ stk # << >>
  /\ pop_stk
  /\ adjList' = Restored(top)
  /\ UNCHANGED <<live, node_color, pc, index>>

(* The next round deletes all nodes again, spilled ones too.               *)
again ==
  /\ pc = "rewrite" /\ stk = << >>
  /\ pc' = "simplify" /\ index' = 0
  /\ UNCHANGED <<live, adjList, node_color, stk>>

Next == build \/ simplify \/ coalesce \/ choose \/ spill \/ finish \/ rewrite \/ again

(* RegAlloc is one sequential loop that only the end of it stops.          *)
Spec == Init /\ [][Next]_vars /\ WF_vars(Next)

-----------------------------------------------------------------------------
InMemory(n) == node_color[n] = Spilled
Conflict(u, v) == u # v /\ (Edge(u, v) \/ Edge(v, u))

OnStack(n) == \E i \in 1 .. Len(stk) : stk[i].node = n
Recorded(u, v) ==
  \E i \in 1 .. Len(stk) : stk[i].node = u /\ v \in stk[i].neighbors

(***************************************************************************)
(* No interference between two nodes in registers is ever lost: it is in   *)
(* the graph, in both directions, or on the stack with the first of the    *)
(* two that was deleted, whatever rounds of deletion, spill and rewrite    *)
(* went before (delete_node, select, spill, rewrite).                      *)
(***************************************************************************)
ConflictsKept ==
  pc # "build" =>
    \A u, v \in Nodes :
      Conflict(u, v) /\ ~InMemory(u) /\ ~InMemory(v) =>
        \/ v \in adjList[u] /\ u \in adjList[v]
        \/ Recorded(u, v) \/ Recorded(v, u)

(***************************************************************************)
(* When RegAlloc prints the result, every node has a register or lives in  *)
(* memory, and no two nodes that interfere share a register.               *)
(***************************************************************************)
AllocationProper ==
  pc = "done" =>
    /\ \A n \in Nodes : node_color[n] \in Colors \cup {Spilled}
    /\ \A u, v \in Nodes :
         Conflict(u, v) /\ ~InMemory(u) /\ ~InMemory(v) => node_color[u] # node_color[v]

(***************************************************************************)
(* No node with room is spilled: it has at least one neighbour for each    *)
(* register but one.  The one it may miss is its own register of an        *)
(* earlier round, which choose bars to it when it is its own neighbour.    *)
(***************************************************************************)
SpilledIsCrowded ==
  \A n \in Nodes :
    InMemory(n) => Cardinality({v \in Nodes : Conflict(n, v)}) >= color_num - 1

(***************************************************************************)
(* RegAlloc ends: rounds that fail spill a node that stays spilled (the    *)
(* while loop over flag in RegAlloc).                                      *)
(***************************************************************************)
Terminates == <>(pc = "done")

(***************************************************************************)
(* What the comments in front of the program and in gra-coloring.h say of  *)
(* the input, that a live state lists the variables live at one point:     *)
(* they then need different registers.                                     *)
(***************************************************************************)
LiveTogetherDiffer ==
  pc = "done" =>
    \A s \in live : \A i, j \in 1 .. Len(s) :
      s[i] # s[j] /\ ~InMemory(s[i]) /\ ~InMemory(s[j]) => node_color[s[i]] # node_color[s[j]]
=============================================================================
