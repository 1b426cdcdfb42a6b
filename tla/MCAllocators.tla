---------------------------- MODULE MCAllocators ----------------------------
(***************************************************************************)
(* TLC instance of the two register allocators, programs of their own: one *)
(* of them gets an input, the other none.                                  *)
(*                                                                         *)
(* The colouring gets every graph over its nodes, with all interferences   *)
(* listed from the lesser or all from the greater node; the scan every     *)
(* list of MaxVars variables within the time, in order of their start.     *)
(***************************************************************************)
EXTENDS Coloring, LinearScan

CONSTANTS MaxVars, MaxTime

Span == {i \in [start : 0 .. MaxTime, end : 0 .. MaxTime] : i.start <= i.end}
Starts(l) == \A i, j \in DOMAIN l : i < j => l[i].start <= l[j].start

MCLists == {<< >>} \cup {l \in [1 .. MaxVars -> Span] : Starts(l)}
MCIntervals == -1 .. MaxTime

Pairs == {p \in (0 .. NodeNum - 1) \X (0 .. NodeNum - 1) : p[1] < p[2]}
MCLives == SUBSET Pairs \cup SUBSET {<<p[2], p[1]>> : p \in Pairs}

MCInit ==
  \/ live = {} /\ Init /\ ScanInit
  \/ list = << >> /\ interval = 0 /\ ScanInit /\ Init

MCNext ==
  \/ Next /\ UNCHANGED scanVars
  \/ pc = "done" /\ ScanNext /\ UNCHANGED vars

MCSpec ==
  /\ MCInit /\ [][MCNext]_<<vars, scanVars>>
  /\ WF_vars(Next) /\ WF_scanVars(pc = "done" /\ ScanNext)

(***************************************************************************)
(* Both allocators end: the rounds of the colouring run out of nodes to    *)
(* spill (RegAlloc), and the time of the scan passes the last start, from  *)
(* whatever value the counter had (assign).                                *)
(***************************************************************************)
AllocatorsEnd == Terminates /\ ScanTerminates
=============================================================================
