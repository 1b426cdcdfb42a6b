------------------------------- MODULE SeqList -------------------------------
(***************************************************************************)
(* What RefList promises its clients: each list is a finite sequence of    *)
(* distinct elements in which one element can be inserted anywhere, removed*)
(* or exchanged, and which can be emptied.                                 *)
(***************************************************************************)
EXTENDS SequencesExt, Integers

CONSTANTS Lists, Elems
VARIABLE items            \* items[l] is the sequence of elements of list l

Listed == UNION {ToSet(items[l]) : l \in Lists}

Init == items = [l \in Lists |-> << >>]

Insert(l, i, e) ==
  /\ e \notin Listed
  /\ items' = [items EXCEPT ![l] = InsertAt(@, i, e)]

Take(l, i) == items' = [items EXCEPT ![l] = RemoveAt(@, i)]

Exchange(l, i, e) ==
  /\ e \notin Listed
  /\ items' = [items EXCEPT ![l][i] = e]

Clear(l) == items' = [items EXCEPT ![l] = << >>]

Next ==
  \E l \in Lists :
    \/ \E i \in 1 .. Len(items[l]) + 1, e \in Elems : Insert(l, i, e)
    \/ \E i \in DOMAIN items[l] : Take(l, i)
    \/ \E i \in DOMAIN items[l], e \in Elems : Exchange(l, i, e)
    \/ Clear(l)

Spec == Init /\ [][Next]_items
=============================================================================
