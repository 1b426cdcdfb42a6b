----------------------------- MODULE MutableContext -----------------------------
(***************************************************************************)
(* Function::MutableContext: the registers a function hands out.  The      *)
(* allocator gives the index, registers the Mutable object; an object      *)
(* whose type is not the wanted one is replaced.                           *)
(*                                                                         *)
(* Calls names the calls the code does not guard against: "stale_free", a  *)
(* Mutable freed again by a client that already freed it; "reenable",      *)
(* enableMutContext on a function that has a context.                      *)
(***************************************************************************)
EXTENDS Integers, Sequences

CONSTANTS
  Mutables,      \* Mutable objects
  RegTypes,      \* their types
  MaxEntry, Words,
  Calls

ASSUME MutableContextAssumption ==
  MaxEntry \in Nat \ {0} /\ Words \in Nat /\ MaxEntry < Words

VARIABLES
  enabled,       \* _mut_ctx is not null
  registers,     \* MutableContext::registers
  type, index,   \* of each Mutable
  used,          \* the Mutables whose list_as_usee is not empty
  held,          \* handed out to a client that has not freed them
  stale,         \* freed, but still referred to by that client
  cur_max_id, prev, next, allocated, allocated_nelems

A == INSTANCE IdAllocator

allocator == <<cur_max_id, prev, next, allocated, allocated_nelems>>
vars      == <<enabled, registers, type, index, used, held, stale, allocator>>

TypeOK ==
  /\ enabled \in BOOLEAN
  /\ registers \in Seq(Mutables)
  /\ type \in [Mutables -> RegTypes]
  /\ index \in [Mutables -> Nat]
  /\ used \subseteq Mutables /\ held \subseteq Mutables /\ stale \subseteq Mutables
  /\ A!TypeOK

Init ==
  /\ enabled = FALSE
  /\ registers = <<>>
  /\ type \in [Mutables -> RegTypes] /\ index = [m \in Mutables |-> 0]
  /\ used = {} /\ held = {} /\ stale = {}
  /\ A!Init

-----------------------------------------------------------------------------
(* Registers are counted from zero.                                        *)
Register(id) == registers[id + 1]

(* An object nobody refers to, for the next Mutable::Create.               *)
Fresh == Mutables \ ({registers[i] : i \in DOMAIN registers} \cup held \cup stale)

(* Mutant: the object in the slot is handed out whatever its type.         *)
TakenUntyped(t, id, m) ==
  IF id >= Len(registers)
  THEN m \in Fresh /\ registers' = Append(registers, m)
  ELSE m = Register(id) /\ registers' = registers

(* The Mutable handed out for the index id.                                *)
Taken(t, id, m) ==
  IF id >= Len(registers)
  THEN m \in Fresh /\ registers' = Append(registers, m)
  ELSE IF type[Register(id)] = t
  THEN m = Register(id) /\ registers' = registers
  ELSE m \in Fresh /\ registers' = [registers EXCEPT ![id + 1] = m]

allocateMutable(t) ==
  /\ enabled
  /\ A!allocate
  /\ \E m \in Mutables :
       /\ Taken(t, A!Top - 2, m)
       /\ type' = [type EXCEPT ![m] = t]
       /\ index' = [index EXCEPT ![m] = A!Top - 2]
       /\ held' = held \cup {m} /\ stale' = stale \ {m}
  /\ UNCHANGED <<enabled, used>>

(* Mutant: a Mutable is freed while instructions use it. *)
FreeableUsed(m) == TRUE \in A!isAllocated(index[m])

(* MUT_UNALLOCATED and MUT_STILL_USED are the other answers.               *)
Freeable(m) == TRUE \in A!isAllocated(index[m]) /\ m \notin used

freeMutable(m) ==
  /\ enabled
  /\ m \in held \/ (m \in stale /\ "stale_free" \in Calls)
  /\ Freeable(m)
  /\ A!free(index[m])
  /\ held' = held \ {m} /\ stale' = stale \cup {m}
  /\ UNCHANGED <<enabled, registers, type, index, used>>

(* An instruction begins or ceases to use a Mutable; a client forgets one. *)
Use(m) ==
  /\ m \in held \ used
  /\ used' = used \cup {m}
  /\ UNCHANGED <<enabled, registers, type, index, held, stale, allocator>>

Unuse(m) ==
  /\ m \in used
  /\ used' = used \ {m}
  /\ UNCHANGED <<enabled, registers, type, index, held, stale, allocator>>

Forget(m) ==
  /\ m \in stale
  /\ stale' = stale \ {m}
  /\ UNCHANGED <<enabled, registers, type, index, used, held, allocator>>

(* A new context; an old one is dropped with its registers.                *)
Clear ==
  /\ registers' = <<>>
  /\ cur_max_id' = 2
  /\ prev' = [e \in 0 .. 1 |-> -1]
  /\ next' = [e \in 0 .. 1 |-> -1]
  /\ allocated' = [e \in 0 .. 1 |-> e = 1]
  /\ allocated_nelems' = 0
  /\ UNCHANGED <<type, index, used, held, stale>>

enableMutContext ==
  /\ enabled => "reenable" \in Calls
  /\ enabled' = TRUE
  /\ Clear

(* Mutant: the stack is asked instead of the counter, and the wrong one.   *)
CountUnused == IF next[0] = -1 THEN 0 ELSE 1

count_registers == allocated_nelems

disableMutContext ==
  /\ enabled /\ count_registers = 0
  /\ enabled' = FALSE
  /\ Clear

Next ==
  \/ enableMutContext \/ disableMutContext
  \/ \E t \in RegTypes : allocateMutable(t)
  \/ \E m \in Mutables : freeMutable(m) \/ Use(m) \/ Unuse(m) \/ Forget(m)

Spec == Init /\ [][Next]_vars

-----------------------------------------------------------------------------
(* Every entry of the allocator is on the stack its flag says, and only    *)
(* there; no two entries have the same successor, so that no stack runs    *)
(* into itself; and a used entry knows its predecessor, which free() goes  *)
(* by.                                                                     *)
StacksPartition == A!OnItsStack /\ A!SuccessorsDiffer /\ A!PrevOfUsed

(* A Mutable a client holds is the one in its register, and its index is   *)
(* not free: no two clients share a register, and none is taken away.      *)
HeldStaysAllocated ==
  \A m \in held : /\ enabled
                  /\ index[m] < Len(registers) /\ Register(index[m]) = m
                  /\ allocated[index[m] + 2]

(* What allocateMutable hands out has the type asked for, and no           *)
(* instruction uses it.                                                    *)
HandsOutUnused ==
  [][\A t \in RegTypes : allocateMutable(t) =>
       \A m \in held' \ held : type'[m] = t /\ m \notin used]_vars

(* disableMutContext gives up the context only if every Mutable that was   *)
(* handed out has been freed.                                              *)
DisabledOnlyIfUnheld ==
  [][disableMutContext => held = {}]_vars

(* Once freeMutable has answered OK, the index is free.                    *)
FreedIsFree ==
  [][\A m \in Mutables : freeMutable(m) => ~allocated'[index[m] + 2]]_vars
=============================================================================
