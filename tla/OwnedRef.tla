-------------------------------- MODULE OwnedRef --------------------------------
(***************************************************************************)
(* MTB::owned and MTB::Object: intrusive reference counting.  A handle is  *)
(* an owned pointer; a variable is one, and so is the field of an object,  *)
(* which the object itself names here.                                     *)
(*                                                                         *)
(* An assignment gives up the old target first and reads the source only   *)
(* then; in between the destructors of everything it held run.             *)
(*                                                                         *)
(* Misuses names the uses the code does not guard against: "self_assign",  *)
(* p = p; "through_target", an assignment whose source is reached only     *)
(* through the target (p = p->next).                                       *)
(***************************************************************************)
EXTENDS Integers, FiniteSets

CONSTANTS
  Vars,       \* owned variables
  Objects,
  Inline,     \* objects protected by setInlineInit
  Null,
  Misuses

ASSUME OwnedRefAssumption ==
  /\ IsFiniteSet(Vars) /\ IsFiniteSet(Objects)
  /\ Vars \cap Objects = {} /\ Inline \subseteq Objects
  /\ Null \notin Vars \cup Objects

VARIABLES
  ptr,         \* owned::__ptr
  ref_count,   \* Object::__ref_count__
  live,        \* constructed and not yet destroyed
  dying,       \* the object about to be destroyed, if any
  pending,     \* the assignment that will go on then: target, source and kind
  stolen       \* held by a client that called steal_get on the last handle

ownedVars == <<ptr, ref_count, live, dying, pending, stolen>>

Handles == Vars \cup Objects

Nothing     == [to |-> Null, from |-> Null, how |-> "none"]
Assignments == [to : Handles, from : Handles \cup {Null}, how : {"copy", "move", "reset"}]

OwnedTypeOK ==
  /\ ptr \in [Handles -> Objects \cup {Null}]
  /\ ref_count \in [Objects -> Nat]
  /\ live \subseteq Objects /\ stolen \subseteq live
  /\ dying \in live \cup {Null}
  /\ pending \in Assignments \cup {Nothing}

OwnedInit ==
  /\ ptr = [h \in Handles |-> Null]
  /\ ref_count = [o \in Objects |-> IF o \in Inline THEN 1 ELSE 0]
  /\ live = Inline /\ stolen = {}
  /\ dying = Null /\ pending = Nothing

-----------------------------------------------------------------------------
(* The objects that are held when the handle h is left out: by a variable, *)
(* by being inline or stolen, or by the field of one that is held.         *)
HeldWithout(h) ==
  {o \in Objects : \A S \in SUBSET Objects :
     /\ Inline \cup stolen \subseteq S
     /\ \A v \in Vars \ {h} : ptr[v] # Null => ptr[v] \in S
     /\ \A f \in S \ {h} : ptr[f] # Null => ptr[f] \in S
     => o \in S}

(* A client names a handle as a variable or as the field of what is held.  *)
Named(h)           == h \in Vars \cup HeldWithout(Null)
NamedWithout(h, g) == h \in Vars \cup HeldWithout(g)

Idle == dying = Null /\ pending = Nothing

(* Mutant: one reference too many is dropped. *)
UnrefTwice(h) ==
  IF ptr[h] = Null THEN UNCHANGED ref_count /\ dying' = Null
  ELSE /\ ref_count' = [ref_count EXCEPT ![ptr[h]] = IF @ > 1 THEN @ - 2 ELSE 0]
       /\ dying' = IF ref_count'[ptr[h]] = 0 THEN ptr[h] ELSE Null

(* Mutant: the object is not destroyed. *)
UnrefKeeping(h) ==
  IF ptr[h] = Null THEN UNCHANGED ref_count /\ dying' = Null
  ELSE /\ ref_count' = [ref_count EXCEPT ![ptr[h]] = @ - 1]
       /\ dying' = Null

unref(h) ==
  IF ptr[h] = Null THEN UNCHANGED ref_count /\ dying' = Null
  ELSE /\ ref_count' = [ref_count EXCEPT ![ptr[h]] = @ - 1]
       /\ dying' = IF ref_count[ptr[h]] = 1 THEN ptr[h] ELSE Null

ref(h, o) ==
  /\ ptr' = [ptr EXCEPT ![h] = o]
  /\ ref_count' = [ref_count EXCEPT ![o] = @ + 1]

(* make_owned, and the constructor from a plain pointer.                   *)
make_owned(h, o) ==
  /\ Idle /\ h \in Vars /\ ptr[h] = Null /\ o \notin live
  /\ ptr' = [ptr EXCEPT ![o] = Null, ![h] = o]
  /\ ref_count' = [ref_count EXCEPT ![o] = 1]
  /\ live' = live \cup {o}
  /\ UNCHANGED <<dying, pending, stolen>>

construct(h, o) ==
  /\ Idle /\ h \in Vars /\ ptr[h] = Null
  /\ o \in HeldWithout(Null)
  /\ ref(h, o)
  /\ stolen' = stolen \ {o}
  /\ UNCHANGED <<live, dying, pending>>

(* The copying constructor reads through its source, which is not null.    *)
copy_construct(h, g) ==
  /\ Idle /\ h \in Vars /\ ptr[h] = Null /\ Named(g) /\ ptr[g] # Null
  /\ ref(h, ptr[g])
  /\ UNCHANGED <<live, dying, pending, stolen>>

(* The assignment operators up to the end of unref.  A moving constructor  *)
(* is a moving assignment to a null handle; reset, the assignment of null  *)
(* and the destructor of a variable have no source.                        *)
Assign(h, g, how) ==
  /\ Idle /\ Named(h) /\ Named(g)
  /\ g = h => how = "move" \/ "self_assign" \in Misuses
  /\ g # h => NamedWithout(g, h) \/ "through_target" \in Misuses
  /\ unref(h)
  /\ pending' = [to |-> h, from |-> g, how |-> how]
  /\ UNCHANGED <<ptr, live, stolen>>

reset(h) ==
  /\ Idle /\ Named(h)
  /\ unref(h)
  /\ pending' = [to |-> h, from |-> Null, how |-> "reset"]
  /\ UNCHANGED <<ptr, live, stolen>>

(* delete, and the destructor of the field.  The freed memory keeps what   *)
(* it held.                                                                *)
Destroy ==
  /\ dying # Null
  /\ live' = live \ {dying}
  /\ unref(dying)
  /\ UNCHANGED <<ptr, pending, stolen>>

(* A handle that has been freed by the unref is not read here: what        *)
(* follows is undefined.                                                   *)
Readable(h) == h \in Vars \cup live /\ ptr[h] \in live \cup {Null}

(* Mutant: the source keeps what was moved out of it. *)
MoveKept ==
  /\ dying = Null /\ pending.how = "move" /\ pending.to \in Vars \cup live
  /\ Readable(pending.from)
  /\ ptr' = [ptr EXCEPT ![pending.to] = ptr[pending.from]]
  /\ pending' = Nothing
  /\ UNCHANGED <<ref_count, live, dying, stolen>>

Move ==
  /\ dying = Null /\ pending.how = "move" /\ pending.to \in Vars \cup live
  /\ pending.from = pending.to \/ Readable(pending.from)
  /\ ptr' = [ptr EXCEPT ![pending.to] = ptr[pending.from], ![pending.from] = Null]
  /\ pending' = Nothing
  /\ UNCHANGED <<ref_count, live, dying, stolen>>

Copy ==
  /\ dying = Null /\ pending.how = "copy" /\ pending.to \in Vars \cup live
  /\ Readable(pending.from)
  /\ IF ptr[pending.from] = Null
     THEN ptr' = [ptr EXCEPT ![pending.to] = Null] /\ UNCHANGED ref_count
     ELSE ref(pending.to, ptr[pending.from])
  /\ pending' = Nothing
  /\ UNCHANGED <<live, dying, stolen>>

PutNull ==
  /\ dying = Null /\ pending.how = "reset" /\ pending.to \in Vars \cup live
  /\ ptr' = [ptr EXCEPT ![pending.to] = Null]
  /\ pending' = Nothing
  /\ UNCHANGED <<ref_count, live, dying, stolen>>

(* The count goes down and the object stays: the last holder now has to    *)
(* delete it, or to hand it to a handle again.                             *)
steal_get(h) ==
  /\ Idle /\ Named(h) /\ ptr[h] # Null
  /\ ptr' = [ptr EXCEPT ![h] = Null]
  /\ ref_count' = [ref_count EXCEPT ![ptr[h]] = @ - 1]
  /\ stolen' = IF ref_count[ptr[h]] = 1 THEN stolen \cup {ptr[h]} ELSE stolen
  /\ UNCHANGED <<live, dying, pending>>

(* Mutant: the object still counts as stolen. *)
deleteStolen(o) ==
  /\ Idle /\ o \in stolen
  /\ dying' = o
  /\ UNCHANGED <<ptr, ref_count, live, pending, stolen>>

delete(o) ==
  /\ Idle /\ o \in stolen
  /\ stolen' = stolen \ {o}
  /\ dying' = o
  /\ UNCHANGED <<ptr, ref_count, live, pending>>

OwnedNext ==
  \/ \E h \in Vars, o \in Objects : make_owned(h, o) \/ construct(h, o)
  \/ \E h \in Vars, g \in Handles : copy_construct(h, g)
  \/ \E h, g \in Handles, how \in {"copy", "move"} : Assign(h, g, how)
  \/ \E h \in Handles : reset(h) \/ steal_get(h)
  \/ \E o \in Objects : delete(o)
  \/ Destroy \/ Move \/ Copy \/ PutNull

OwnedSpec == OwnedInit /\ [][OwnedNext]_ownedVars

-----------------------------------------------------------------------------
Holders(o) == {h \in (Vars \cup live) \ {pending.to} : ptr[h] = o}

(* The count of an object is the number of handles that point to it, and   *)
(* one more if it is inline.                                               *)
CountExact ==
  \A o \in live :
    ref_count[o] = Cardinality(Holders(o)) + IF o \in Inline THEN 1 ELSE 0

(* No handle points to an object that has been destroyed or is about to    *)
(* be.                                                                     *)
HandlesLive ==
  \A h \in (Vars \cup live) \ {pending.to} : ptr[h] \in (live \ {dying}) \cup {Null}

(* When the destructors have run, both handles of the assignment and what  *)
(* the source points to are still there.                                   *)
NothingFreedIsRead ==
  pending # Nothing /\ dying = Null =>
    /\ pending.to \in Vars \cup live
    /\ pending.how = "copy" \/ (pending.how = "move" /\ pending.from # pending.to)
         => Readable(pending.from)

(* What nobody holds is destroyed at once.                                 *)
NothingLeftOver ==
  \A o \in live \ stolen : o = dying \/ ref_count[o] > 0
=============================================================================
