---------------------------- MODULE FunctionBody ----------------------------
(***************************************************************************)
(* Functions, their bodies and the symbol table of a module                *)
(* (ir-constant-function, ir-module, BasicBlock::ActionPred).              *)
(*                                                                         *)
(* A definition has a body: a RefList of basic blocks and an entry, which  *)
(* is a plain pointer.  The list owns its blocks, the module owns the      *)
(* functions it has a name for, and clients may own any of them.  A block  *)
(* knows its function (_parent) and, by its proxy, its node; its           *)
(* terminator points at a target block without owning it.  What a          *)
(* terminator does inside its block is the matter of BlockCFG; here a      *)
(* block has at most one target.                                           *)
(*                                                                         *)
(* Calls names the calls after which the code breaks its own promises:     *)
(*   insert_listed       insert a block that is in another function's list *)
(*   replace_stale       replace a block by one whose proxy is not null    *)
(*   set_entry_unlisted  set_entry with a block that is in no list         *)
(*   disable_jump        disableBody if a block jumps to one that is freed *)
(*                       before it                                         *)
(*   free_target         let a block go that a surviving one jumps to      *)
(***************************************************************************)
EXTENDS Integers, SequencesExt

CONSTANTS Functions, Blocks, Globals, Names, Null, Stale, Calls

ASSUME NamesAssumption ==
  /\ Functions \cap Blocks = {} /\ Globals \cap Functions = {}
  /\ {Null, Stale} \cap (Functions \cup Blocks \cup Globals) = {}
  /\ {Null, Stale} \cap (Functions \X Blocks) = {}

VARIABLES
  made,       \* functions and blocks constructed and not destroyed
  held,       \* those a client has an owned pointer to
  defined,    \* functions whose _body_impl is not null
  blocks,     \* BodyImpl::basic_blocks, empty for a declaration
  entry,      \* BodyImpl::entry
  parent,     \* BasicBlock::_parent
  status,     \* BasicBlock::_connect_status
  self_node,  \* the node of the proxy: <<function, block now in it>>
  target,     \* the target of a block's terminator
  functions, global_variables,    \* the maps of Module
  touched     \* did a destructor reach into a freed block?

table  == <<functions, global_variables>>
body   == <<defined, blocks, entry>>
fields == <<parent, status, self_node, target>>
vars   == <<made, held, body, fields, table, touched>>

In(f) == ToSet(blocks[f])
NodesOf(f) == {<<f, b>> : b \in Blocks}
Listed(b) == \E f \in Functions : b \in In(f)

Init ==
  /\ made = {} /\ held = {}
  /\ defined = {}
  /\ blocks = [f \in Functions |-> << >>]
  /\ entry = [f \in Functions |-> Null]
  /\ parent = [b \in Blocks |-> Null]
  /\ status = [b \in Blocks |-> "DISCONNECTED"]
  /\ self_node = [b \in Blocks |-> Null]
  /\ target = [b \in Blocks |-> Null]
  /\ functions = [n \in Names |-> Null]
  /\ global_variables = [n \in Names |-> Null]
  /\ touched = FALSE

-----------------------------------------------------------------------------
(* BodyImpl::init: a new block b, ending in a return, becomes the entry;   *)
(* only the list owns it.                                                  *)
NewBody(f, b) ==
  /\ b \in Blocks \ made
  /\ defined' = defined \cup {f}
  /\ blocks' = [blocks EXCEPT ![f] = <<b>>]
  /\ entry' = [entry EXCEPT ![f] = b]
  /\ parent' = [parent EXCEPT ![b] = f]
  /\ status' = [status EXCEPT ![b] = "CONNECTED"]
  /\ self_node' = [self_node EXCEPT ![b] = <<f, b>>]
  /\ UNCHANGED target

(* Function::Create, as a declaration or as a definition.                  *)
Create(f) ==
  /\ f \in Functions \ made
  /\ held' = held \cup {f}
  /\ \/ made' = made \cup {f} /\ UNCHANGED <<body, fields>>
     \/ \E b \in Blocks : NewBody(f, b) /\ made' = made \cup {f, b}
  /\ UNCHANGED <<table, touched>>

enableBody(f) ==
  /\ f \in (Functions \cap made) \ defined
  /\ \E b \in Blocks : NewBody(f, b) /\ made' = made \cup {b}
  /\ UNCHANGED <<held, table, touched>>

(* BasicBlock::Create and CreateWithEnding: the block is plugged at once,  *)
(* long before it is in the list of f.  A jump stays within one function.  *)
NewBlock(b, f, t) ==
  /\ b \in Blocks \ made /\ f \in defined
  /\ t # Null => t \in made /\ parent[t] = f
  /\ made' = made \cup {b} /\ held' = held \cup {b}
  /\ parent' = [parent EXCEPT ![b] = f]
  /\ status' = [status EXCEPT ![b] = "CONNECTED"]
  /\ target' = [target EXCEPT ![b] = t]
  /\ UNCHANGED <<body, self_node, table, touched>>

-----------------------------------------------------------------------------
(* A client inserts a block it owns that is in no list; its jumps and the  *)
(* jumps to it stay in the function.                                       *)
Insertable(f, b) ==
  /\ b \in Blocks \cap held /\ b \notin In(f)
  /\ Listed(b) => "insert_listed" \in Calls
  /\ \A c \in (Blocks \cap made) \ {b} : target[b] = c \/ target[c] = b => parent[c] = f

(* Insertion of b into the list of f at position k by a modifier whose     *)
(* list is that of function l.  ActionPred gives b the parent of that      *)
(* list's last block; nothing refuses a block that is in a list already.   *)
InheritOwn(l, b) == parent[b]              \* mutant: the signal is not handled
Inherit(l, b) == parent[Last(blocks[l])]

InsertInto(f, k, l, b) ==
  /\ Insertable(f, b)
  /\ blocks' = [blocks EXCEPT ![f] = InsertAt(@, k, b)]
  /\ self_node' = [self_node EXCEPT ![b] = <<f, b>>]
  /\ parent' = [parent EXCEPT ![b] = Inherit(l, b)]
  /\ status' = [status EXCEPT ![b] = "CONNECTED"]
  /\ UNCHANGED <<made, defined, held, entry, target, table, touched>>

(* RefList::append and ::prepend on the body.                              *)
append(f, b)  == f \in defined /\ InsertInto(f, Len(blocks[f]) + 1, f, b)
prepend(f, b) == f \in defined /\ InsertInto(f, 1, f, b)

(* The same around a block x, by x->get_modifier(), which pairs the node   *)
(* of x's proxy with the list of x's parent.                               *)
InsertAround(x, b, after) ==
  /\ x \in made /\ parent[x] \in defined
  /\ \E f \in defined : \E k \in DOMAIN blocks[f] :
       /\ self_node[x] = <<f, blocks[f][k]>>
       /\ InsertInto(f, k + after, parent[x], b)

append_to(x, b)  == InsertAround(x, b, 1)
prepend_to(x, b) == InsertAround(x, b, 0)

(* ActionPred asks the parent of the block, not the list, for the entry;   *)
(* its comments speak of the first block of the function.                  *)
ProtectedFirst(f, b) == b = blocks[f][1]   \* mutant: what the comments say
Protected(f, b) == entry[parent[b]] = b

(* Modifier::remove_this at position k: the block goes to the client, with *)
(* its parent and its status as they were (there is no removal signal).    *)
remove_this(f, k) ==
  LET b == blocks[f][k] IN
  /\ parent[b] \in defined /\ ~Protected(f, b)
  /\ blocks' = [blocks EXCEPT ![f] = RemoveAt(@, k)]
  /\ self_node' = [x \in Blocks |-> CASE x = b -> Null
                                      [] self_node[x] = <<f, b>> /\ x # b -> Stale
                                      [] OTHER -> self_node[x]]
  /\ held' = held \cup {b}
  /\ UNCHANGED <<defined, made, entry, parent, status, target, table, touched>>

(* Modifier::replace_this at position k: no proxy moves.                   *)
replace_this(f, k, b) ==
  LET old == blocks[f][k] IN
  /\ Insertable(f, b)
  /\ self_node[b] # Null => "replace_stale" \in Calls
  /\ parent[old] \in defined /\ ~Protected(f, old)
  /\ blocks' = [blocks EXCEPT ![f][k] = b]
  /\ self_node' = [x \in Blocks |-> IF self_node[x] = <<f, old>> THEN <<f, b>>
                                    ELSE self_node[x]]
  /\ parent' = [parent EXCEPT ![b] = parent[old]]
  /\ status' = [status EXCEPT ![b] = "CONNECTED", ![old] = "DISCONNECTED"]
  /\ held' = held \cup {old}
  /\ UNCHANGED <<defined, made, entry, target, table, touched>>

(* Function::set_entry trusts the parent pointer of the block.             *)
set_entry(f, b) ==
  /\ f \in defined /\ b \in Blocks \cap made /\ entry[f] # b
  /\ parent[b] = f
  /\ b \notin In(f) => "set_entry_unlisted" \in Calls
  /\ entry' = [entry EXCEPT ![f] = b]
  /\ UNCHANGED <<made, defined, held, blocks, fields, table, touched>>

-----------------------------------------------------------------------------
(* Destruction.  The destructor of a block that was not finalised drops    *)
(* the edge to its target, in the target: which must exist.                *)
(* RefList::clean gives up the elements of the list one after the other,   *)
(* the second before the first: it steps to the next node, resets that     *)
(* one's element, and only then deletes the node it comes from.  Blocks    *)
(* that nobody else owns are freed; tg are the targets then.               *)
Gone(f, H) == {b \in In(f) : b \notin H /\ \A g \in Functions \ {f} : b \notin In(g)}
Sooner(j, k) == IF {j, k} = {1, 2} THEN j = 2 ELSE j < k
Reaches(list, gone, tg) ==
  \E k \in DOMAIN list :
    /\ list[k] \in gone /\ tg[list[k]] # Null
    /\ \/ tg[list[k]] \notin made
       \/ \E j \in DOMAIN list : Sooner(j, k) /\ list[j] \in gone /\ tg[list[k]] = list[j]

CleanList(f, H, tg, also) ==
  LET gone == Gone(f, H) IN
  /\ \A b \in (Blocks \cap made) \ gone : tg[b] \in gone => "free_target" \in Calls
  /\ made' = made \ (gone \cup also)
  /\ held' = H
  /\ defined' = defined \ {f}
  /\ blocks' = [blocks EXCEPT ![f] = << >>]
  /\ entry' = [entry EXCEPT ![f] = Null]
  /\ target' = [b \in Blocks |-> IF b \in gone THEN Null ELSE tg[b]]
  /\ self_node' = [b \in Blocks |-> CASE b \in gone -> Null
                     [] b \notin gone /\ self_node[b] \in NodesOf(f) -> Stale
                     [] OTHER -> self_node[b]]
  /\ touched' = (touched \/ Reaches(blocks[f], gone, tg))

(* disableBody drops the list and finalises nothing.                       *)
disableBody(f) ==
  /\ f \in defined
  /\ Reaches(blocks[f], Gone(f, held), target) => "disable_jump" \in Calls
  /\ CleanList(f, held, target, {})
  /\ UNCHANGED <<parent, status, table>>

(* ~Function finalises every block of the list first, and then drops it.   *)
FinalizedNone(f) == {}                     \* mutant: like disableBody
Finalized(f) == In(f)

(* Function f loses its last owner; H is held by clients afterwards.       *)
Destroy(f, H) ==
  IF f \notin defined
  THEN /\ made' = made \ {f} /\ held' = H
       /\ UNCHANGED <<body, fields, touched>>
  ELSE /\ CleanList(f, H, [b \in Blocks |-> IF b \in Finalized(f) THEN Null ELSE target[b]], {f})
       /\ status' = [b \in Blocks |-> IF b \in Finalized(f) THEN "FINALIZED" ELSE status[b]]
       /\ UNCHANGED parent

InTable(f) == \E n \in Names : functions[n] = f

(* A client copies an owned pointer, or gives one up.                      *)
Hold(x) ==
  /\ x \in made \ held
  /\ held' = held \cup {x}
  /\ UNCHANGED <<made, body, fields, table, touched>>

ReleaseFunction(f) ==
  /\ f \in held \cap Functions
  /\ IF InTable(f) THEN /\ held' = held \ {f}
                        /\ UNCHANGED <<made, body, fields, touched>>
                   ELSE Destroy(f, held \ {f})
  /\ UNCHANGED table

ReleaseBlock(b) ==
  /\ b \in held \cap Blocks
  /\ held' = held \ {b}
  /\ IF Listed(b) THEN UNCHANGED <<made, fields, touched>>
     ELSE /\ \A c \in (Blocks \cap made) \ {b} : target[c] = b => "free_target" \in Calls
          /\ made' = made \ {b}
          /\ touched' = (touched \/ target[b] \notin made \cup {Null})
          /\ target' = [target EXCEPT ![b] = Null]
          /\ parent' = [parent EXCEPT ![b] = Null]
          /\ status' = [status EXCEPT ![b] = "DISCONNECTED"]
          /\ self_node' = [self_node EXCEPT ![b] = Null]
  /\ UNCHANGED <<body, table>>

-----------------------------------------------------------------------------
(* The symbol table.  A function that loses its last name, n, and has no   *)
(* other owner is destroyed.                                               *)
Lose(n) ==
  LET f == functions[n] IN
  IF f \in Functions \ held /\ \A m \in Names \ {n} : functions[m] # f
  THEN Destroy(f, held)
  ELSE UNCHANGED <<made, held, body, fields, touched>>

(* setDefinition is setFunction or setGlobalVariable, by kind.             *)
setFunction(n, f) ==
  /\ functions[n] = Null /\ global_variables[n] = Null
  /\ functions' = [functions EXCEPT ![n] = f]
  /\ UNCHANGED <<made, held, body, fields, global_variables, touched>>

setOrReplaceFunction(n, f) ==
  /\ global_variables[n] = Null /\ functions[n] # f
  /\ functions' = [functions EXCEPT ![n] = f]
  /\ Lose(n)
  /\ UNCHANGED global_variables

setGlobalVariable(n, v) ==
  /\ functions[n] = Null /\ global_variables[n] = Null
  /\ global_variables' = [global_variables EXCEPT ![n] = v]
  /\ UNCHANGED <<made, held, body, fields, functions, touched>>

setOrReplaceGlobalVariable(n, v) ==
  /\ functions[n] = Null
  /\ global_variables' = [global_variables EXCEPT ![n] = v]
  /\ UNCHANGED <<made, held, body, fields, functions, touched>>

(* Whatever the name stood for is erased from its map, then the new        *)
(* definition is inserted into the map of its kind.                        *)
ErasedOwnKind(map, n, d, kind) ==          \* mutant: only the map of the new kind
  [map EXCEPT ![n] = IF d \in kind THEN Null ELSE @]
Erased(map, n, d, kind) == [map EXCEPT ![n] = Null]

setOrReplaceDefinition(n, d) ==
  /\ d \notin {functions[n], global_variables[n]}
  /\ LET f == Erased(functions, n, d, Functions)
         g == Erased(global_variables, n, d, Globals)
     IN  /\ functions' = IF d \in Functions THEN [f EXCEPT ![n] = d] ELSE f
         /\ global_variables' = IF d \in Globals THEN [g EXCEPT ![n] = d] ELSE g
  /\ Lose(n)

-----------------------------------------------------------------------------
Next ==
  \/ \E f \in Functions : Create(f) \/ enableBody(f) \/ disableBody(f) \/ ReleaseFunction(f)
  \/ \E b \in Blocks, f \in Functions, t \in Blocks \cup {Null} : NewBlock(b, f, t)
  \/ \E f \in Functions, b \in Blocks : append(f, b) \/ prepend(f, b) \/ set_entry(f, b)
  \/ \E x, b \in Blocks : append_to(x, b) \/ prepend_to(x, b)
  \/ \E f \in defined : \E k \in DOMAIN blocks[f] :
       remove_this(f, k) \/ \E b \in Blocks : replace_this(f, k, b)
  \/ \E x \in Functions \cup Blocks : Hold(x)
  \/ \E b \in Blocks : ReleaseBlock(b)
  \/ \E n \in Names, f \in Functions \cap held : setFunction(n, f) \/ setOrReplaceFunction(n, f)
  \/ \E n \in Names, v \in Globals : setGlobalVariable(n, v) \/ setOrReplaceGlobalVariable(n, v)
  \/ \E n \in Names, d \in (Functions \cap held) \cup Globals : setOrReplaceDefinition(n, d)

Spec == Init /\ [][Next]_vars

-----------------------------------------------------------------------------
(***************************************************************************)
(* WellFormedBodies: the entry of a body is one of its blocks; a block is  *)
(* in the list of one function at most and once, its parent is that        *)
(* function, and its iterator, which one that replaced another lacks,      *)
(* stands on its own node there.  Removal is refused by asking the parent  *)
(* for the entry, and get_iterator pairs the parent's list with the        *)
(* proxy's node (ir-basicblock.cpp:22-28, 597-612): both are right only as *)
(* long as this holds.                                                     *)
(***************************************************************************)
WellFormedBodies ==
  \A f \in defined :
    /\ entry[f] \in In(f) /\ In(f) \subseteq made
    /\ IsInjective(blocks[f])
    /\ \A b \in In(f) : parent[b] = f /\ self_node[b] \in {Null, <<f, b>>}

(***************************************************************************)
(* NothingFreedIsTouched: no destructor of a function, of a body or of a   *)
(* block unregisters an edge in a block that is gone, whatever loops the   *)
(* blocks form and whoever else holds them.                                *)
(***************************************************************************)
NothingFreedIsTouched == ~touched

(***************************************************************************)
(* OneDefinition: a name means one thing: it is in one map at most, and    *)
(* the function it stands for exists.                                      *)
(***************************************************************************)
OneDefinition ==
  \A n \in Names :
    /\ functions[n] = Null \/ global_variables[n] = Null
    /\ functions[n] # Null => functions[n] \in made
=============================================================================
